-------------------------- MODULE FlowCacheProofs --------------------------
(***************************************************************************)
(* Proofs about FlowCache for every set of microflows and of matches,      *)
(* every number of flows and every size of batch.  The invariant has three *)
(* parts.  One is of flows and EMC: the references are counted, what the   *)
(* EMC holds matches its key, and what the other thread is at is in the    *)
(* tables it has yet to leave.  Another is of what the PMD thread holds:   *)
(* each flow in its sequences is used, covers its packet and was not dead  *)
(* at the receipt.  A step of the other thread leaves it alone because     *)
(* flows that are used stay used while the PMD thread is not quiescent     *)
(* (Kept, Carry).  The third (Placed) says where each packet of the batch  *)
(* is: in a batch of packets, in flow_map, missed, or answered by the slow *)
(* path.  From it and from what the folds of Flush compute, each packet is *)
(* executed once, and in order.                                            *)
(***************************************************************************)
EXTENDS FlowCache, FiniteSetTheorems, WellFoundedInduction, TLAPS

-----------------------------------------------------------------------------
(* The types of the variables.                                             *)
FlowType == [used : BOOLEAN, match : Mega \cup {{}}, inCls : BOOLEAN, inTable : BOOLEAN,
             inSimple : BOOLEAN, dead : BOOLEAN, ref : Nat, batch : Nat,
             postponed : BOOLEAN]
PmdPc == {"idle", "dfc", "smc", "cls", "lock", "upcall", "install", "insert", "cache",
          "flush"}
CtlPc == {"idle", "put", "putSimple", "simple", "table", "dead"}
Ref == Ids \cup {Null}
EmcEntry == [key : Key \cup {Null}, flow : Ref]
MissEntry == [pkt : Nat, at : Nat, rule : Ref]
MapEntry == [pkt : Nat, flow : Ref]
BatchEntry == [flow : Ids, pkts : Seq(Nat)]

Typed ==
  /\ flow \in [Ids -> FlowType]
  /\ emc \in [Slot -> EmcEntry] /\ sweep \in Slot
  /\ ctl \in [pc : CtlPc, flow : Ref]
  /\ pc \in PmdPc /\ keys \in Seq(Key) /\ next \in Nat /\ simple \in BOOLEAN
  /\ missed \in Seq(MissEntry) /\ map \in Seq(MapEntry) /\ batches \in Seq(BatchEntry)
  /\ new \in Ref /\ gone \subseteq Ids /\ removed \in BOOLEAN

(* How many positions of the EMC hold flow f.                              *)
One(b) == IF b THEN 1 ELSE 0
Entries(em, f) == One(em[1].flow = f) + One(em[2].flow = f)

(* A flow: blank when it is not used; only one that is not dead is in a    *)
(* table; its references; and it is postponed when it has none.            *)
Sound(fl, em, f) ==
  /\ ~fl[f].used => fl[f] = NoFlow
  /\ fl[f].inCls \/ fl[f].inTable \/ fl[f].inSimple => fl[f].used /\ ~fl[f].dead
  /\ fl[f].used =>
       /\ fl[f].ref = Entries(em, f) + One(~fl[f].dead) + One(fl[f].inSimple)
       /\ fl[f].postponed = (fl[f].ref = 0)

(* What the EMC holds is used and matches its key.                         *)
Matches(fl, k, f) == f # Null => fl[f].used /\ k \in fl[f].match

Referred(fl, em) ==
  /\ \A f \in Ids : Sound(fl, em, f)
  /\ \A s \in Slot : Matches(fl, em[s].key, em[s].flow)
References == Referred(flow, emc)

(* The flow that the other thread puts or removes.                         *)
Controlled ==
  /\ ctl.pc # "idle" => ctl.flow \in Ids /\ flow[ctl.flow].used /\ ~flow[ctl.flow].dead
  /\ ctl.pc \in {"put", "putSimple", "table", "dead"} => ~flow[ctl.flow].inSimple
  /\ ctl.pc = "simple" => flow[ctl.flow].inSimple
  /\ ctl.pc \in {"simple", "table", "dead"} => ~flow[ctl.flow].inCls
  /\ ctl.pc = "dead" => ~flow[ctl.flow].inTable

(* How far the PMD thread is.                                              *)
Staged ==
  /\ pc = "idle" => keys = <<>> /\ map = <<>> /\ missed = <<>> /\ batches = <<>> /\ gone = {}
  /\ pc = "dfc" =>
       next \in 1 .. Len(keys) /\ Len(map) + 1 <= next /\ Len(batches) + 1 <= next
  /\ pc \in {"smc", "cls", "upcall", "install", "insert"} => next \in 1 .. Len(missed)
  /\ pc \in {"lock", "cache"} => missed # <<>> /\ next = 1
  /\ pc = "flush" => missed = <<>>
  /\ Len(missed) <= Len(map) /\ Len(map) <= Len(keys) /\ Len(batches) <= Len(keys)

(* Flow f, or none, may take packet p.                                     *)
Takes(ks, fl, gn, p, f) ==
  /\ p \in 1 .. Len(ks)
  /\ f # Null => fl[f].used /\ ks[p] \in fl[f].match /\ f \notin gn

(* The flow of a batch may take its packets.                               *)
Fits(ks, fl, gn, b) ==
  /\ fl[b.flow].used
  /\ \A j \in 1 .. Len(b.pkts) : Takes(ks, fl, gn, b.pkts[j], b.flow)

Mapped == \A i \in 1 .. Len(map) : Takes(keys, flow, gone, map[i].pkt, map[i].flow)
Missing ==
  \A i \in 1 .. Len(missed) :
    /\ Takes(keys, flow, gone, missed[i].pkt, missed[i].rule)
    /\ missed[i].at \in 1 .. Len(map) /\ map[missed[i].at].pkt = missed[i].pkt
Batching == \A i \in 1 .. Len(batches) : Fits(keys, flow, gone, batches[i])
Installing ==
  IF pc = "insert" THEN new # Null /\ Takes(keys, flow, gone, missed[next].pkt, new)
  ELSE new = Null
Gone == \A f \in gone : flow[f].dead

(* A flow that has a batch knows which.                                    *)
Known ==
  \A f \in Ids : flow[f].batch # Null =>
    flow[f].batch \in 1 .. Len(batches) /\ batches[flow[f].batch].flow = f

Inv == /\ Typed /\ References /\ Controlled /\ Staged /\ Mapped /\ Missing /\ Batching
       /\ Installing /\ Gone /\ Known /\ NoDuplicate

-----------------------------------------------------------------------------
(* Null is no flow; a hash has two positions.                              *)
LEMMA IdsNat == Ids \subseteq Nat \ {0} /\ Null \notin Ids /\ Slot = {1, 2}
  BY CacheAssumption DEF Ids, Null, Slot

(* There are two of them.                                                  *)
LEMMA SlotCount == Cardinality(Slot) = 2
<1>1. \A a, b \in Int : Cardinality(a .. b) = IF a > b THEN 0 ELSE b - a + 1
  BY FS_Interval
<1>2. \A b \in Int : Cardinality(1 .. b) = IF 1 > b THEN 0 ELSE b - 1 + 1
  BY <1>1
<1> DEFINE n == 2
<1>3. n \in Int /\ (IF 1 > n THEN 0 ELSE n - 1 + 1) = 2 /\ Slot = 1 .. n
  BY DEF Slot
<1> HIDE DEF n
<1> QED
  BY <1>2, <1>3

(* A blank flow is one.                                                    *)
LEMMA NoFlowType == NoFlow \in FlowType
  BY DEF NoFlow, FlowType, Null

(* The fields of a flow other than its references and batch.               *)
SameFlow(g, h) ==
  /\ g.used = h.used /\ g.match = h.match /\ g.inCls = h.inCls /\ g.inTable = h.inTable
  /\ g.inSimple = h.inSimple /\ g.dead = h.dead /\ g.batch = h.batch

(* The flow that loses a reference, as a record.                           *)
LEMMA UnrefIs ==
  ASSUME NEW fl \in [Ids -> FlowType], NEW f \in Ids
  PROVE  Unref(fl, f) = [fl EXCEPT ![f] = [fl[f] EXCEPT !.ref = fl[f].ref - 1,
                                                       !.postponed = (fl[f].ref = 1)]]
  BY DEF Unref

(* dp_netdev_flow_unref: nothing but the flow's references and whether it  *)
(* is postponed change.                                                    *)
LEMMA UnrefEffect ==
  ASSUME NEW fl \in [Ids -> FlowType], NEW f \in Ids, fl[f].ref > 0
  PROVE  LET gl == Unref(fl, f) IN
         /\ gl \in [Ids -> FlowType]
         /\ \A g \in Ids \ {f} : gl[g] = fl[g]
         /\ SameFlow(gl[f], fl[f])
         /\ gl[f].ref = fl[f].ref - 1 /\ gl[f].postponed = (fl[f].ref = 1)
<1> DEFINE gl == Unref(fl, f)
           r == [fl[f] EXCEPT !.ref = fl[f].ref - 1, !.postponed = (fl[f].ref = 1)]
<1>1. fl[f] \in FlowType /\ fl[f].ref - 1 \in Nat
  BY DEF FlowType
<1>2. gl = [fl EXCEPT ![f] = r]
  BY DEF Unref
<1>3. /\ r \in FlowType /\ SameFlow(r, fl[f])
      /\ r.ref = fl[f].ref - 1 /\ r.postponed = (fl[f].ref = 1)
  BY <1>1 DEF FlowType, SameFlow
<1> HIDE DEF r, gl
<1> QED
  BY <1>2, <1>3 DEF gl

(* dp_netdev_flow_ref takes one reference.                                 *)
LEMMA RefEffect ==
  ASSUME NEW fl \in [Ids -> FlowType], NEW f \in Ids
  PROVE  LET gl == [fl EXCEPT ![f].ref = @ + 1] IN
         /\ gl \in [Ids -> FlowType]
         /\ \A g \in Ids \ {f} : gl[g] = fl[g]
         /\ SameFlow(gl[f], fl[f])
         /\ gl[f].ref = fl[f].ref + 1 /\ gl[f].postponed = fl[f].postponed
<1> DEFINE gl == [fl EXCEPT ![f].ref = @ + 1]
           r == [fl[f] EXCEPT !.ref = fl[f].ref + 1]
<1>1. fl[f] \in FlowType /\ fl[f].ref + 1 \in Nat
  BY DEF FlowType
<1>2. gl = [fl EXCEPT ![f] = r]
  OBVIOUS
<1>3. /\ r \in FlowType /\ SameFlow(r, fl[f])
      /\ r.ref = fl[f].ref + 1 /\ r.postponed = fl[f].postponed
  BY <1>1 DEF FlowType, SameFlow
<1> HIDE DEF r, gl
<1> QED
  BY <1>2, <1>3 DEF gl

(* The EMC holds a flow at most twice.                                     *)
LEMMA EntriesNat ==
  ASSUME NEW em, NEW f
  PROVE  Entries(em, f) \in 0 .. 2
  BY DEF Entries, One

(* One position of the EMC gets another flow.                              *)
LEMMA EntriesChange ==
  ASSUME NEW em, NEW en, NEW s \in Slot, \A r \in Slot \ {s} : en[r] = em[r], NEW g
  PROVE  Entries(en, g) = Entries(em, g) - One(em[s].flow = g) + One(en[s].flow = g)
<1>1. CASE s = 1
  BY <1>1, IdsNat DEF Entries, One
<1>2. CASE s = 2
  BY <1>2, IdsNat DEF Entries, One
<1> QED
  BY <1>1, <1>2, IdsNat

(* A position is emptied, and its flow loses a reference.                  *)
LEMMA DropEntry ==
  ASSUME NEW fl \in [Ids -> FlowType], NEW em \in [Slot -> EmcEntry], Referred(fl, em),
         NEW s \in Slot, em[s].flow # Null,
         NEW en \in [Slot -> EmcEntry], en[s].flow = Null, \A r \in Slot \ {s} : en[r] = em[r]
  PROVE  LET o == em[s].flow IN
         /\ o \in Ids /\ fl[o].ref > 0
         /\ Referred(Unref(fl, o), en)
<1> DEFINE o == em[s].flow
           gl == Unref(fl, o)
<1>1. o \in Ids /\ fl[o].used /\ em[s].key \in fl[o].match
  BY DEF EmcEntry, Ref, Referred, Matches
<1>2. fl[o] \in FlowType /\ Sound(fl, em, o)
  BY <1>1 DEF Referred
<1>3. Entries(en, o) = Entries(em, o) - 1 /\ Entries(en, o) \in Nat /\ Entries(em, o) \in Nat
  <2>1. Entries(en, o) = Entries(em, o) - One(em[s].flow = o) + One(en[s].flow = o)
    BY EntriesChange
  <2>2. One(em[s].flow = o) = 1 /\ One(en[s].flow = o) = 0
    BY <1>1, IdsNat DEF One
  <2>3. Entries(en, o) \in 0 .. 2 /\ Entries(em, o) \in 0 .. 2
    BY EntriesNat
  <2> QED
    BY <2>1, <2>2, <2>3
<1>4. /\ fl[o].ref = Entries(em, o) + One(~fl[o].dead) + One(fl[o].inSimple)
      /\ fl[o].ref > 0 /\ fl[o].ref \in Nat /\ One(~fl[o].dead) \in Nat
      /\ One(fl[o].inSimple) \in Nat
  <2>1. fl[o].ref = Entries(em, o) + One(~fl[o].dead) + One(fl[o].inSimple)
    BY <1>1, <1>2 DEF Sound
  <2>2. One(~fl[o].dead) \in Nat /\ One(fl[o].inSimple) \in Nat
    BY DEF One
  <2> QED
    BY <1>3, <2>1, <2>2
<1>5. /\ gl \in [Ids -> FlowType]
      /\ \A g \in Ids \ {o} : gl[g] = fl[g]
      /\ SameFlow(gl[o], fl[o])
      /\ gl[o].ref = fl[o].ref - 1 /\ gl[o].postponed = (fl[o].ref = 1)
  BY <1>1, <1>4, UnrefEffect
<1> HIDE DEF gl
<1>6. ASSUME NEW f \in Ids
      PROVE  Sound(gl, en, f)
  <2>1. CASE f = o
    <3>1. gl[o].ref = Entries(en, o) + One(~gl[o].dead) + One(gl[o].inSimple)
      BY <1>3, <1>4, <1>5 DEF SameFlow
    <3>2. gl[o].postponed = (gl[o].ref = 0)
      BY <1>4, <1>5
    <3>3. gl[o].inCls \/ gl[o].inTable \/ gl[o].inSimple => gl[o].used /\ ~gl[o].dead
      BY <1>2, <1>5 DEF SameFlow, Sound
    <3> HIDE DEF o
    <3> QED
      BY <1>1, <1>5, <2>1, <3>1, <3>2, <3>3 DEF Sound, SameFlow
  <2>2. CASE f # o
    <3>1. gl[f] = fl[f] /\ Sound(fl, em, f)
      BY <1>5, <2>2 DEF Referred
    <3>2. Entries(en, f) = Entries(em, f)
      <4>1. Entries(en, f) = Entries(em, f) - One(em[s].flow = f) + One(en[s].flow = f)
        BY EntriesChange
      <4>2. One(em[s].flow = f) = 0 /\ One(en[s].flow = f) = 0
        BY <2>2, IdsNat DEF One
      <4>3. Entries(em, f) \in 0 .. 2
        BY EntriesNat
      <4> QED
        BY <4>1, <4>2, <4>3
    <3> QED
      BY <3>1, <3>2 DEF Sound
  <2> QED
    BY <2>1, <2>2
<1>7. ASSUME NEW r \in Slot
      PROVE  Matches(gl, en[r].key, en[r].flow)
  <2>1. CASE r = s
    BY <2>1 DEF Matches
  <2>2. CASE r # s
    <3>1. en[r] = em[r] /\ Matches(fl, em[r].key, em[r].flow)
      BY <2>2 DEF Referred
    <3>2. em[r].flow \in Ids \cup {Null}
      BY DEF EmcEntry, Ref
    <3> QED
      BY <1>5, <3>1, <3>2 DEF Matches, SameFlow
  <2> QED
    BY <2>1, <2>2
<1> QED
  BY <1>1, <1>4, <1>6, <1>7 DEF Referred, gl

(* An empty position takes a flow that still has a reference.              *)
LEMMA TakeEntry ==
  ASSUME NEW fl \in [Ids -> FlowType], NEW em \in [Slot -> EmcEntry], Referred(fl, em),
         NEW s \in Slot, em[s].flow = Null, NEW f \in Ids, fl[f].used, fl[f].ref > 0,
         NEW k \in fl[f].match,
         NEW en \in [Slot -> EmcEntry], en[s].key = k, en[s].flow = f,
         \A r \in Slot \ {s} : en[r] = em[r]
  PROVE  Referred([fl EXCEPT ![f].ref = @ + 1], en)
<1> DEFINE gl == [fl EXCEPT ![f].ref = @ + 1]
<1>1. /\ gl \in [Ids -> FlowType]
      /\ \A g \in Ids \ {f} : gl[g] = fl[g]
      /\ SameFlow(gl[f], fl[f])
      /\ gl[f].ref = fl[f].ref + 1 /\ gl[f].postponed = fl[f].postponed
  BY RefEffect
<1> HIDE DEF gl
<1>2. fl[f] \in FlowType /\ Sound(fl, em, f)
  BY DEF Referred
<1>3. /\ fl[f].ref = Entries(em, f) + One(~fl[f].dead) + One(fl[f].inSimple)
      /\ fl[f].postponed = FALSE
  <2>1. fl[f].ref \in Nat /\ fl[f].postponed \in BOOLEAN /\ fl[f].ref # 0
    BY <1>2 DEF FlowType
  <2> QED
    BY <1>2, <2>1 DEF Sound
<1>4. Entries(en, f) = Entries(em, f) + 1 /\ Entries(em, f) \in Nat
  <2>1. Entries(en, f) = Entries(em, f) - One(em[s].flow = f) + One(en[s].flow = f)
    BY EntriesChange
  <2>2. One(em[s].flow = f) = 0 /\ One(en[s].flow = f) = 1
    BY IdsNat DEF One
  <2>3. Entries(em, f) \in 0 .. 2
    BY EntriesNat
  <2> QED
    BY <2>1, <2>2, <2>3
<1>5. ASSUME NEW g \in Ids
      PROVE  Sound(gl, en, g)
  <2>1. CASE g = f
    <3>1. One(~fl[f].dead) \in Nat /\ One(fl[f].inSimple) \in Nat
      BY DEF One
    <3>2. gl[f].ref = Entries(en, f) + One(~gl[f].dead) + One(gl[f].inSimple)
      BY <1>1, <1>3, <1>4, <3>1 DEF SameFlow
    <3>3. gl[f].ref # 0 /\ gl[f].postponed = FALSE
      BY <1>1, <1>2, <1>3 DEF FlowType
    <3>4. gl[f].inCls \/ gl[f].inTable \/ gl[f].inSimple => gl[f].used /\ ~gl[f].dead
      BY <1>1, <1>2 DEF SameFlow, Sound
    <3> QED
      BY <1>1, <2>1, <3>2, <3>3, <3>4 DEF Sound, SameFlow
  <2>2. CASE g # f
    <3>1. gl[g] = fl[g] /\ Sound(fl, em, g)
      BY <1>1, <2>2 DEF Referred
    <3>2. Entries(en, g) = Entries(em, g)
      <4>1. Entries(en, g) = Entries(em, g) - One(em[s].flow = g) + One(en[s].flow = g)
        BY EntriesChange
      <4>2. One(em[s].flow = g) = 0 /\ One(en[s].flow = g) = 0
        BY <2>2, IdsNat DEF One
      <4>3. Entries(em, g) \in 0 .. 2
        BY EntriesNat
      <4> QED
        BY <4>1, <4>2, <4>3
    <3> QED
      BY <3>1, <3>2 DEF Sound
  <2> QED
    BY <2>1, <2>2
<1>6. ASSUME NEW r \in Slot
      PROVE  Matches(gl, en[r].key, en[r].flow)
  <2>1. CASE r = s
    BY <1>1, <2>1 DEF Matches, SameFlow
  <2>2. CASE r # s
    <3>1. en[r] = em[r] /\ Matches(fl, em[r].key, em[r].flow)
      BY <2>2 DEF Referred
    <3>2. em[r].flow \in Ids \cup {Null}
      BY DEF EmcEntry, Ref
    <3>3. \A g \in Ids : gl[g].used = fl[g].used /\ gl[g].match = fl[g].match
      BY <1>1 DEF SameFlow
    <3> QED
      BY <3>1, <3>2, <3>3 DEF Matches
  <2> QED
    BY <2>1, <2>2
<1> QED
  BY <1>5, <1>6 DEF Referred, gl

-----------------------------------------------------------------------------
(* What a step does to flows and EMC, and what it keeps of the flows.      *)
Sided ==
  /\ flow' \in [Ids -> FlowType] /\ emc' \in [Slot -> EmcEntry]
  /\ References' /\ Controlled' /\ NoDuplicate'
Kept ==
  \A f \in Ids : flow[f].used =>
    /\ flow'[f].used /\ flow'[f].match = flow[f].match
    /\ flow[f].dead => flow'[f].dead
BatchKept == \A f \in Ids : flow'[f].batch = flow[f].batch
Side == Typed /\ References /\ Controlled /\ NoDuplicate

(* What is known of flows and EMC before a step.                           *)
LEMMA SideTypes ==
  ASSUME Side
  PROVE  /\ flow \in [Ids -> FlowType] /\ emc \in [Slot -> EmcEntry]
         /\ References /\ Controlled /\ NoDuplicate /\ ctl \in [pc : CtlPc, flow : Ref]
  BY DEF Side, Typed

(* No flow changes but in its references.                                  *)
LEMMA SameSide ==
  ASSUME Side, \A f \in Ids : SameFlow(flow'[f], flow[f]), UNCHANGED ctl
  PROVE  Controlled' /\ NoDuplicate' /\ Kept /\ BatchKept
<1>1. Controlled' /\ Kept /\ BatchKept
  BY SideTypes DEF Controlled, SameFlow, Kept, BatchKept
<1>2. NoDuplicate'
  BY SideTypes DEF NoDuplicate, SameFlow
<1> QED
  BY <1>1, <1>2

(* The place emc_insert takes is one.                                      *)
LEMMA VictimsSlots ==
  ASSUME NEW k, NEW s \in Victims(k)
  PROVE  s \in Slot
<1>1. CASE \E t \in Slot : emc[t].key = k
  <2>1. \E t \in Slot : emc[t].key = k /\ \A r \in 1 .. t - 1 : emc[r].key # k
    <3>1. CASE emc[1].key = k
      <4>1. 1 \in Slot /\ \A r \in 1 .. 1 - 1 : emc[r].key # k
        BY IdsNat
      <4> QED
        BY <3>1, <4>1
    <3>2. CASE emc[1].key # k
      <4>1. emc[2].key = k /\ 2 \in Slot
        BY <1>1, <3>2, IdsNat
      <4>2. \A r \in 1 .. 2 - 1 : r = 1
        OBVIOUS
      <4> QED
        BY <3>2, <4>1, <4>2
    <3> QED
      BY <3>1, <3>2
  <2> QED
    BY <1>1, <2>1 DEF Victims
<1>2. CASE ~\E t \in Slot : emc[t].key = k
  BY <1>2 DEF Victims
<1> QED
  BY <1>1, <1>2

(* An insertion in the EMC of a flow that matches the key.                 *)
LEMMA InsertEffect ==
  ASSUME Side, UNCHANGED ctl, NEW k \in Key, NEW f \in Ids, Matches(flow, k, f), EmcInsert(k, f)
  PROVE  Sided /\ Kept /\ BatchKept /\ \A g \in Ids : SameFlow(flow'[g], flow[g])
<1>0. /\ flow \in [Ids -> FlowType] /\ emc \in [Slot -> EmcEntry] /\ Referred(flow, emc)
      /\ flow[f].used /\ k \in flow[f].match /\ Null \notin Ids
  BY SideTypes, IdsNat DEF References, Matches
<1> SUFFICES /\ flow' \in [Ids -> FlowType] /\ emc' \in [Slot -> EmcEntry]
             /\ Referred(flow', emc') /\ \A g \in Ids : SameFlow(flow'[g], flow[g])
  BY SameSide DEF Sided, References
<1>1. CASE UNCHANGED <<flow, emc>>
  BY <1>0, <1>1 DEF SameFlow
<1>2. ASSUME NEW s \in Victims(k), flow' = Changed(s, k, f)[1], emc' = Changed(s, k, f)[2]
      PROVE  /\ flow' \in [Ids -> FlowType] /\ emc' \in [Slot -> EmcEntry]
             /\ Referred(flow', emc') /\ \A g \in Ids : SameFlow(flow'[g], flow[g])
  <2> DEFINE old == emc[s].flow
             fl == IF old \in {Null, f} THEN flow ELSE Unref(flow, old)
             ok == CanRef(fl, f)
             em == [emc EXCEPT ![s] = [key |-> k, flow |-> Null]]
             en == [emc EXCEPT ![s] = [key |-> k, flow |-> f]]
  <2>1. s \in Slot /\ emc[s] \in EmcEntry /\ old \in Ids \cup {Null}
    BY <1>0, VictimsSlots DEF EmcEntry, Ref
  <2>2. CASE old = f
    <3>1. flow' = flow /\ emc' = [emc EXCEPT ![s].key = k]
      BY <1>2, <2>2 DEF Changed
    <3>2. [emc[s] EXCEPT !.key = k] \in EmcEntry /\ [emc[s] EXCEPT !.key = k].flow = f
          /\ [emc[s] EXCEPT !.key = k].key = k
      BY <2>1, <2>2 DEF EmcEntry
    <3>3. /\ emc' \in [Slot -> EmcEntry] /\ emc'[s].flow = emc[s].flow /\ emc'[s].key = k
          /\ \A r \in Slot \ {s} : emc'[r] = emc[r]
      BY <1>0, <2>1, <2>2, <3>1, <3>2
    <3>4. \A g \in Ids : Entries(emc', g) = Entries(emc, g)
      BY <3>3, IdsNat DEF Entries
    <3>5. \A g \in Ids : Sound(flow', emc', g)
      BY <1>0, <3>1, <3>4 DEF Sound, Referred
    <3>6. \A r \in Slot : Matches(flow', emc'[r].key, emc'[r].flow)
      BY <1>0, <2>2, <3>1, <3>3 DEF Referred, Matches
    <3> QED
      BY <1>0, <3>1, <3>3, <3>5, <3>6 DEF Referred, SameFlow
  <2>3. CASE old # f
    <3>1. /\ flow' = IF ok THEN [fl EXCEPT ![f].ref = @ + 1] ELSE fl
          /\ emc' = IF ok THEN en ELSE em
      <4>1. /\ flow' = IF ok THEN [fl EXCEPT ![f].ref = @ + 1] ELSE fl
            /\ emc' = [emc EXCEPT ![s] = [key |-> k, flow |-> IF ok THEN f ELSE Null]]
        BY <1>2, <2>3 DEF Changed
      <4> QED
        BY <4>1
    <3>2. /\ em \in [Slot -> EmcEntry] /\ em[s].flow = Null
          /\ \A r \in Slot \ {s} : em[r] = emc[r]
          /\ en \in [Slot -> EmcEntry] /\ en[s].key = k /\ en[s].flow = f
          /\ \A r \in Slot \ {s} : en[r] = em[r]
      <4>1. [key |-> k, flow |-> Null] \in EmcEntry /\ [key |-> k, flow |-> f] \in EmcEntry
        BY DEF EmcEntry, Ref
      <4> QED
        BY <1>0, <2>1, <4>1
    <3> HIDE DEF em, en
    <3>3. /\ fl \in [Ids -> FlowType] /\ Referred(fl, em)
          /\ \A g \in Ids : SameFlow(fl[g], flow[g])
      <4>1. CASE old = Null
        <5>1. fl = flow
          BY <4>1
        <5>2. \A g \in Ids : Entries(em, g) = Entries(emc, g)
          <6> TAKE g \in Ids
          <6>0. \A ec : (\A r \in Slot \ {s} : em[r] = ec[r]) =>
                  Entries(em, g) = Entries(ec, g) - One(ec[s].flow = g) + One(em[s].flow = g)
            BY <2>1, EntriesChange
          <6>1. Entries(em, g) = Entries(emc, g) - One(emc[s].flow = g) + One(em[s].flow = g)
            BY <6>0, <3>2
          <6>2. One(emc[s].flow = g) = 0 /\ One(em[s].flow = g) = 0
            BY <1>0, <3>2, <4>1 DEF One
          <6>3. Entries(emc, g) \in 0 .. 2
            BY EntriesNat
          <6> QED
            BY <6>1, <6>2, <6>3
        <5>3. \A g \in Ids : Sound(fl, em, g)
          BY <1>0, <5>1, <5>2 DEF Sound, Referred
        <5>4. \A r \in Slot : Matches(fl, em[r].key, em[r].flow)
          BY <1>0, <3>2, <5>1 DEF Referred, Matches
        <5> QED
          BY <1>0, <5>1, <5>3, <5>4 DEF Referred, SameFlow
      <4>2. CASE old # Null
        <5>1. fl = Unref(flow, old)
          BY <2>3, <4>2
        <5>2. old \in Ids /\ flow[old].ref > 0 /\ Referred(Unref(flow, old), em)
          BY <1>0, <2>1, <3>2, <4>2, DropEntry
        <5>3. /\ Unref(flow, old) \in [Ids -> FlowType]
              /\ \A g \in Ids \ {old} : Unref(flow, old)[g] = flow[g]
              /\ SameFlow(Unref(flow, old)[old], flow[old])
          BY <1>0, <5>2, UnrefEffect
        <5> HIDE DEF old
        <5> QED
          BY <5>1, <5>2, <5>3 DEF SameFlow
      <4> QED
        BY <4>1, <4>2
    <3> HIDE DEF fl
    <3>4. CASE ~ok
      BY <3>1, <3>2, <3>3, <3>4
    <3>5. CASE ok
      <4>1. fl[f].ref > 0 /\ fl[f].used /\ k \in fl[f].match
        BY <1>0, <3>3, <3>5 DEF CanRef, SameFlow
      <4>2. Referred([fl EXCEPT ![f].ref = @ + 1], en)
        BY <2>1, <3>2, <3>3, <4>1, TakeEntry
      <4>3. /\ [fl EXCEPT ![f].ref = @ + 1] \in [Ids -> FlowType]
            /\ \A g \in Ids \ {f} : [fl EXCEPT ![f].ref = @ + 1][g] = fl[g]
            /\ SameFlow([fl EXCEPT ![f].ref = @ + 1][f], fl[f])
        BY <3>3, RefEffect
      <4>4. flow' = [fl EXCEPT ![f].ref = @ + 1] /\ emc' = en
        BY <3>1, <3>5
      <4>5. \A g \in Ids : SameFlow(flow'[g], fl[g])
        BY <4>3, <4>4 DEF SameFlow
      <4> QED
        BY <3>2, <3>3, <4>2, <4>3, <4>4, <4>5 DEF SameFlow
    <3> QED
      BY <3>4, <3>5
  <2> QED
    BY <2>2, <2>3
<1> QED
  BY <1>1, <1>2 DEF EmcInsert

(* Nothing happens to flows and EMC.                                       *)
LEMMA Untouched ==
  ASSUME Side, UNCHANGED <<flow, emc, ctl>>
  PROVE  Sided /\ Kept /\ BatchKept
<1>1. Controlled' /\ NoDuplicate' /\ Kept /\ BatchKept
  BY SameSide DEF SameFlow
<1>2. References'
  BY SideTypes DEF References, Referred, Sound, Matches, Entries
<1> QED
  BY <1>1, <1>2, SideTypes DEF Sided

(* A flow changes in its tables and references, which go together.         *)
LEMMA TableStep ==
  ASSUME Side, UNCHANGED emc, NEW c \in Ids, flow[c].used,
         NEW r \in FlowType, flow' = [flow EXCEPT ![c] = r],
         r.used, r.match = flow[c].match, r.batch = flow[c].batch, flow[c].dead => r.dead,
         r.inCls => flow[c].inCls, r.inCls \/ r.inTable \/ r.inSimple => ~r.dead,
         r.ref = flow[c].ref + One(~r.dead) + One(r.inSimple)
                   - One(~flow[c].dead) - One(flow[c].inSimple),
         r.postponed = (r.ref = 0)
  PROVE  /\ flow' \in [Ids -> FlowType] /\ emc' \in [Slot -> EmcEntry]
         /\ References' /\ NoDuplicate' /\ Kept /\ BatchKept
<1>1. /\ flow \in [Ids -> FlowType] /\ emc \in [Slot -> EmcEntry] /\ Referred(flow, emc)
      /\ NoDuplicate
  BY SideTypes DEF References
<1>2. /\ flow' \in [Ids -> FlowType] /\ emc' = emc /\ flow'[c] = r
      /\ \A g \in Ids \ {c} : flow'[g] = flow[g]
  BY <1>1
<1>3. Kept /\ BatchKept
  BY <1>2 DEF Kept, BatchKept
<1>4. NoDuplicate'
  BY <1>1, <1>2 DEF NoDuplicate
<1>5. ASSUME NEW g \in Ids
      PROVE  Sound(flow', emc, g)
  <2>1. CASE g = c
    <3>1. flow[c].ref = Entries(emc, c) + One(~flow[c].dead) + One(flow[c].inSimple)
      BY <1>1 DEF Referred, Sound
    <3>2. /\ Entries(emc, c) \in Nat /\ One(~flow[c].dead) \in Nat /\ One(flow[c].inSimple) \in Nat
          /\ One(~r.dead) \in Nat /\ One(r.inSimple) \in Nat
      BY EntriesNat DEF One
    <3>3. r.ref = Entries(emc, c) + One(~r.dead) + One(r.inSimple)
      BY <3>1, <3>2
    <3> QED
      BY <1>2, <2>1, <3>3 DEF Sound
  <2>2. CASE g # c
    BY <1>1, <1>2, <2>2 DEF Referred, Sound
  <2> QED
    BY <2>1, <2>2
<1>6. ASSUME NEW s \in Slot
      PROVE  Matches(flow', emc[s].key, emc[s].flow)
  <2>1. emc[s].flow \in Ids \cup {Null} /\ Matches(flow, emc[s].key, emc[s].flow)
    BY <1>1 DEF EmcEntry, Ref, Referred
  <2> QED
    BY <1>2, <2>1 DEF Matches
<1>7. Referred(flow', emc')
  BY <1>2, <1>5, <1>6 DEF Referred
<1> QED
  BY <1>1, <1>2, <1>3, <1>4, <1>7 DEF References

(* A flow is added that has a match no flow of the classifier covers.      *)
AddedAs(f, m, n) ==
  /\ flow' \in [Ids -> FlowType] /\ emc' \in [Slot -> EmcEntry]
  /\ References' /\ NoDuplicate' /\ Kept /\ BatchKept
  /\ f \in Ids /\ flow'[f] = n /\ n.match = m /\ n.used /\ n.inCls /\ ~n.dead

(* Nothing in the EMC refers to the memory the flow is put in, so its      *)
(* references are the tables'.                                             *)
LEMMA Added ==
  ASSUME Side, UNCHANGED emc, NEW f \in Free, NEW m \in Mega, NEW k \in m, InCls(k) = {},
         NEW n \in {New(m), Whole(m)}, flow' = [flow EXCEPT ![f] = n]
  PROVE  AddedAs(f, m, n)
<1>1. /\ flow \in [Ids -> FlowType] /\ emc \in [Slot -> EmcEntry] /\ Referred(flow, emc)
      /\ NoDuplicate /\ f \in Ids /\ ~flow[f].used /\ flow[f] = NoFlow /\ Null \notin Ids
  BY SideTypes, IdsNat DEF References, Referred, Free, Sound
<1>2. /\ n \in FlowType /\ n.used /\ n.match = m /\ n.inCls /\ ~n.dead /\ n.batch = Null
      /\ n.ref = 1 + One(n.inSimple) /\ ~n.postponed
  <2>1. CASE n = New(m)
    <3>1. n = [used |-> TRUE, match |-> m, inCls |-> TRUE, inTable |-> FALSE,
               inSimple |-> FALSE, dead |-> FALSE, ref |-> 1, batch |-> Null,
               postponed |-> FALSE]
      BY <2>1 DEF New, NoFlow
    <3>2. 1 = 1 + One(FALSE)
      BY DEF One
    <3> QED
      BY <3>1, <3>2 DEF FlowType, Null
  <2>2. CASE n = Whole(m)
    <3>1. n = [used |-> TRUE, match |-> m, inCls |-> TRUE, inTable |-> TRUE,
               inSimple |-> (m \in Simple), dead |-> FALSE,
               ref |-> IF m \in Simple THEN 2 ELSE 1, batch |-> Null, postponed |-> FALSE]
      BY <2>2 DEF Whole, New, NoFlow
    <3>2. (IF m \in Simple THEN 2 ELSE 1) = 1 + One(m \in Simple)
      BY DEF One
    <3> QED
      BY <3>1, <3>2 DEF FlowType, Null
  <2> QED
    BY <2>1, <2>2
<1>3. /\ flow' \in [Ids -> FlowType] /\ emc' = emc /\ flow'[f] = n
      /\ \A g \in Ids \ {f} : flow'[g] = flow[g]
  BY <1>1, <1>2
<1>4. Kept /\ BatchKept
  BY <1>1, <1>2, <1>3 DEF Kept, BatchKept, NoFlow
<1>5. \A g \in Ids : ~(flow[g].inCls /\ flow[g].match = m)
  BY DEF InCls
<1>6. NoDuplicate'
  BY <1>1, <1>2, <1>3, <1>5 DEF NoDuplicate
<1>7. \A s \in Slot : emc[s].flow # f
  BY <1>1 DEF Referred, Matches
<1>8. ASSUME NEW g \in Ids
      PROVE  Sound(flow', emc, g)
  <2>1. CASE g = f
    <3>1. Entries(emc, f) = 0
      BY <1>7, IdsNat DEF Entries, One
    <3>2. n.ref = Entries(emc, f) + One(~n.dead) + One(n.inSimple) /\ n.ref # 0
      BY <1>2, <3>1 DEF One
    <3>3. n.postponed = (n.ref = 0)
      BY <1>2, <3>2 DEF FlowType
    <3>4. flow'[g] = n /\ Entries(emc, g) = Entries(emc, f)
      BY <1>3, <2>1
    <3>5. n.used /\ ~n.dead
      BY <1>2
    <3> QED
      BY <3>2, <3>3, <3>4, <3>5 DEF Sound
  <2>2. CASE g # f
    <3>1. flow'[g] = flow[g] /\ Sound(flow, emc, g)
      BY <1>1, <1>3, <2>2 DEF Referred
    <3> QED
      BY <3>1 DEF Sound
  <2> QED
    BY <2>1, <2>2
<1>9. ASSUME NEW s \in Slot
      PROVE  Matches(flow', emc[s].key, emc[s].flow)
  <2>1. emc[s].flow \in Ids \cup {Null} /\ Matches(flow, emc[s].key, emc[s].flow)
    BY <1>1 DEF EmcEntry, Ref, Referred
  <2> QED
    BY <1>3, <1>7, <2>1 DEF Matches
<1>10. Referred(flow', emc')
  BY <1>3, <1>8, <1>9 DEF Referred
<1> QED
  BY <1>1, <1>2, <1>3, <1>4, <1>6, <1>10 DEF References, AddedAs

(* Flows that are used change only in their batch.                         *)
LEMMA BatchStep ==
  ASSUME Side, UNCHANGED <<emc, ctl>>, flow' \in [Ids -> FlowType],
         \A f \in Ids :
           \/ flow'[f] = flow[f]
           \/ flow[f].used /\ \E b \in Nat : flow'[f] = [flow[f] EXCEPT !.batch = b]
  PROVE  Sided /\ Kept
<1>1. /\ flow \in [Ids -> FlowType] /\ emc \in [Slot -> EmcEntry] /\ Referred(flow, emc)
      /\ NoDuplicate /\ Controlled
  BY SideTypes DEF References
<1>2. ASSUME NEW f \in Ids
      PROVE  /\ flow'[f].used = flow[f].used /\ flow'[f].match = flow[f].match
             /\ flow'[f].inCls = flow[f].inCls /\ flow'[f].inTable = flow[f].inTable
             /\ flow'[f].inSimple = flow[f].inSimple /\ flow'[f].dead = flow[f].dead
             /\ flow'[f].ref = flow[f].ref /\ flow'[f].postponed = flow[f].postponed
             /\ ~flow[f].used => flow'[f] = flow[f]
  <2>1. flow[f] \in FlowType
    BY <1>1
  <2> QED
    BY <2>1 DEF FlowType
<1>3. Controlled'
  BY <1>1, <1>2 DEF Controlled
<1>4. NoDuplicate' /\ Kept
  BY <1>1, <1>2 DEF NoDuplicate, Kept
<1>5. \A f \in Ids : Sound(flow', emc, f)
  BY <1>1, <1>2 DEF Referred, Sound
<1>6. \A s \in Slot : Matches(flow', emc[s].key, emc[s].flow)
  BY <1>1, <1>2 DEF Referred, Matches, EmcEntry, Ref
<1> QED
  BY <1>1, <1>3, <1>4, <1>5, <1>6 DEF Sided, References, Referred

-----------------------------------------------------------------------------
(* The other thread.                                                       *)
ControlSided ==
  /\ Sided /\ Kept /\ BatchKept /\ ctl' \in [pc : CtlPc, flow : Ref] /\ removed' \in BOOLEAN
  /\ UNCHANGED ctlFrame

(* flow_put_on_pmd up to the classifier: the lookup and the insertion are  *)
(* under flow_mutex, so no other flow has the match.                       *)
LEMMA PutBeginSide ==
  ASSUME Side, removed \in BOOLEAN, NEW m \in Mega, PutBegin(m)
  PROVE  ControlSided
<1>1. PICK f \in Free : flow' = [flow EXCEPT ![f] = New(m)] /\ ctl' = [pc |-> "put", flow |-> f]
  BY DEF PutBegin
<1>2. PICK k \in m : InCls(k) = {}
  <2>1. (CHOOSE k \in m : TRUE) \in m
    <3>1. m # {}
      <4>1. m \in (SUBSET Key) \ {{}}
        BY CacheAssumption
      <4> QED
        BY <4>1
    <3>2. \E k \in m : TRUE
      BY <3>1
    <3> QED
      BY <3>2
  <2> QED
    BY <2>1 DEF PutBegin
<1>3. UNCHANGED <<ctlFrame, removed>>
  BY DEF PutBegin
<1>3a. UNCHANGED emc
  BY <1>3 DEF ctlFrame
<1> DEFINE n == New(m)
<1>4. n \in {New(m), Whole(m)} /\ flow' = [flow EXCEPT ![f] = n]
  BY <1>1
<1> HIDE DEF n
<1>5. AddedAs(f, m, n)
  BY <1>2, <1>3a, <1>4, Added
<1>6. ~n.inSimple
  BY DEF n, New, NoFlow
<1>7. Controlled'
  BY <1>1, <1>5, <1>6 DEF Controlled, AddedAs
<1>8. ctl' \in [pc : CtlPc, flow : Ref]
  BY <1>1, <1>5 DEF CtlPc, Ref, AddedAs
<1> QED
  BY <1>3, <1>5, <1>7, <1>8 DEF ControlSided, Sided, AddedAs

(* The flow the other thread is at, when it is at one.                     *)
LEMMA AtFlow ==
  ASSUME Side, ctl.pc # "idle"
  PROVE  LET c == ctl.flow IN
         /\ c \in Ids /\ flow[c] \in FlowType /\ flow[c].used /\ ~flow[c].dead
         /\ flow[c].ref = Entries(emc, c) + 1 + One(flow[c].inSimple)
         /\ flow[c].ref \in Nat /\ flow[c].ref > 0 /\ flow[c].postponed = FALSE
         /\ Entries(emc, c) \in Nat /\ One(flow[c].inSimple) \in Nat
<1> DEFINE c == ctl.flow
<1>1. c \in Ids /\ flow[c] \in FlowType /\ flow[c].used /\ ~flow[c].dead /\ Sound(flow, emc, c)
  BY SideTypes DEF Controlled, References, Referred
<1>2. One(~flow[c].dead) = 1 /\ One(flow[c].inSimple) \in Nat /\ Entries(emc, c) \in Nat
  BY <1>1, EntriesNat DEF One
<1>3. flow[c].ref = Entries(emc, c) + One(~flow[c].dead) + One(flow[c].inSimple)
  BY <1>1 DEF Sound
<1>4. flow[c].ref = Entries(emc, c) + 1 + One(flow[c].inSimple) /\ flow[c].ref > 0
  BY <1>2, <1>3
<1>5. flow[c].postponed \in BOOLEAN /\ flow[c].ref \in Nat
  BY <1>1 DEF FlowType
<1>6. flow[c].postponed = (flow[c].ref = 0)
  BY <1>1 DEF Sound
<1> HIDE DEF c
<1>7. flow[c].ref # 0
  BY <1>4, <1>5
<1>8. flow[c].postponed = FALSE
  BY <1>6, <1>7
<1> QED
  BY <1>1, <1>2, <1>4, <1>5, <1>8 DEF c

(* The flow enters flow_table; no reference changes.                       *)
LEMMA PutTableSide ==
  ASSUME Side, removed \in BOOLEAN, PutTable
  PROVE  ControlSided
<1> DEFINE c == ctl.flow
           r == [flow[c] EXCEPT !.inTable = TRUE]
<1>1. /\ ctl.pc = "put" /\ UNCHANGED <<ctlFrame, removed>> /\ UNCHANGED emc
      /\ ctl' = [ctl EXCEPT !.pc = IF flow[c].match \in Simple THEN "putSimple" ELSE "idle"]
      /\ flow' = [flow EXCEPT ![c].inTable = TRUE]
  BY DEF PutTable, Ctl, ctlFrame
<1>2. /\ c \in Ids /\ flow[c] \in FlowType /\ flow[c].used /\ ~flow[c].dead
      /\ flow[c].ref \in Nat /\ flow[c].ref > 0 /\ flow[c].postponed = FALSE
      /\ ctl \in [pc : CtlPc, flow : Ref] /\ flow \in [Ids -> FlowType] /\ ~flow[c].inSimple
  BY <1>1, AtFlow, SideTypes DEF Controlled
<1>3. /\ r \in FlowType /\ r.used /\ r.match = flow[c].match /\ r.batch = flow[c].batch
      /\ r.dead = flow[c].dead /\ r.inCls = flow[c].inCls /\ r.inSimple = flow[c].inSimple
      /\ r.ref = flow[c].ref /\ r.postponed = flow[c].postponed
  BY <1>2 DEF FlowType
<1>4. flow' = [flow EXCEPT ![c] = r]
  BY <1>1, <1>2
<1>5. flow'[c] = r
  BY <1>2, <1>4
<1> HIDE DEF r, c
<1>6. /\ r.ref = flow[c].ref + One(~r.dead) + One(r.inSimple)
                   - One(~flow[c].dead) - One(flow[c].inSimple)
      /\ r.postponed = (r.ref = 0)
  <2>1. r.ref = flow[c].ref + One(~r.dead) + One(r.inSimple)
                  - One(~flow[c].dead) - One(flow[c].inSimple)
    BY <1>2, <1>3 DEF One
  <2>2. r.ref # 0 /\ r.postponed = FALSE
    BY <1>2, <1>3
  <2> QED
    BY <2>1, <2>2
<1>7. /\ flow' \in [Ids -> FlowType] /\ emc' \in [Slot -> EmcEntry]
      /\ References' /\ NoDuplicate' /\ Kept /\ BatchKept
  BY <1>1, <1>2, <1>3, <1>4, <1>6, TableStep
<1>8. ctl' \in [pc : CtlPc, flow : Ref] /\ ctl'.flow = c /\ ctl'.pc \in {"putSimple", "idle"}
  BY <1>1, <1>2 DEF CtlPc, c
<1>9. Controlled'
  BY <1>2, <1>3, <1>5, <1>8 DEF Controlled
<1> QED
  BY <1>1, <1>7, <1>8, <1>9 DEF ControlSided, Sided

(* It enters the simple match table, with a reference.                     *)
LEMMA PutSimpleSide ==
  ASSUME Side, removed \in BOOLEAN, PutSimple
  PROVE  ControlSided
<1> DEFINE c == ctl.flow
           n == flow[c].ref + 1
           r == [flow[c] EXCEPT !.inSimple = TRUE, !.ref = n]
<1>1. /\ ctl.pc = "putSimple" /\ UNCHANGED <<ctlFrame, removed>> /\ UNCHANGED emc
      /\ ctl' = [ctl EXCEPT !.pc = "idle"]
      /\ flow' = [flow EXCEPT ![c].inSimple = TRUE, ![c].ref = @ + 1]
  BY DEF PutSimple, Ctl, ctlFrame
<1>2. /\ c \in Ids /\ flow[c] \in FlowType /\ flow[c].used /\ ~flow[c].dead
      /\ flow[c].ref \in Nat /\ flow[c].ref > 0 /\ flow[c].postponed = FALSE
      /\ ctl \in [pc : CtlPc, flow : Ref] /\ flow \in [Ids -> FlowType] /\ ~flow[c].inSimple
  BY <1>1, AtFlow, SideTypes DEF Controlled
<1>3. /\ r \in FlowType /\ r.used /\ r.match = flow[c].match /\ r.batch = flow[c].batch
      /\ r.dead = flow[c].dead /\ r.inCls = flow[c].inCls /\ r.inSimple
      /\ r.ref = flow[c].ref + 1 /\ r.postponed = flow[c].postponed
  <2>1. n \in Nat
    BY <1>2
  <2> HIDE DEF n
  <2>2. /\ r \in FlowType /\ r.used /\ r.match = flow[c].match /\ r.batch = flow[c].batch
        /\ r.dead = flow[c].dead /\ r.inCls = flow[c].inCls /\ r.inSimple
        /\ r.ref = n /\ r.postponed = flow[c].postponed
    BY <1>2, <2>1 DEF FlowType
  <2> QED
    BY <2>2 DEF n
<1>4. flow' = [flow EXCEPT ![c] = r]
  BY <1>1, <1>2
<1> HIDE DEF r, c
<1>6. /\ r.ref = flow[c].ref + One(~r.dead) + One(r.inSimple)
                   - One(~flow[c].dead) - One(flow[c].inSimple)
      /\ r.postponed = (r.ref = 0)
  <2>1. r.ref = flow[c].ref + One(~r.dead) + One(r.inSimple)
                  - One(~flow[c].dead) - One(flow[c].inSimple)
    BY <1>2, <1>3 DEF One
  <2>2. r.ref # 0 /\ r.postponed = FALSE
    BY <1>2, <1>3
  <2> QED
    BY <2>1, <2>2
<1>7. /\ flow' \in [Ids -> FlowType] /\ emc' \in [Slot -> EmcEntry]
      /\ References' /\ NoDuplicate' /\ Kept /\ BatchKept
  BY <1>1, <1>2, <1>3, <1>4, <1>6, TableStep
<1>8. ctl' \in [pc : CtlPc, flow : Ref] /\ ctl'.pc = "idle"
  BY <1>1, <1>2 DEF CtlPc
<1>9. Controlled'
  BY <1>8 DEF Controlled
<1> QED
  BY <1>1, <1>7, <1>8, <1>9 DEF ControlSided, Sided

(* A flow of flow_table leaves the classifier, and the other thread turns  *)
(* to it.                                                                  *)
LEMMA RemoveClsSide ==
  ASSUME Side, NEW c \in Ids, RemoveCls(c)
  PROVE  ControlSided
<1> DEFINE r == [flow[c] EXCEPT !.inCls = FALSE]
<1>1. /\ flow[c].inTable /\ UNCHANGED <<ctlFrame, emc>> /\ removed' = TRUE
      /\ ctl' = [pc |-> IF flow[c].inSimple THEN "simple" ELSE "table", flow |-> c]
      /\ flow' = [flow EXCEPT ![c].inCls = FALSE]
  BY DEF RemoveCls, ctlFrame
<1>2. /\ flow[c] \in FlowType /\ flow[c].used /\ ~flow[c].dead /\ Sound(flow, emc, c)
      /\ flow \in [Ids -> FlowType]
  BY <1>1, SideTypes DEF References, Referred, Sound
<1>3. /\ r \in FlowType /\ r.used /\ r.match = flow[c].match /\ r.batch = flow[c].batch
      /\ r.dead = flow[c].dead /\ ~r.inCls /\ r.inSimple = flow[c].inSimple
      /\ r.ref = flow[c].ref /\ r.postponed = flow[c].postponed
  BY <1>2 DEF FlowType
<1>4. flow' = [flow EXCEPT ![c] = r]
  BY <1>1, <1>2
<1>5. flow'[c] = r
  BY <1>2, <1>4
<1> HIDE DEF r
<1>6. r.ref = flow[c].ref + One(~r.dead) + One(r.inSimple)
                - One(~flow[c].dead) - One(flow[c].inSimple)
  <2>1. flow[c].ref \in Nat
    BY <1>2 DEF FlowType
  <2>2. r.ref = flow[c].ref /\ One(~r.dead) = One(~flow[c].dead)
        /\ One(r.inSimple) = One(flow[c].inSimple)
    BY <1>3
  <2>3. One(~flow[c].dead) \in Nat /\ One(flow[c].inSimple) \in Nat
    BY DEF One
  <2> QED
    BY <2>1, <2>2, <2>3
<1>7. r.postponed = (r.ref = 0)
  BY <1>2, <1>3 DEF Sound
<1>8. /\ flow' \in [Ids -> FlowType] /\ emc' \in [Slot -> EmcEntry]
      /\ References' /\ NoDuplicate' /\ Kept /\ BatchKept
  BY <1>1, <1>2, <1>3, <1>4, <1>6, <1>7, TableStep
<1>9. ctl' \in [pc : CtlPc, flow : Ref]
  BY <1>1 DEF CtlPc, Ref
<1>10. Controlled'
  BY <1>1, <1>2, <1>3, <1>5 DEF Controlled
<1> QED
  BY <1>1, <1>8, <1>9, <1>10 DEF ControlSided, Sided

(* It leaves the simple match table with its reference; the reference of   *)
(* flow_table is left.                                                     *)
LEMMA RemoveSimpleSide ==
  ASSUME Side, RemoveSimple
  PROVE  ControlSided
<1> DEFINE c == ctl.flow
           q == flow[c].ref = 1
           r == [flow[c] EXCEPT !.inSimple = FALSE, !.ref = flow[c].ref - 1, !.postponed = q]
<1>1. /\ ctl.pc = "simple" /\ UNCHANGED <<ctlFrame, emc>> /\ removed' = TRUE
      /\ ctl' = [ctl EXCEPT !.pc = "table"]
      /\ flow' = Unref([flow EXCEPT ![c].inSimple = FALSE], c)
  BY DEF RemoveSimple, Ctl, ctlFrame
<1>2. /\ c \in Ids /\ flow[c] \in FlowType /\ flow[c].used /\ ~flow[c].dead
      /\ flow[c].ref = Entries(emc, c) + 1 + One(flow[c].inSimple) /\ flow[c].ref \in Nat
      /\ Entries(emc, c) \in Nat
      /\ ctl \in [pc : CtlPc, flow : Ref] /\ flow \in [Ids -> FlowType]
      /\ flow[c].inSimple /\ ~flow[c].inCls
  BY <1>1, AtFlow, SideTypes DEF Controlled
<1>3. flow[c].ref - 1 \in Nat \ {0}
  BY <1>2 DEF One
<1>4. /\ r \in FlowType /\ r.used /\ r.match = flow[c].match /\ r.batch = flow[c].batch
      /\ r.dead = flow[c].dead /\ ~r.inCls /\ ~r.inSimple
      /\ r.ref = flow[c].ref - 1 /\ r.postponed = q
  BY <1>2, <1>3 DEF FlowType
<1>5. flow' = [flow EXCEPT ![c] = r]
  <2> DEFINE h == [flow[c] EXCEPT !.inSimple = FALSE]
             fl == [flow EXCEPT ![c] = h]
  <2>1. [flow EXCEPT ![c].inSimple = FALSE] = fl
    OBVIOUS
  <2>2. fl[c] = h /\ h.ref = flow[c].ref /\ fl \in [Ids -> FlowType]
    BY <1>2 DEF FlowType
  <2>3. Unref(fl, c) = [fl EXCEPT ![c] = [h EXCEPT !.ref = h.ref - 1, !.postponed = (h.ref = 1)]]
    <3> HIDE DEF h, fl
    <3>1. PICK e \in Ids : e = c
      BY <1>2
    <3>2. Unref(fl, e) = [fl EXCEPT ![e] = [fl[e] EXCEPT !.ref = fl[e].ref - 1,
                                                         !.postponed = (fl[e].ref = 1)]]
      BY <2>2, UnrefIs
    <3>3. fl[e] = h
      BY <2>2, <3>1
    <3> QED
      BY <3>1, <3>2, <3>3
  <2>4. [h EXCEPT !.ref = h.ref - 1, !.postponed = (h.ref = 1)] = r
    BY <1>2, <2>2 DEF FlowType
  <2>5. flow' = [fl EXCEPT ![c] = r]
    BY <1>1, <2>1, <2>3, <2>4
  <2> HIDE DEF r, h
  <2> QED
    BY <1>2, <2>5
<1>6. flow'[c] = r
  BY <1>2, <1>5
<1> HIDE DEF r, c
<1>7. r.ref = flow[c].ref + One(~r.dead) + One(r.inSimple)
                - One(~flow[c].dead) - One(flow[c].inSimple)
  BY <1>2, <1>4 DEF One
<1>8. r.postponed = (r.ref = 0)
  BY <1>2, <1>4
<1>9. /\ flow' \in [Ids -> FlowType] /\ emc' \in [Slot -> EmcEntry]
      /\ References' /\ NoDuplicate' /\ Kept /\ BatchKept
  BY <1>1, <1>2, <1>4, <1>5, <1>7, <1>8, TableStep
<1>10. ctl' \in [pc : CtlPc, flow : Ref] /\ ctl'.flow = c /\ ctl'.pc = "table"
  BY <1>1, <1>2 DEF CtlPc, c
<1>11. Controlled'
  BY <1>2, <1>4, <1>6, <1>10 DEF Controlled
<1> QED
  BY <1>1, <1>9, <1>10, <1>11 DEF ControlSided, Sided

(* It leaves flow_table, whose reference stays until it is dead.           *)
LEMMA RemoveTableSide ==
  ASSUME Side, RemoveTable
  PROVE  ControlSided
<1> DEFINE c == ctl.flow
           r == [flow[c] EXCEPT !.inTable = FALSE]
<1>1. /\ ctl.pc = "table" /\ UNCHANGED <<ctlFrame, emc>> /\ removed' = TRUE
      /\ ctl' = [ctl EXCEPT !.pc = "dead"]
      /\ flow' = [flow EXCEPT ![c].inTable = FALSE]
  BY DEF RemoveTable, Ctl, ctlFrame
<1>2. /\ c \in Ids /\ flow[c] \in FlowType /\ flow[c].used /\ ~flow[c].dead
      /\ flow[c].ref \in Nat /\ flow[c].ref > 0 /\ flow[c].postponed = FALSE
      /\ ctl \in [pc : CtlPc, flow : Ref] /\ flow \in [Ids -> FlowType]
      /\ ~flow[c].inSimple /\ ~flow[c].inCls
  BY <1>1, AtFlow, SideTypes DEF Controlled
<1>3. /\ r \in FlowType /\ r.used /\ r.match = flow[c].match /\ r.batch = flow[c].batch
      /\ r.dead = flow[c].dead /\ ~r.inCls /\ ~r.inSimple /\ ~r.inTable
      /\ r.ref = flow[c].ref /\ r.postponed = flow[c].postponed
  BY <1>2 DEF FlowType
<1>4. flow' = [flow EXCEPT ![c] = r]
  BY <1>1, <1>2
<1>5. flow'[c] = r
  BY <1>2, <1>4
<1> HIDE DEF r, c
<1>6. /\ r.ref = flow[c].ref + One(~r.dead) + One(r.inSimple)
                   - One(~flow[c].dead) - One(flow[c].inSimple)
      /\ r.postponed = (r.ref = 0)
  <2>1. r.ref = flow[c].ref + One(~r.dead) + One(r.inSimple)
                  - One(~flow[c].dead) - One(flow[c].inSimple)
    BY <1>2, <1>3 DEF One
  <2>2. r.ref # 0 /\ r.postponed = FALSE
    BY <1>2, <1>3
  <2> QED
    BY <2>1, <2>2
<1>7. /\ flow' \in [Ids -> FlowType] /\ emc' \in [Slot -> EmcEntry]
      /\ References' /\ NoDuplicate' /\ Kept /\ BatchKept
  BY <1>1, <1>2, <1>3, <1>4, <1>6, TableStep
<1>8. ctl' \in [pc : CtlPc, flow : Ref] /\ ctl'.flow = c /\ ctl'.pc = "dead"
  BY <1>1, <1>2 DEF CtlPc, c
<1>9. Controlled'
  BY <1>2, <1>3, <1>5, <1>8 DEF Controlled
<1> QED
  BY <1>1, <1>7, <1>8, <1>9 DEF ControlSided, Sided

(* It is dead, and only the EMC may have references left.                  *)
LEMMA SetDeadSide ==
  ASSUME Side, removed \in BOOLEAN, SetDead
  PROVE  ControlSided
<1> DEFINE c == ctl.flow
           q == flow[c].ref = 1
           r == [flow[c] EXCEPT !.dead = TRUE, !.ref = flow[c].ref - 1, !.postponed = q]
<1>1. /\ ctl.pc = "dead" /\ UNCHANGED <<ctlFrame, emc, removed>>
      /\ ctl' = [ctl EXCEPT !.pc = "idle"]
      /\ flow' = Unref([flow EXCEPT ![c].dead = TRUE], c)
  BY DEF SetDead, Ctl, ctlFrame
<1>2. /\ c \in Ids /\ flow[c] \in FlowType /\ flow[c].used /\ ~flow[c].dead
      /\ flow[c].ref \in Nat /\ flow[c].ref > 0
      /\ ctl \in [pc : CtlPc, flow : Ref] /\ flow \in [Ids -> FlowType]
      /\ ~flow[c].inSimple /\ ~flow[c].inCls /\ ~flow[c].inTable
  BY <1>1, AtFlow, SideTypes DEF Controlled
<1>3. flow[c].ref - 1 \in Nat
  BY <1>2
<1>4. /\ r \in FlowType /\ r.used /\ r.match = flow[c].match /\ r.batch = flow[c].batch
      /\ r.dead /\ ~r.inCls /\ ~r.inSimple /\ ~r.inTable
      /\ r.ref = flow[c].ref - 1 /\ r.postponed = q
  BY <1>2, <1>3 DEF FlowType
<1>5. flow' = [flow EXCEPT ![c] = r]
  <2> DEFINE h == [flow[c] EXCEPT !.dead = TRUE]
             fl == [flow EXCEPT ![c] = h]
  <2>1. [flow EXCEPT ![c].dead = TRUE] = fl
    OBVIOUS
  <2>2. fl[c] = h /\ h.ref = flow[c].ref /\ fl \in [Ids -> FlowType]
    BY <1>2 DEF FlowType
  <2>3. Unref(fl, c) = [fl EXCEPT ![c] = [h EXCEPT !.ref = h.ref - 1, !.postponed = (h.ref = 1)]]
    <3> HIDE DEF h, fl
    <3> QED
      BY <1>2, <2>2, UnrefIs
  <2>4. [h EXCEPT !.ref = h.ref - 1, !.postponed = (h.ref = 1)] = r
    BY <1>2, <2>2 DEF FlowType
  <2>5. flow' = [fl EXCEPT ![c] = r]
    BY <1>1, <2>1, <2>3, <2>4
  <2> HIDE DEF r, h
  <2> QED
    BY <1>2, <2>5
<1> HIDE DEF r, c
<1>7. r.ref = flow[c].ref + One(~r.dead) + One(r.inSimple)
                - One(~flow[c].dead) - One(flow[c].inSimple)
  BY <1>2, <1>4 DEF One
<1>8. r.postponed = (r.ref = 0)
  BY <1>2, <1>4
<1>9. /\ flow' \in [Ids -> FlowType] /\ emc' \in [Slot -> EmcEntry]
      /\ References' /\ NoDuplicate' /\ Kept /\ BatchKept
  BY <1>1, <1>2, <1>4, <1>5, <1>7, <1>8, TableStep
<1>10. ctl' \in [pc : CtlPc, flow : Ref] /\ ctl'.pc = "idle"
  BY <1>1, <1>2 DEF CtlPc
<1>11. Controlled'
  BY <1>10 DEF Controlled
<1> QED
  BY <1>1, <1>9, <1>10, <1>11 DEF ControlSided, Sided

-----------------------------------------------------------------------------
(* RCU frees the postponed flows, which nothing holds.                     *)
LEMMA ReclaimedFlows ==
  ASSUME Side
  PROVE  /\ Reclaimed(flow) \in [Ids -> FlowType] /\ Referred(Reclaimed(flow), emc)
         /\ \A f \in Ids : \/ Reclaimed(flow)[f] = flow[f]
                           \/ Reclaimed(flow)[f] = NoFlow /\ flow[f].dead
<1> DEFINE fl == Reclaimed(flow)
<1>1. /\ flow \in [Ids -> FlowType] /\ emc \in [Slot -> EmcEntry] /\ Referred(flow, emc)
  BY SideTypes DEF References
<1>2. fl = [f \in Ids |-> IF flow[f].postponed THEN NoFlow ELSE flow[f]]
  BY DEF Reclaimed
<1> HIDE DEF fl
<1>3. fl \in [Ids -> FlowType]
  BY <1>1, <1>2, NoFlowType
<1>4. ASSUME NEW f \in Ids, flow[f].postponed
      PROVE  fl[f] = NoFlow /\ flow[f].dead /\ Entries(emc, f) = 0
  <2>1. flow[f] \in FlowType /\ Sound(flow, emc, f)
    BY <1>1 DEF Referred
  <2>2. flow[f].used
    BY <1>4, <2>1 DEF Sound, NoFlow
  <2>3. flow[f].ref = 0
    BY <1>4, <2>1, <2>2 DEF Sound
  <2>4. 0 = Entries(emc, f) + One(~flow[f].dead) + One(flow[f].inSimple)
    BY <2>1, <2>2, <2>3 DEF Sound
  <2>5. Entries(emc, f) \in Nat /\ One(~flow[f].dead) \in Nat /\ One(flow[f].inSimple) \in Nat
    BY EntriesNat DEF One
  <2>6. Entries(emc, f) = 0 /\ One(~flow[f].dead) = 0
    BY <2>4, <2>5
  <2> QED
    BY <1>2, <1>4, <2>6 DEF One
<1>5. ASSUME NEW f \in Ids
      PROVE  fl[f] = flow[f] \/ (fl[f] = NoFlow /\ flow[f].dead)
  BY <1>2, <1>4
<1>6. ASSUME NEW f \in Ids
      PROVE  Sound(fl, emc, f)
  <2>1. CASE flow[f].postponed
    <3>1. fl[f] = NoFlow
      BY <1>4, <2>1
    <3> QED
      BY <3>1 DEF Sound, NoFlow
  <2>2. CASE ~flow[f].postponed
    <3>1. fl[f] = flow[f] /\ Sound(flow, emc, f)
      BY <1>1, <1>2, <2>2 DEF Referred
    <3> QED
      BY <3>1 DEF Sound
  <2> QED
    BY <2>1, <2>2
<1>7. ASSUME NEW s \in Slot
      PROVE  Matches(fl, emc[s].key, emc[s].flow)
  <2>1. Matches(flow, emc[s].key, emc[s].flow) /\ emc[s].flow \in Ids \cup {Null}
    BY <1>1 DEF Referred, EmcEntry, Ref
  <2>2. ASSUME emc[s].flow # Null
        PROVE  ~flow[emc[s].flow].postponed
    <3>1. Entries(emc, emc[s].flow) # 0
      BY IdsNat DEF Entries, One
    <3> QED
      BY <1>4, <2>1, <2>2, <3>1
  <2> QED
    BY <1>2, <2>1, <2>2 DEF Matches
<1> QED
  BY <1>3, <1>5, <1>6, <1>7 DEF Referred, fl

(* Then flows that are not dead are as they were.                          *)
LEMMA ReclaimSide ==
  ASSUME Side, UNCHANGED ctl, flow' \in [Ids -> FlowType], emc' \in [Slot -> EmcEntry],
         Referred(flow', emc'),
         \A f \in Ids : SameFlow(flow'[f], flow[f]) \/ (flow'[f] = NoFlow /\ flow[f].dead)
  PROVE  Sided
<1>1. Controlled'
  BY SideTypes DEF Controlled, SameFlow
<1>2. NoDuplicate'
  <2>1. ASSUME NEW f \in Ids, flow'[f].inCls
        PROVE  flow[f].inCls /\ flow'[f].match = flow[f].match
    BY <2>1 DEF SameFlow, NoFlow
  <2> QED
    BY <2>1, SideTypes DEF NoDuplicate
<1> QED
  BY <1>1, <1>2 DEF Sided, References

(* A quiescent state keeps the invariant of flows and EMC.                 *)
LEMMA QuiesceSide ==
  ASSUME Side, Quiesce
  PROVE  Sided
<1>1. flow' = Reclaimed(flow) /\ UNCHANGED <<emc, ctl>>
  BY DEF Quiesce
<1>2. /\ Reclaimed(flow) \in [Ids -> FlowType] /\ Referred(Reclaimed(flow), emc)
      /\ \A f \in Ids : \/ Reclaimed(flow)[f] = flow[f]
                        \/ Reclaimed(flow)[f] = NoFlow /\ flow[f].dead
  BY ReclaimedFlows
<1>3. \A f \in Ids : SameFlow(flow'[f], flow[f]) \/ (flow'[f] = NoFlow /\ flow[f].dead)
  BY <1>1, <1>2 DEF SameFlow
<1> QED
  BY <1>1, <1>2, <1>3, SideTypes, ReclaimSide

(* So does emc_cache_slow_sweep, which gives up the entry of a dead flow.  *)
LEMMA HousekeepSide ==
  ASSUME Side, sweep \in Slot, Housekeep
  PROVE  Sided /\ sweep' \in Slot
<1> DEFINE fl == Reclaimed(flow)
           o == emc[sweep].flow
           em == [emc EXCEPT ![sweep].flow = Null]
<1>1. /\ fl \in [Ids -> FlowType] /\ Referred(fl, emc)
      /\ \A f \in Ids : fl[f] = flow[f] \/ (fl[f] = NoFlow /\ flow[f].dead)
      /\ flow \in [Ids -> FlowType] /\ emc \in [Slot -> EmcEntry]
  BY ReclaimedFlows, SideTypes
<1>2. \/ flow' = fl /\ emc' = emc
      \/ o # Null /\ flow' = Unref(fl, o) /\ emc' = em
  BY DEF Housekeep
<1>3. UNCHANGED ctl /\ sweep' = (sweep % Cardinality(Slot)) + 1
  BY DEF Housekeep
<1>4. /\ em \in [Slot -> EmcEntry] /\ em[sweep].flow = Null
      /\ \A r \in Slot \ {sweep} : em[r] = emc[r]
  <2>1. /\ [emc[sweep] EXCEPT !.flow = Null] \in EmcEntry
        /\ [emc[sweep] EXCEPT !.flow = Null].flow = Null
    BY <1>1 DEF EmcEntry, Ref
  <2> QED
    BY <1>1, <2>1
<1> HIDE DEF fl, em
<1>5. Sided
  <2>1. CASE flow' = fl /\ emc' = emc
    <3>1. \A f \in Ids : SameFlow(flow'[f], flow[f]) \/ (flow'[f] = NoFlow /\ flow[f].dead)
      BY <1>1, <2>1 DEF SameFlow
    <3> QED
      BY <1>1, <1>3, <2>1, <3>1, ReclaimSide
  <2>2. CASE o # Null /\ flow' = Unref(fl, o) /\ emc' = em
    <3>1. o \in Ids /\ fl[o].ref > 0 /\ Referred(Unref(fl, o), em)
      BY <1>1, <1>4, <2>2, DropEntry
    <3> HIDE DEF o
    <3>2. /\ Unref(fl, o) \in [Ids -> FlowType]
          /\ \A g \in Ids \ {o} : Unref(fl, o)[g] = fl[g]
          /\ SameFlow(Unref(fl, o)[o], fl[o])
      BY <1>1, <3>1, UnrefEffect
    <3>3. fl[o] = flow[o]
      BY <1>1, <3>1 DEF NoFlow
    <3>4. \A f \in Ids : SameFlow(flow'[f], flow[f]) \/ (flow'[f] = NoFlow /\ flow[f].dead)
      BY <1>1, <2>2, <3>2, <3>3 DEF SameFlow
    <3> QED
      BY <1>3, <1>4, <2>2, <3>1, <3>2, <3>4, ReclaimSide
  <2> QED
    BY <1>2, <2>1, <2>2
<1>6. sweep' \in Slot
  BY <1>3, SlotCount, IdsNat
<1> QED
  BY <1>5, <1>6

-----------------------------------------------------------------------------
(* What the PMD thread holds stays good when flows that are used stay      *)
(* used.                                                                   *)
LEMMA InvSide ==
  ASSUME Inv
  PROVE  Side
  BY DEF Inv, Side

(* The types and lengths, one by one.                                      *)
LEMMA InvTypes ==
  ASSUME Inv
  PROVE  /\ flow \in [Ids -> FlowType] /\ emc \in [Slot -> EmcEntry] /\ sweep \in Slot
         /\ ctl \in [pc : CtlPc, flow : Ref]
         /\ pc \in PmdPc /\ keys \in Seq(Key) /\ next \in Nat /\ simple \in BOOLEAN
         /\ missed \in Seq(MissEntry) /\ map \in Seq(MapEntry) /\ batches \in Seq(BatchEntry)
         /\ new \in Ref /\ gone \subseteq Ids /\ removed \in BOOLEAN
         /\ Len(missed) \in Nat /\ Len(map) \in Nat /\ Len(keys) \in Nat /\ Len(batches) \in Nat
  BY DEF Inv, Typed

(* The elements of the sequences.                                          *)
LEMMA Elements ==
  ASSUME Inv
  PROVE  /\ \A i \in 1 .. Len(map) : /\ map[i] \in MapEntry
                                   /\ map[i].flow \in Ref /\ map[i].pkt \in Nat
         /\ \A i \in 1 .. Len(missed) :
              /\ missed[i] \in MissEntry
              /\ missed[i].rule \in Ref /\ missed[i].pkt \in Nat /\ missed[i].at \in Nat
         /\ \A i \in 1 .. Len(batches) :
              /\ batches[i] \in BatchEntry
              /\ batches[i].flow \in Ids /\ batches[i].flow \in Ref
              /\ batches[i].pkts \in Seq(Nat)
<1>1. \A i \in 1 .. Len(map) : map[i] \in MapEntry
  BY InvTypes
<1>2. \A i \in 1 .. Len(missed) : missed[i] \in MissEntry
  BY InvTypes
<1>3. \A i \in 1 .. Len(batches) : batches[i] \in BatchEntry
  BY InvTypes
<1> QED
  BY <1>1, <1>2, <1>3 DEF MapEntry, MissEntry, BatchEntry, Ref

(* While flows that are used stay used, with their match, everything the   *)
(* PMD thread has found stays good.                                        *)
LEMMA Carry ==
  ASSUME Inv, Kept, UNCHANGED <<keys, gone>>
  PROVE  /\ Gone'
         /\ \A p : \A f \in Ref : Takes(keys, flow, gone, p, f) => Takes(keys', flow', gone', p, f)
         /\ \A b \in BatchEntry : Fits(keys, flow, gone, b) => Fits(keys', flow', gone', b)
         /\ UNCHANGED map => Mapped'
         /\ UNCHANGED <<map, missed>> => Missing'
         /\ UNCHANGED batches /\ BatchKept => Batching' /\ Known'
<1>1. gone \subseteq Ids /\ Gone /\ \A f \in gone : flow[f].used
  <2>1. gone \subseteq Ids /\ Gone
    BY InvTypes DEF Inv
  <2>2. \A f \in Ids : flow[f].dead => flow[f].used
    BY NoFlowType DEF Inv, References, Referred, Sound, NoFlow
  <2> QED
    BY <2>1, <2>2 DEF Gone
<1>2. Gone'
  BY <1>1 DEF Gone, Kept
<1>3. ASSUME NEW p, NEW f \in Ref, Takes(keys, flow, gone, p, f)
      PROVE  Takes(keys', flow', gone', p, f)
  BY <1>3 DEF Takes, Kept, Ref
<1>4. ASSUME NEW b \in BatchEntry, Fits(keys, flow, gone, b)
      PROVE  Fits(keys', flow', gone', b)
  <2>1. b.flow \in Ids /\ b.flow \in Ref
    BY DEF BatchEntry, Ref
  <2> QED
    BY <1>3, <1>4, <2>1 DEF Fits, Kept
<1>5. ASSUME UNCHANGED map
      PROVE  Mapped'
  <2>1. ASSUME NEW i \in 1 .. Len(map)
        PROVE  map[i].flow \in Ref /\ Takes(keys, flow, gone, map[i].pkt, map[i].flow)
    BY Elements DEF Inv, Mapped
  <2> QED
    BY <1>3, <1>5, <2>1 DEF Mapped
<1>6. ASSUME UNCHANGED <<map, missed>>
      PROVE  Missing'
  <2>1. ASSUME NEW i \in 1 .. Len(missed)
        PROVE  /\ missed[i].rule \in Ref
               /\ Takes(keys, flow, gone, missed[i].pkt, missed[i].rule)
               /\ missed[i].at \in 1 .. Len(map) /\ map[missed[i].at].pkt = missed[i].pkt
    BY Elements DEF Inv, Missing
  <2> QED
    BY <1>3, <1>6, <2>1 DEF Missing
<1>7. ASSUME UNCHANGED batches, BatchKept
      PROVE  Batching' /\ Known'
  <2>1. ASSUME NEW i \in 1 .. Len(batches)
        PROVE  batches[i] \in BatchEntry /\ Fits(keys, flow, gone, batches[i])
    BY Elements DEF Inv, Batching
  <2>2. Batching'
    BY <1>4, <1>7, <2>1 DEF Batching
  <2>3. Known'
    BY <1>7 DEF Inv, Known, BatchKept
  <2> QED
    BY <2>2, <2>3
<1> QED
  BY <1>2, <1>3, <1>4, <1>5, <1>6, <1>7

(* The other thread's steps, and those between two batches.                *)
LEMMA ControlInv ==
  ASSUME Inv, ControlSided
  PROVE  Inv'
<1>1. /\ Sided /\ Kept /\ BatchKept /\ ctl' \in [pc : CtlPc, flow : Ref] /\ removed' \in BOOLEAN
      /\ UNCHANGED <<sweep, pc, next, map, missed, batches, keys, simple, new, gone>>
  BY DEF ControlSided, ctlFrame, stage
<1>2. Gone' /\ Mapped' /\ Missing' /\ Batching' /\ Known'
  BY <1>1, Carry
<1>3. Typed' /\ References' /\ Controlled' /\ NoDuplicate'
  BY <1>1, InvTypes DEF Typed, Sided
<1>4. Staged'
  BY <1>1 DEF Inv, Staged
<1>5. Installing'
  <2>1. CASE pc = "insert"
    <3>1. new \in Ref /\ new # Null /\ Takes(keys, flow, gone, missed[next].pkt, new)
      BY <2>1, InvTypes DEF Inv, Installing
    <3>2. Takes(keys', flow', gone', missed[next].pkt, new)
      BY <1>1, <3>1, Carry
    <3> QED
      BY <1>1, <2>1, <3>1, <3>2 DEF Installing
  <2>2. CASE pc # "insert"
    BY <1>1, <2>2 DEF Inv, Installing
  <2> QED
    BY <2>1, <2>2
<1> QED
  BY <1>2, <1>3, <1>4, <1>5 DEF Inv

(* Between two batches the PMD thread holds no flow but in the EMC.        *)
LEMMA IdleInv ==
  ASSUME Inv, pc = "idle", Sided, sweep' \in Slot,
         UNCHANGED <<ctl, pc, next, missed, map, batches, stage, watch>>,
         \A f \in Ids : flow'[f].batch = flow[f].batch \/ flow'[f] = NoFlow
  PROVE  Inv'
<1>1. UNCHANGED <<ctl, pc, next, missed, map, batches, keys, simple, new, gone, removed>>
  BY DEF stage, watch
<1>2. keys = <<>> /\ map = <<>> /\ missed = <<>> /\ batches = <<>> /\ gone = {} /\ new = Null
  BY DEF Inv, Staged, Installing
<1>3. Typed' /\ References' /\ Controlled' /\ NoDuplicate'
  BY <1>1, InvTypes DEF Typed, Sided
<1>4. Staged' /\ Installing'
  BY <1>1 DEF Inv, Staged, Installing
<1>5. Mapped' /\ Missing' /\ Batching' /\ Gone'
  BY <1>1, <1>2 DEF Mapped, Missing, Batching, Gone
<1>6. Known'
  <2>1. \A f \in Ids : flow[f].batch = Null
    BY <1>2 DEF Inv, Known
  <2>2. \A f \in Ids : flow'[f].batch = Null
    BY <2>1 DEF NoFlow
  <2> QED
    BY <2>2 DEF Known
<1> QED
  BY <1>3, <1>4, <1>5, <1>6 DEF Inv

(* emc_cache_slow_sweep, with the frees RCU had postponed.                 *)
LEMMA HousekeepInv ==
  ASSUME Inv, Housekeep
  PROVE  Inv'
<1> DEFINE fl == Reclaimed(flow)
           o == emc[sweep].flow
<1>1. /\ pc = "idle" /\ UNCHANGED <<ctl, pc, next, missed, map, batches, stage, watch>>
      /\ flow' = fl \/ (o # Null /\ flow' = Unref(fl, o))
  BY DEF Housekeep, At
<1>2. Sided /\ sweep' \in Slot
  BY InvSide, InvTypes, HousekeepSide
<1>3. /\ \A f \in Ids : fl[f] = flow[f] \/ fl[f] = NoFlow
      /\ fl \in [Ids -> FlowType] /\ o \in Ids \cup {Null}
  BY InvSide, InvTypes, ReclaimedFlows DEF EmcEntry, Ref
<1>4. ASSUME NEW f \in Ids
      PROVE  flow'[f].batch = flow[f].batch
  <2>1. flow[f].batch = Null
    <3>1. batches = <<>>
      BY <1>1 DEF Inv, Staged
    <3> QED
      BY <3>1 DEF Inv, Known
  <2>2. fl[f].batch = Null
    BY <1>3, <2>1 DEF NoFlow
  <2> HIDE DEF fl, o
  <2>3. CASE flow' = fl
    BY <2>1, <2>2, <2>3
  <2>4. CASE o # Null /\ flow' = Unref(fl, o)
    <3>1. flow' = [fl EXCEPT ![o] = [fl[o] EXCEPT !.ref = fl[o].ref - 1,
                                                 !.postponed = (fl[o].ref = 1)]]
      BY <1>3, <2>4, UnrefIs
    <3>2. [fl[o] EXCEPT !.ref = fl[o].ref - 1, !.postponed = (fl[o].ref = 1)].batch
            = fl[o].batch
      BY <1>3, <2>4 DEF FlowType
    <3> QED
      BY <1>3, <2>1, <2>2, <3>1, <3>2
  <2> QED
    BY <1>1, <2>3, <2>4
<1> QED
  BY <1>1, <1>2, <1>4, IdleInv

(* A batch of packets is received.                                         *)
LEMMA ReceiveInv ==
  ASSUME Inv, Receive
  PROVE  Inv'
<1>1. /\ pc = "idle" /\ pc' = "dfc" /\ next' = 1 /\ simple' = SimpleOn
      /\ gone' = {f \in Ids : flow[f].dead} /\ removed' \in BOOLEAN
      /\ UNCHANGED <<flow, emc, sweep, ctl, missed, map, batches, new>>
  BY DEF Receive, At, Goto
<1>2. PICK n \in Burst : keys' \in [1 .. n -> Key]
  BY DEF Receive
<1>3. n \in Nat \ {0}
  BY CacheAssumption
<1>4. keys' \in Seq(Key) /\ Len(keys') = n
  BY <1>2, <1>3
<1>5. keys = <<>> /\ map = <<>> /\ missed = <<>> /\ batches = <<>> /\ gone = {} /\ new = Null
  BY <1>1 DEF Inv, Staged, Installing
<1>6. Sided
  BY <1>1, InvSide, Untouched
<1>7. simple' \in BOOLEAN
  BY <1>1 DEF SimpleOn
<1>8. Typed' /\ References' /\ Controlled' /\ NoDuplicate'
  BY <1>1, <1>4, <1>6, <1>7, InvTypes DEF Typed, Sided, PmdPc
<1>9. Staged'
  BY <1>1, <1>3, <1>4, <1>5 DEF Staged
<1>10. Mapped' /\ Missing' /\ Batching' /\ Gone' /\ Installing'
  BY <1>1, <1>5 DEF Mapped, Missing, Batching, Gone, Installing
<1>11. Known'
  BY <1>1 DEF Inv, Known
<1> QED
  BY <1>8, <1>9, <1>10, <1>11 DEF Inv

-----------------------------------------------------------------------------
(* Sequences.                                                              *)
LEMMA EmptySeq ==
  ASSUME NEW S
  PROVE  <<>> \in Seq(S)
  OBVIOUS

(* An element at the end.                                                  *)
LEMMA AppendFacts ==
  ASSUME NEW S, NEW s \in Seq(S), NEW e \in S
  PROVE  LET t == Append(s, e) IN
         /\ t \in Seq(S) /\ Len(t) = Len(s) + 1 /\ t[Len(s) + 1] = e
         /\ Len(s) \in Nat /\ Len(s) + 1 \in 1 .. Len(t) /\ 1 .. Len(s) \subseteq 1 .. Len(t)
         /\ \A i \in 1 .. Len(s) : t[i] = s[i]
         /\ \A i \in 1 .. Len(t) : i \in 1 .. Len(s) \/ i = Len(s) + 1
  OBVIOUS

(* An element replaced.                                                    *)
LEMMA ExceptFacts ==
  ASSUME NEW S, NEW s \in Seq(S), NEW n \in 1 .. Len(s), NEW e \in S
  PROVE  LET t == [s EXCEPT ![n] = e] IN
         /\ t \in Seq(S) /\ Len(t) = Len(s) /\ t[n] = e
         /\ \A i \in 1 .. Len(s) : i # n => t[i] = s[i]
  OBVIOUS

-----------------------------------------------------------------------------
(* A batch still fits with one more packet.                                *)
LEMMA FitsMore ==
  ASSUME NEW ks, NEW fl, NEW gn, NEW b \in BatchEntry, Fits(ks, fl, gn, b),
         NEW p \in Nat, Takes(ks, fl, gn, p, b.flow)
  PROVE  LET e == [b EXCEPT !.pkts = Append(b.pkts, p)] IN
         e \in BatchEntry /\ e.flow = b.flow /\ Fits(ks, fl, gn, e)
<1> DEFINE q == Append(b.pkts, p)
           e == [b EXCEPT !.pkts = q]
<1>1. b.pkts \in Seq(Nat)
  BY DEF BatchEntry
<1>2. /\ q \in Seq(Nat) /\ \A i \in 1 .. Len(b.pkts) : q[i] = b.pkts[i]
      /\ q[Len(b.pkts) + 1] = p
      /\ \A i \in 1 .. Len(q) : i \in 1 .. Len(b.pkts) \/ i = Len(b.pkts) + 1
  BY <1>1, AppendFacts
<1> HIDE DEF q
<1>3. e \in BatchEntry /\ e.flow = b.flow /\ e.pkts = q
  BY <1>2 DEF BatchEntry
<1> HIDE DEF e
<1>4. \A i \in 1 .. Len(q) : Takes(ks, fl, gn, q[i], b.flow)
  BY <1>2 DEF Fits
<1>5. Fits(ks, fl, gn, e)
  BY <1>3, <1>4 DEF Fits
<1> QED
  BY <1>3, <1>5 DEF e, q

(* A packet joins a batch: the flow's, or a new one of the flow.           *)
LEMMA QueueInv ==
  ASSUME Inv, UNCHANGED <<emc, ctl, keys, gone>>, NEW p \in Nat, NEW f \in Ids,
         Takes(keys, flow, gone, p, f),
         LET b == QueueBatch([fl |-> flow, batches |-> batches], p, f)
         IN flow' = b.fl /\ batches' = b.batches
  PROVE  /\ Sided /\ Kept /\ batches' \in Seq(BatchEntry)
         /\ Len(batches') <= Len(batches) + 1 /\ Batching' /\ Known'
<1>1. /\ flow \in [Ids -> FlowType] /\ batches \in Seq(BatchEntry) /\ Len(batches) \in Nat
      /\ Null \notin Ids /\ flow[f] \in FlowType /\ flow[f].used /\ f \in Ref
      /\ flow[f].batch \in Nat
  BY InvTypes, IdsNat DEF Takes, FlowType, Ref
<1>2. CASE flow[f].batch = Null
  <2> DEFINE n == Len(batches) + 1
             g == [flow[f] EXCEPT !.batch = n]
             e == [flow |-> f, pkts |-> <<p>>]
  <2>1. flow' = [flow EXCEPT ![f] = g] /\ batches' = Append(batches, e)
    BY <1>1, <1>2 DEF QueueBatch
  <2>2. n \in Nat /\ g \in FlowType /\ g.batch = n
    <3>1. n \in Nat
      BY <1>1
    <3> HIDE DEF n
    <3> QED
      BY <1>1, <3>1 DEF FlowType
  <2>3. /\ flow' \in [Ids -> FlowType] /\ flow'[f] = g
        /\ \A h \in Ids \ {f} : flow'[h] = flow[h]
    BY <1>1, <2>1, <2>2
  <2>4. Sided /\ Kept
    <3>1. \A h \in Ids : \/ flow'[h] = flow[h]
                         \/ flow[h].used /\ \E b \in Nat : flow'[h] = [flow[h] EXCEPT !.batch = b]
      BY <1>1, <2>2, <2>3
    <3> QED
      BY <2>3, <3>1, InvSide, BatchStep
  <2>5. e \in BatchEntry /\ e.flow = f /\ e.pkts = <<p>>
    BY DEF BatchEntry
  <2>6. Fits(keys', flow', gone', e)
    <3>1. Fits(keys, flow, gone, e)
      BY <1>1 DEF Fits
    <3> HIDE DEF e
    <3> QED
      BY <2>4, <2>5, <3>1, Carry
  <2> HIDE DEF g, e
  <2>7. /\ batches' \in Seq(BatchEntry) /\ Len(batches') = n /\ batches'[n] = e
        /\ 1 .. Len(batches) \subseteq 1 .. Len(batches') /\ n \in 1 .. Len(batches')
        /\ \A i \in 1 .. Len(batches) : batches'[i] = batches[i]
        /\ \A i \in 1 .. Len(batches') : i \in 1 .. Len(batches) \/ i = n
    <3>1. LET t == Append(batches, e) IN
          /\ t \in Seq(BatchEntry) /\ Len(t) = Len(batches) + 1 /\ t[Len(batches) + 1] = e
          /\ Len(batches) \in Nat /\ Len(batches) + 1 \in 1 .. Len(t)
          /\ 1 .. Len(batches) \subseteq 1 .. Len(t)
          /\ \A i \in 1 .. Len(batches) : t[i] = batches[i]
          /\ \A i \in 1 .. Len(t) : i \in 1 .. Len(batches) \/ i = Len(batches) + 1
      BY <1>1, <2>5, AppendFacts
    <3> QED
      BY <2>1, <3>1
  <2>8. Known'
    <3>1. ASSUME NEW h \in Ids, flow'[h].batch # Null
          PROVE  flow'[h].batch \in 1 .. Len(batches') /\ batches'[flow'[h].batch].flow = h
      <4>1. CASE h = f
        <5>1. flow'[h].batch = n
          BY <2>2, <2>3, <4>1
        <5> HIDE DEF n
        <5> QED
          BY <2>5, <2>7, <4>1, <5>1
      <4>2. CASE h # f
        <5>1. flow[h].batch \in 1 .. Len(batches) /\ batches[flow[h].batch].flow = h
          BY <2>3, <3>1, <4>2 DEF Inv, Known
        <5>2. flow'[h] = flow[h]
          BY <2>3, <4>2
        <5> QED
          BY <2>7, <5>1, <5>2
      <4> QED
        BY <4>1, <4>2
    <3> QED
      BY <3>1 DEF Known
  <2>9. Batching'
    <3>1. ASSUME NEW i \in 1 .. Len(batches')
          PROVE  Fits(keys', flow', gone', batches'[i])
      <4>1. CASE i = n
        BY <2>6, <2>7, <4>1
      <4>2. CASE i \in 1 .. Len(batches)
        BY <2>4, <2>7, <4>2, Elements, Carry DEF Inv, Batching
      <4> QED
        BY <2>7, <4>1, <4>2
    <3> QED
      BY <3>1 DEF Batching
  <2> QED
    BY <1>1, <2>4, <2>7, <2>8, <2>9
<1>3. CASE flow[f].batch # Null
  <2> DEFINE n == flow[f].batch
             e == [batches[n] EXCEPT !.pkts = Append(batches[n].pkts, p)]
  <2>1. n \in 1 .. Len(batches) /\ batches[n].flow = f /\ batches[n] \in BatchEntry
        /\ Fits(keys, flow, gone, batches[n])
    BY <1>3, Elements DEF Inv, Known, Batching
  <2>2. UNCHANGED flow /\ batches' = [batches EXCEPT ![n] = e]
    BY <1>3 DEF QueueBatch
  <2>3. e \in BatchEntry /\ e.flow = f /\ Fits(keys, flow, gone, e)
    <3> HIDE DEF n
    <3>1. Takes(keys, flow, gone, p, batches[n].flow)
      BY <2>1
    <3>2. LET x == [batches[n] EXCEPT !.pkts = Append(batches[n].pkts, p)] IN
          x \in BatchEntry /\ x.flow = batches[n].flow /\ Fits(keys, flow, gone, x)
      BY <2>1, <3>1, FitsMore
    <3> QED
      BY <2>1, <3>2
  <2> HIDE DEF e, n
  <2>4. Sided /\ Kept /\ BatchKept
    BY <2>2, InvSide, Untouched
  <2>5. /\ batches' \in Seq(BatchEntry) /\ Len(batches') = Len(batches) /\ batches'[n] = e
        /\ \A i \in 1 .. Len(batches) : i # n => batches'[i] = batches[i]
    BY <1>1, <2>1, <2>2, <2>3, ExceptFacts
  <2>6. \A i \in 1 .. Len(batches) : batches'[i].flow = batches[i].flow
    BY <2>1, <2>3, <2>5
  <2>7. Known'
    BY <2>2, <2>5, <2>6 DEF Inv, Known
  <2>8. Batching'
    <3>1. ASSUME NEW i \in 1 .. Len(batches)
          PROVE  Fits(keys', flow', gone', batches'[i])
      <4>1. CASE i = n
        BY <2>2, <2>3, <2>5, <4>1
      <4>2. CASE i # n
        BY <2>2, <2>5, <4>2 DEF Inv, Batching
      <4> QED
        BY <4>1, <4>2
    <3> QED
      BY <2>5, <3>1 DEF Batching
  <2> QED
    BY <1>1, <2>4, <2>5, <2>7, <2>8
<1> QED
  BY <1>2, <1>3

(* What the tables and the EMC give a packet may take it.                  *)
LEMMA FlowsTake ==
  ASSUME Inv, NEW p \in 1 .. Len(keys), NEW f \in InCls(keys[p]) \cup InSimple(keys[p])
                                               \cup InSmc(keys[p]) \cup InEmc(keys[p])
  PROVE  f \in Ids /\ f \in Ref /\ Takes(keys, flow, gone, p, f) /\ f # Null
<1>1. \A g \in Ids : Sound(flow, emc, g)
  BY DEF Inv, References, Referred
<1>2. f \in Ids /\ keys[p] \in flow[f].match /\ flow[f].used /\ ~flow[f].dead
  <2>1. CASE f \in InEmc(keys[p])
    <3>1. PICK s \in Slot : emc[s].key = keys[p] /\ Alive(s) /\ f = emc[s].flow
      BY <2>1 DEF InEmc
    <3>2. Matches(flow, emc[s].key, emc[s].flow) /\ emc[s].flow \in Ref
      BY InvTypes DEF Inv, References, Referred, EmcEntry
    <3> QED
      BY <3>1, <3>2 DEF Matches, Alive, Ref
  <2>2. CASE f \in InCls(keys[p]) \cup InSimple(keys[p]) \cup InSmc(keys[p])
    BY <1>1, <2>2 DEF InCls, InSimple, InSmc, Sound
  <2> QED
    BY <2>1, <2>2
<1>3. f \notin gone
  BY <1>2 DEF Inv, Gone
<1> QED
  BY <1>2, <1>3, IdsNat DEF Takes, Ref

(* What a step of the PMD thread keeps but for where it is.                *)
Carried ==
  /\ Sided /\ Kept /\ Mapped' /\ Missing' /\ Batching' /\ Known'
  /\ missed' \in Seq(MissEntry) /\ map' \in Seq(MapEntry) /\ batches' \in Seq(BatchEntry)

(* With Carried, it remains to see where the PMD thread is.                *)
LEMMA PmdInv ==
  ASSUME Inv, Carried, UNCHANGED <<keys, simple, sweep, ctl, gone, removed>>,
         pc' \in PmdPc, next' \in Nat, new' \in Ref, Staged', Installing'
  PROVE  Inv'
<1>1. Typed' /\ References' /\ Controlled' /\ NoDuplicate'
  BY InvTypes DEF Typed, Sided, Carried
<1>2. Gone'
  BY Carry DEF Carried
<1> QED
  BY <1>1, <1>2 DEF Inv, Carried

(* A packet of dfc_processing adds at most one to each sequence.           *)
DfcCarried ==
  /\ Carried
  /\ Len(missed') <= Len(map') /\ Len(map') <= Len(map) + 1
  /\ Len(batches') <= Len(batches) + 1
  /\ Len(map') \in Nat /\ Len(missed') \in Nat /\ Len(batches') \in Nat

(* dfc_processing, for one packet.                                         *)
LEMMA DfcInv ==
  ASSUME Inv, Dfc
  PROVE  Inv'
<1> DEFINE to == IF missed' = <<>> THEN "flush" ELSE IF simple THEN "cls" ELSE "smc"
<1>1. /\ pc = "dfc" /\ UNCHANGED <<keys, simple, new, sweep, ctl, gone, removed>>
      /\ (\E f \in DfcFlows : DfcHit(f)) \/ DfcMiss
      /\ \/ next + 1 <= Len(keys) /\ pc' = pc /\ next' = next + 1
         \/ ~(next + 1 <= Len(keys)) /\ pc' = to /\ next' = 1
  BY DEF Dfc, At, stage, pmdFrame, Loop, Goto
<1>2. /\ next \in 1 .. Len(keys) /\ Len(map) + 1 <= next /\ Len(batches) + 1 <= next
      /\ Len(missed) <= Len(map) /\ new = Null
      /\ missed \in Seq(MissEntry) /\ map \in Seq(MapEntry) /\ batches \in Seq(BatchEntry)
      /\ Len(keys) \in Nat /\ Len(map) \in Nat /\ Len(missed) \in Nat /\ Len(batches) \in Nat
      /\ next \in Nat
  BY <1>1, InvTypes DEF Inv, Staged, Installing
<1> HIDE DEF to
<1>3. DfcCarried
  <2>1. ASSUME NEW f \in DfcFlows, DfcHit(f), missed = <<>>
        PROVE  DfcCarried
    <3>1. f \in Ids /\ Takes(keys, flow, gone, next, f)
      BY <1>2, FlowsTake DEF DfcFlows
    <3>2. /\ LET b == QueueBatch([fl |-> flow, batches |-> batches], next, f)
             IN flow' = b.fl /\ batches' = b.batches
          /\ map' = map /\ missed' = missed /\ emc' = emc
      BY <2>1 DEF DfcHit
    <3>3. /\ Sided /\ Kept /\ batches' \in Seq(BatchEntry)
          /\ Len(batches') <= Len(batches) + 1 /\ Batching' /\ Known'
      BY <1>1, <1>2, <3>1, <3>2, QueueInv
    <3>4. Mapped' /\ Missing'
      BY <1>1, <3>2, <3>3, Carry
    <3>5. Len(batches') \in Nat
      BY <3>3
    <3> QED
      BY <1>2, <3>2, <3>3, <3>4, <3>5 DEF DfcCarried, Carried
  <2>2. ASSUME NEW f \in DfcFlows, DfcHit(f), missed # <<>>
        PROVE  DfcCarried
    <3> DEFINE e == [pkt |-> next, flow |-> f]
    <3>1. f \in Ref /\ Takes(keys, flow, gone, next, f)
      BY <1>2, FlowsTake DEF DfcFlows
    <3>2. map' = Append(map, e) /\ UNCHANGED <<flow, emc, missed, batches>>
      BY <2>2 DEF DfcHit
    <3>3. e \in MapEntry /\ e.pkt = next /\ e.flow = f
      BY <1>2, <3>1 DEF MapEntry
    <3> HIDE DEF e
    <3>4. /\ map' \in Seq(MapEntry) /\ Len(map') = Len(map) + 1 /\ map'[Len(map) + 1] = e
          /\ 1 .. Len(map) \subseteq 1 .. Len(map')
          /\ \A i \in 1 .. Len(map) : map'[i] = map[i]
          /\ \A i \in 1 .. Len(map') : i \in 1 .. Len(map) \/ i = Len(map) + 1
      <4>1. LET t == Append(map, e) IN
            /\ t \in Seq(MapEntry) /\ Len(t) = Len(map) + 1 /\ t[Len(map) + 1] = e
            /\ Len(map) \in Nat /\ Len(map) + 1 \in 1 .. Len(t)
            /\ 1 .. Len(map) \subseteq 1 .. Len(t)
            /\ \A i \in 1 .. Len(map) : t[i] = map[i]
            /\ \A i \in 1 .. Len(t) : i \in 1 .. Len(map) \/ i = Len(map) + 1
        BY <1>2, <3>3, AppendFacts
      <4> QED
        BY <3>2, <4>1
    <3>5. Sided /\ Kept /\ BatchKept
      BY <1>1, <3>2, InvSide, Untouched
    <3>6. Batching' /\ Known'
      BY <1>1, <3>2, <3>5, Carry
    <3>7. Mapped'
      BY <1>1, <3>1, <3>2, <3>3, <3>4 DEF Mapped, Inv
    <3>8. Missing'
      BY <1>1, <3>2, <3>4 DEF Missing, Inv
    <3> QED
      BY <1>2, <3>2, <3>4, <3>5, <3>6, <3>7, <3>8 DEF DfcCarried, Carried
  <2>3. ASSUME DfcMiss
        PROVE  DfcCarried
    <3> DEFINE n == Len(map) + 1
               e == [pkt |-> next, flow |-> Null]
               d == [pkt |-> next, at |-> n, rule |-> Null]
    <3>1. Takes(keys, flow, gone, next, Null) /\ n \in Nat
      BY <1>2 DEF Takes
    <3>2. /\ map' = Append(map, e) /\ missed' = Append(missed, d)
          /\ UNCHANGED <<flow, emc, batches>>
      BY <2>3 DEF DfcMiss
    <3>3. /\ e \in MapEntry /\ e.pkt = next /\ e.flow = Null
          /\ d \in MissEntry /\ d.pkt = next /\ d.at = n /\ d.rule = Null
      BY <1>2, <3>1 DEF MapEntry, MissEntry, Ref
    <3> HIDE DEF e, d
    <3>4. /\ map' \in Seq(MapEntry) /\ Len(map') = Len(map) + 1 /\ map'[n] = e
          /\ n \in 1 .. Len(map') /\ 1 .. Len(map) \subseteq 1 .. Len(map')
          /\ \A i \in 1 .. Len(map) : map'[i] = map[i]
          /\ \A i \in 1 .. Len(map') : i \in 1 .. Len(map) \/ i = n
      <4>1. LET t == Append(map, e) IN
            /\ t \in Seq(MapEntry) /\ Len(t) = Len(map) + 1 /\ t[Len(map) + 1] = e
            /\ Len(map) \in Nat /\ Len(map) + 1 \in 1 .. Len(t)
            /\ 1 .. Len(map) \subseteq 1 .. Len(t)
            /\ \A i \in 1 .. Len(map) : t[i] = map[i]
            /\ \A i \in 1 .. Len(t) : i \in 1 .. Len(map) \/ i = Len(map) + 1
        BY <1>2, <3>3, AppendFacts
      <4> QED
        BY <3>2, <4>1
    <3>5. /\ missed' \in Seq(MissEntry) /\ Len(missed') = Len(missed) + 1
          /\ missed'[Len(missed) + 1] = d
          /\ \A i \in 1 .. Len(missed) : missed'[i] = missed[i]
          /\ \A i \in 1 .. Len(missed') : i \in 1 .. Len(missed) \/ i = Len(missed) + 1
      <4>1. LET t == Append(missed, d) IN
            /\ t \in Seq(MissEntry) /\ Len(t) = Len(missed) + 1 /\ t[Len(missed) + 1] = d
            /\ Len(missed) \in Nat /\ Len(missed) + 1 \in 1 .. Len(t)
            /\ 1 .. Len(missed) \subseteq 1 .. Len(t)
            /\ \A i \in 1 .. Len(missed) : t[i] = missed[i]
            /\ \A i \in 1 .. Len(t) : i \in 1 .. Len(missed) \/ i = Len(missed) + 1
        BY <1>2, <3>3, AppendFacts
      <4> QED
        BY <3>2, <4>1
    <3>6. Sided /\ Kept /\ BatchKept
      BY <1>1, <3>2, InvSide, Untouched
    <3>7. Batching' /\ Known'
      BY <1>1, <3>2, <3>6, Carry
    <3>8. Mapped'
      BY <1>1, <3>1, <3>2, <3>3, <3>4 DEF Mapped, Inv
    <3>9. Missing'
      <4>1. ASSUME NEW i \in 1 .. Len(missed')
            PROVE  /\ Takes(keys', flow', gone', missed'[i].pkt, missed'[i].rule)
                   /\ missed'[i].at \in 1 .. Len(map') /\ map'[missed'[i].at].pkt = missed'[i].pkt
        <5>1. CASE i \in 1 .. Len(missed)
          BY <1>1, <3>2, <3>4, <3>5, <5>1 DEF Missing, Inv
        <5>2. CASE i = Len(missed) + 1
          BY <1>1, <3>1, <3>2, <3>3, <3>4, <3>5, <5>2
        <5> QED
          BY <3>5, <5>1, <5>2
      <4> QED
        BY <4>1 DEF Missing
    <3>10. /\ Len(missed') <= Len(map') /\ Len(map') <= Len(map) + 1
           /\ Len(map') \in Nat /\ Len(missed') \in Nat
      BY <1>2, <3>4, <3>5
    <3> QED
      BY <1>2, <3>2, <3>4, <3>5, <3>6, <3>7, <3>8, <3>9, <3>10 DEF DfcCarried, Carried
  <2> QED
    BY <1>1, <2>1, <2>2, <2>3
<1>4. pc' \in PmdPc /\ next' \in Nat /\ pc' # "insert" /\ pc' # "idle"
  BY <1>1, <1>2 DEF PmdPc, to
<1>5. Installing'
  BY <1>1, <1>2, <1>4 DEF Installing
<1>6. Staged'
  <2>1. CASE next + 1 <= Len(keys) /\ pc' = pc /\ next' = next + 1
    BY <1>1, <1>2, <1>3, <2>1 DEF Staged, DfcCarried
  <2>2. CASE pc' = to /\ next' = 1
    <3>1. \/ pc' = "flush" /\ missed' = <<>>
          \/ pc' \in {"cls", "smc"} /\ missed' # <<>>
      BY <2>2 DEF to
    <3>2. missed' # <<>> => 1 \in 1 .. Len(missed')
      BY <1>3 DEF DfcCarried
    <3> QED
      BY <1>1, <1>2, <1>3, <2>2, <3>1, <3>2 DEF Staged, DfcCarried
  <2> QED
    BY <1>1, <2>1, <2>2
<1>7. new' \in Ref
  BY <1>1, InvTypes
<1> QED
  BY <1>1, <1>3, <1>4, <1>5, <1>6, <1>7, PmdInv DEF DfcCarried

(* A missed packet: which it is, and where it is in flow_map.              *)
LEMMA MissedPacket ==
  ASSUME Inv, NEW i \in 1 .. Len(missed)
  PROVE  /\ missed[i] \in MissEntry /\ missed[i].pkt \in 1 .. Len(keys)
         /\ keys[missed[i].pkt] \in Key /\ missed[i].rule \in Ref
         /\ missed[i].at \in 1 .. Len(map) /\ map[missed[i].at].pkt = missed[i].pkt
         /\ Takes(keys, flow, gone, missed[i].pkt, missed[i].rule)
<1>1. /\ Takes(keys, flow, gone, missed[i].pkt, missed[i].rule)
      /\ missed[i].at \in 1 .. Len(map) /\ map[missed[i].at].pkt = missed[i].pkt
  BY DEF Inv, Missing
<1>2. missed[i].pkt \in 1 .. Len(keys) /\ keys \in Seq(Key)
  BY <1>1, InvTypes DEF Takes
<1>3. keys[missed[i].pkt] \in Key
  BY <1>2
<1> QED
  BY <1>1, <1>2, <1>3, Elements

(* The flow found for it goes to flow_map.                                 *)
LEMMA HitMapped ==
  ASSUME Inv, Kept, UNCHANGED <<keys, gone>>, NEW i \in 1 .. Len(missed), NEW f \in Ref,
         Takes(keys, flow, gone, missed[i].pkt, f), Hit(missed[i], f)
  PROVE  /\ map' \in Seq(MapEntry) /\ Len(map') = Len(map) /\ Mapped'
         /\ \A j \in 1 .. Len(map) : map'[j].pkt = map[j].pkt
<1> DEFINE a == missed[i].at
           e == [map[a] EXCEPT !.flow = f]
<1>1. /\ map \in Seq(MapEntry) /\ a \in 1 .. Len(map) /\ map[a] \in MapEntry
      /\ map[a].pkt = missed[i].pkt
  BY InvTypes, Elements, MissedPacket
<1>2. map' = [map EXCEPT ![a] = e]
  BY DEF Hit
<1>3. e \in MapEntry /\ e.pkt = map[a].pkt /\ e.flow = f
  BY <1>1 DEF MapEntry
<1> HIDE DEF e, a
<1>4. /\ map' \in Seq(MapEntry) /\ Len(map') = Len(map) /\ map'[a] = e
      /\ \A j \in 1 .. Len(map) : j # a => map'[j] = map[j]
  BY <1>1, <1>2, <1>3, ExceptFacts
<1>5. \A j \in 1 .. Len(map) : map'[j].pkt = map[j].pkt
  BY <1>1, <1>3, <1>4
<1>6. ASSUME NEW j \in 1 .. Len(map)
      PROVE  Takes(keys', flow', gone', map'[j].pkt, map'[j].flow)
  <2>1. CASE j = a
    BY <1>1, <1>3, <1>4, <2>1, Carry
  <2>2. CASE j # a
    <3>1. map'[j] = map[j] /\ map[j].flow \in Ref
          /\ Takes(keys, flow, gone, map[j].pkt, map[j].flow)
      BY <1>4, <2>2, Elements DEF Inv, Mapped
    <3> QED
      BY <3>1, Carry
  <2> QED
    BY <2>1, <2>2
<1> QED
  BY <1>4, <1>5, <1>6 DEF Mapped

(* Packets leave the missed ones, and flow_map keeps its packets.          *)
LEMMA FewerMissed ==
  ASSUME Inv, Kept, UNCHANGED <<keys, gone>>, Len(map') = Len(map),
         \A j \in 1 .. Len(map) : map'[j].pkt = map[j].pkt,
         \A j \in 1 .. Len(missed') : \E i \in 1 .. Len(missed) : missed'[j] = missed[i]
  PROVE  Missing'
<1>1. ASSUME NEW j \in 1 .. Len(missed')
      PROVE  /\ Takes(keys', flow', gone', missed'[j].pkt, missed'[j].rule)
             /\ missed'[j].at \in 1 .. Len(map') /\ map'[missed'[j].at].pkt = missed'[j].pkt
  <2>1. PICK i \in 1 .. Len(missed) : missed'[j] = missed[i]
    OBVIOUS
  <2>2. /\ missed[i].at \in 1 .. Len(map) /\ map[missed[i].at].pkt = missed[i].pkt
        /\ Takes(keys, flow, gone, missed[i].pkt, missed[i].rule) /\ missed[i].rule \in Ref
    BY MissedPacket
  <2>3. Takes(keys', flow', gone', missed[i].pkt, missed[i].rule)
    BY <2>2, Carry
  <2> QED
    BY <2>1, <2>2, <2>3
<1> QED
  BY <1>1 DEF Missing

(* An element removed.                                                     *)
LEMMA RemoveAtFacts ==
  ASSUME NEW S, NEW s \in Seq(S), NEW n \in 1 .. Len(s)
  PROVE  /\ RemoveAt(s, n) \in Seq(S) /\ Len(RemoveAt(s, n)) = Len(s) - 1
         /\ \A j \in 1 .. Len(RemoveAt(s, n)) :
              \E i \in 1 .. Len(s) : RemoveAt(s, n)[j] = s[i]
<1> DEFINE a == SubSeq(s, 1, n - 1)
           b == SubSeq(s, n + 1, Len(s))
<1>1. /\ Len(s) \in Nat /\ n \in Nat /\ n >= 1 /\ n <= Len(s) /\ n - 1 \in Nat
      /\ Len(s) - n \in Nat
  OBVIOUS
<1>2. a \in Seq(S) /\ Len(a) = n - 1 /\ \A j \in 1 .. n - 1 : a[j] = s[j]
  BY <1>1
<1>3. b \in Seq(S) /\ Len(b) = Len(s) - n /\ \A j \in 1 .. Len(s) - n : b[j] = s[j + n]
  BY <1>1
<1>4. RemoveAt(s, n) = a \o b
  BY DEF RemoveAt
<1> HIDE DEF a, b
<1>5. a \o b \in Seq(S) /\ Len(a \o b) = Len(a) + Len(b)
  <2>1. a \in Seq(S) /\ b \in Seq(S)
    BY <1>2, <1>3
  <2> QED
    BY <2>1
<1>6. Len(a \o b) = Len(s) - 1
  BY <1>1, <1>2, <1>3, <1>5
<1>7. ASSUME NEW j \in 1 .. Len(a \o b)
      PROVE  \E i \in 1 .. Len(s) : (a \o b)[j] = s[i]
  <2>1. CASE j <= n - 1
    <3>1. (a \o b)[j] = a[j] /\ j \in 1 .. n - 1
      BY <1>1, <1>2, <1>3, <1>5, <2>1
    <3>2. (a \o b)[j] = s[j] /\ j \in 1 .. Len(s)
      BY <1>1, <1>2, <3>1
    <3> QED
      BY <3>2
  <2>2. CASE ~(j <= n - 1)
    <3>1. (a \o b)[j] = b[j - (n - 1)] /\ j - (n - 1) \in 1 .. Len(s) - n
      BY <1>1, <1>2, <1>3, <1>5, <2>2
    <3>2. (a \o b)[j] = s[j - (n - 1) + n] /\ j - (n - 1) + n \in 1 .. Len(s)
      BY <1>1, <1>3, <3>1
    <3> QED
      BY <3>2
  <2> QED
    BY <2>1, <2>2
<1> QED
  BY <1>4, <1>5, <1>6, <1>7

(* smc_lookup_batch, for one packet.                                       *)
LEMMA SmcInv ==
  ASSUME Inv, Smc
  PROVE  Inv'
<1>1. /\ pc = "smc" /\ UNCHANGED <<batches, keys, simple, new, sweep, ctl, gone, removed>>
  BY DEF Smc, At, stage, pmdFrame
<1>2. /\ next \in 1 .. Len(missed) /\ new = Null /\ new \in Ref
      /\ missed \in Seq(MissEntry) /\ map \in Seq(MapEntry) /\ batches \in Seq(BatchEntry)
      /\ Len(missed) \in Nat /\ Len(map) \in Nat /\ Len(keys) \in Nat /\ Len(batches) \in Nat
      /\ Len(missed) <= Len(map) /\ Len(map) <= Len(keys) /\ Len(batches) <= Len(keys)
      /\ next \in Nat
  BY <1>1, InvTypes DEF Inv, Staged, Installing
<1>3. CASE /\ \E f \in InSmc(keys[Missed.pkt]) : EmcInsert(keys[Missed.pkt], f) /\ Hit(Missed, f)
           /\ missed' = RemoveAt(missed, next)
           /\ Loop(next, Len(missed'), IF missed' = <<>> THEN "flush" ELSE "cls")
  <2>1. PICK f \in InSmc(keys[Missed.pkt]) : EmcInsert(keys[Missed.pkt], f) /\ Hit(Missed, f)
    BY <1>3
  <2>2. /\ missed[next].pkt \in 1 .. Len(keys) /\ keys[missed[next].pkt] \in Key
    BY <1>2, MissedPacket
  <2>3. f \in Ids /\ f \in Ref /\ f # Null /\ Takes(keys, flow, gone, missed[next].pkt, f)
    BY <2>1, <2>2, FlowsTake DEF Missed
  <2>4. Matches(flow, keys[missed[next].pkt], f)
    BY <2>3 DEF Takes, Matches
  <2>5. Sided /\ Kept /\ BatchKept
    BY <1>1, <2>1, <2>2, <2>3, <2>4, InvSide, InsertEffect DEF Missed
  <2>6. /\ map' \in Seq(MapEntry) /\ Len(map') = Len(map) /\ Mapped'
        /\ \A j \in 1 .. Len(map) : map'[j].pkt = map[j].pkt
    BY <1>1, <1>2, <2>1, <2>3, <2>5, HitMapped DEF Missed
  <2>7. /\ missed' \in Seq(MissEntry) /\ Len(missed') = Len(missed) - 1
        /\ \A j \in 1 .. Len(missed') : \E i \in 1 .. Len(missed) : missed'[j] = missed[i]
    <3>1. /\ RemoveAt(missed, next) \in Seq(MissEntry)
          /\ Len(RemoveAt(missed, next)) = Len(missed) - 1
          /\ \A j \in 1 .. Len(RemoveAt(missed, next)) :
               \E i \in 1 .. Len(missed) : RemoveAt(missed, next)[j] = missed[i]
      <4>1. missed \in Seq(MissEntry) /\ next \in 1 .. Len(missed)
        BY <1>2
      <4> QED
        BY <4>1, RemoveAtFacts
    <3>2. missed' = RemoveAt(missed, next)
      BY <1>3
    <3> QED
      BY <3>1, <3>2
  <2>8. Missing'
    BY <1>1, <2>5, <2>6, <2>7, FewerMissed
  <2>9. Carried
    BY <1>1, <1>2, <2>5, <2>6, <2>7, <2>8, Carry DEF Carried
  <2>10. \/ next <= Len(missed') /\ pc' = "smc" /\ next' = next
         \/ missed' = <<>> /\ pc' = "flush" /\ next' = 1
         \/ missed' # <<>> /\ pc' = "cls" /\ next' = 1
    BY <1>1, <1>3 DEF Loop, Goto
  <2>11. missed' # <<>> => 1 \in 1 .. Len(missed')
    BY <2>7
  <2>12. /\ pc' \in {"smc", "cls"} => next' \in 1 .. Len(missed')
         /\ pc' = "flush" => missed' = <<>>
         /\ pc' \in {"smc", "cls", "flush"} /\ next' \in Nat
         /\ Len(missed') <= Len(map')
    BY <1>2, <2>6, <2>7, <2>10, <2>11
  <2>13. Staged'
    BY <1>1, <1>2, <2>6, <2>12 DEF Staged
  <2>14. Installing' /\ pc' \in PmdPc /\ next' \in Nat /\ new' \in Ref
    BY <1>1, <1>2, <2>12 DEF Installing, PmdPc
  <2> QED
    BY <1>1, <2>9, <2>13, <2>14, PmdInv
<1>4. CASE UNCHANGED <<Shared, map, missed>> /\ Loop(next + 1, Len(missed), "cls")
  <2>1. UNCHANGED <<flow, emc, map, missed>>
    BY <1>4 DEF Shared
  <2>2. Sided /\ Kept /\ BatchKept
    BY <1>1, <2>1, InvSide, Untouched
  <2>3. Carried
    BY <1>1, <1>2, <2>1, <2>2, Carry DEF Carried
  <2>4. \/ next + 1 <= Len(missed) /\ pc' = "smc" /\ next' = next + 1
        \/ pc' = "cls" /\ next' = 1
    BY <1>1, <1>4 DEF Loop, Goto
  <2>5. next' \in 1 .. Len(missed) /\ pc' \in {"smc", "cls"}
    BY <1>2, <2>4
  <2>6. Staged'
    BY <1>1, <1>2, <2>1, <2>5 DEF Staged
  <2>7. Installing' /\ pc' \in PmdPc /\ next' \in Nat /\ new' \in Ref
    BY <1>1, <1>2, <2>5 DEF Installing, PmdPc
  <2> QED
    BY <1>1, <2>3, <2>6, <2>7, PmdInv
<1> QED
  BY <1>3, <1>4 DEF Smc

(* A missed packet gets a rule.                                            *)
LEMMA RuleCarried ==
  ASSUME Inv, UNCHANGED <<flow, emc, ctl, map, batches, keys, gone>>, NEW i \in 1 .. Len(missed),
         NEW f \in Ref, Takes(keys, flow, gone, missed[i].pkt, f),
         missed' = [missed EXCEPT ![i].rule = f]
  PROVE  Carried /\ Len(missed') = Len(missed)
<1> DEFINE e == [missed[i] EXCEPT !.rule = f]
<1>1. Sided /\ Kept /\ BatchKept
  BY InvSide, Untouched
<1>2. /\ missed \in Seq(MissEntry) /\ missed[i] \in MissEntry
      /\ missed[i].at \in 1 .. Len(map) /\ map[missed[i].at].pkt = missed[i].pkt
  BY InvTypes, MissedPacket
<1>3. /\ e \in MissEntry /\ e.pkt = missed[i].pkt /\ e.at = missed[i].at /\ e.rule = f
      /\ missed' = [missed EXCEPT ![i] = e]
  BY <1>2 DEF MissEntry
<1> HIDE DEF e
<1>4. /\ missed' \in Seq(MissEntry) /\ Len(missed') = Len(missed) /\ missed'[i] = e
      /\ \A j \in 1 .. Len(missed) : j # i => missed'[j] = missed[j]
  BY <1>2, <1>3, ExceptFacts
<1>5. ASSUME NEW j \in 1 .. Len(missed)
      PROVE  /\ Takes(keys, flow, gone, missed'[j].pkt, missed'[j].rule)
             /\ missed'[j].at \in 1 .. Len(map) /\ map[missed'[j].at].pkt = missed'[j].pkt
  <2>1. CASE j = i
    BY <1>2, <1>3, <1>4, <2>1
  <2>2. CASE j # i
    BY <1>4, <2>2, MissedPacket
  <2> QED
    BY <2>1, <2>2
<1>6. Missing'
  BY <1>4, <1>5 DEF Missing
<1>7. Mapped' /\ Batching' /\ Known' /\ map' \in Seq(MapEntry) /\ batches' \in Seq(BatchEntry)
  BY <1>1, Carry, InvTypes
<1> QED
  BY <1>1, <1>4, <1>6, <1>7 DEF Carried

(* A step that only moves the PMD thread on.                               *)
LEMMA MoveCarried ==
  ASSUME Inv, UNCHANGED <<flow, emc, ctl, missed, map, batches, keys, gone>>
  PROVE  Carried
<1>1. Sided /\ Kept /\ BatchKept
  BY InvSide, Untouched
<1> QED
  BY <1>1, Carry, InvTypes DEF Carried

(* dpcls_lookup, for one packet.                                           *)
LEMMA ClsInv ==
  ASSUME Inv, Cls
  PROVE  Inv'
<1>1. /\ pc = "cls"
      /\ UNCHANGED <<flow, emc, map, batches, keys, simple, new, sweep, ctl, gone, removed>>
  BY DEF Cls, At, Shared, stage, pmdFrame
<1>2. /\ next \in 1 .. Len(missed) /\ new = Null /\ new \in Ref /\ missed \in Seq(MissEntry)
      /\ Len(missed) \in Nat /\ Len(map) \in Nat /\ Len(keys) \in Nat /\ Len(batches) \in Nat
      /\ Len(missed) <= Len(map) /\ Len(map) <= Len(keys) /\ Len(batches) <= Len(keys)
      /\ next \in Nat
  BY <1>1, InvTypes DEF Inv, Staged, Installing
<1>3. PICK f \in Rules(keys[Missed.pkt]) : missed' = [missed EXCEPT ![next].rule = f]
  BY DEF Cls
<1>4. f \in Ref /\ Takes(keys, flow, gone, missed[next].pkt, f)
  <2>1. missed[next].pkt \in 1 .. Len(keys)
    BY <1>2, MissedPacket
  <2>2. f = Null \/ f \in InCls(keys[missed[next].pkt])
    BY DEF Rules, Missed
  <2>3. CASE f = Null
    BY <2>1, <2>3 DEF Takes, Ref
  <2>4. CASE f \in InCls(keys[missed[next].pkt])
    BY <2>1, <2>4, FlowsTake
  <2> QED
    BY <2>2, <2>3, <2>4
<1>5. Carried /\ Len(missed') = Len(missed)
  BY <1>1, <1>2, <1>3, <1>4, RuleCarried
<1>6. \/ next + 1 <= Len(missed) /\ pc' = "cls" /\ next' = next + 1
      \/ pc' \in {"cache", "lock"} /\ next' = 1
  BY <1>1 DEF Cls, Loop, Goto
<1>7. /\ next' \in 1 .. Len(missed) /\ pc' \in {"cls", "cache", "lock"}
      /\ pc' \in {"cache", "lock"} => next' = 1
  BY <1>2, <1>6
<1>8. missed' # <<>>
  BY <1>2, <1>5
<1>9. Staged'
  BY <1>1, <1>2, <1>5, <1>7, <1>8 DEF Staged
<1>10. Installing' /\ pc' \in PmdPc /\ next' \in Nat /\ new' \in Ref
  BY <1>1, <1>2, <1>7 DEF Installing, PmdPc
<1> QED
  BY <1>1, <1>5, <1>9, <1>10, PmdInv

(* The attempt to take upcall_rwlock, and what follows without it.         *)
LEMMA TryLockInv ==
  ASSUME Inv, TryLock
  PROVE  Inv'
<1>1. /\ pc = "lock" /\ pc' \in {"upcall", "cache"} /\ next' = 1
      /\ UNCHANGED <<flow, emc, missed, map, batches, keys, simple, new, sweep, ctl, gone,
                     removed>>
  BY DEF TryLock, At, Goto, Shared, stage, pmdFrame
<1>2. missed # <<>> /\ missed \in Seq(MissEntry) /\ new = Null /\ new \in Ref
  BY <1>1, InvTypes DEF Inv, Staged, Installing
<1>3. 1 \in 1 .. Len(missed)
  BY <1>2
<1>4. Carried
  BY <1>1, MoveCarried
<1>5. Staged'
  BY <1>1, <1>2, <1>3 DEF Staged, Inv
<1>6. Installing' /\ pc' \in PmdPc /\ next' \in Nat /\ new' \in Ref
  BY <1>1, <1>2 DEF Installing, PmdPc
<1> QED
  BY <1>1, <1>4, <1>5, <1>6, PmdInv

(* The second lookup and handle_packet_upcall, which may go on to install  *)
(* a flow.                                                                 *)
LEMMA UpcallInv ==
  ASSUME Inv, Upcall
  PROVE  Inv'
<1>1. /\ pc = "upcall"
      /\ UNCHANGED <<flow, emc, map, batches, keys, simple, new, sweep, ctl, gone, removed>>
      /\ \/ UNCHANGED missed
         \/ \E f \in InCls(keys[missed[next].pkt]) : missed' = [missed EXCEPT ![next].rule = f]
      /\ \/ NextUpcall
         \/ pc' = "install" /\ next' = next
  BY DEF Upcall, At, Shared, stage, pmdFrame, Missed
<1>2. /\ next \in 1 .. Len(missed) /\ new = Null /\ new \in Ref /\ missed \in Seq(MissEntry)
      /\ Len(missed) \in Nat /\ Len(map) \in Nat /\ Len(keys) \in Nat /\ Len(batches) \in Nat
      /\ Len(missed) <= Len(map) /\ Len(map) <= Len(keys) /\ Len(batches) <= Len(keys)
      /\ next \in Nat
  BY <1>1, InvTypes DEF Inv, Staged, Installing
<1>3. Carried /\ Len(missed') = Len(missed)
  <2>1. CASE UNCHANGED missed
    BY <1>1, <2>1, MoveCarried
  <2>2. ASSUME NEW f \in InCls(keys[missed[next].pkt]), missed' = [missed EXCEPT ![next].rule = f]
        PROVE  Carried /\ Len(missed') = Len(missed)
    <3>1. missed[next].pkt \in 1 .. Len(keys)
      BY <1>2, MissedPacket
    <3>2. f \in Ref /\ Takes(keys, flow, gone, missed[next].pkt, f)
      BY <3>1, FlowsTake
    <3> QED
      BY <1>1, <1>2, <2>2, <3>2, RuleCarried
  <2> QED
    BY <1>1, <2>1, <2>2
<1>4. \/ next + 1 <= Len(missed) /\ pc' = "upcall" /\ next' = next + 1
      \/ pc' = "cache" /\ next' = 1
      \/ pc' = "install" /\ next' = next
  BY <1>1 DEF NextUpcall, Loop, Goto
<1>5. /\ next' \in 1 .. Len(missed) /\ pc' \in {"upcall", "cache", "install"}
      /\ pc' = "cache" => next' = 1
  BY <1>2, <1>4
<1>6. missed' # <<>>
  BY <1>2, <1>3
<1>7. Staged'
  BY <1>1, <1>2, <1>3, <1>5, <1>6 DEF Staged
<1>8. Installing' /\ pc' \in PmdPc /\ next' \in Nat /\ new' \in Ref
  BY <1>1, <1>2, <1>5 DEF Installing, PmdPc
<1> QED
  BY <1>1, <1>3, <1>7, <1>8, PmdInv

(* The third lookup and the insertion, under flow_mutex.                   *)
LEMMA InstallInv ==
  ASSUME Inv, Install
  PROVE  Inv'
<1> DEFINE k == keys[missed[next].pkt]
<1>1. /\ pc = "install" /\ ctl.pc = "idle" /\ pc' = "insert" /\ next' = next
      /\ UNCHANGED <<emc, keys, simple, missed, map, batches, sweep, ctl, gone, removed>>
      /\ \/ flow' = flow /\ new' \in InCls(k)
         \/ /\ InCls(k) = {}
            /\ \E m \in {x \in Mega : k \in x} : \E f \in Free :
                 flow' = [flow EXCEPT ![f] = Whole(m)] /\ new' = f
  BY DEF Install, At, Missed, pmdFrame
<1>2. /\ next \in 1 .. Len(missed) /\ missed[next].pkt \in 1 .. Len(keys)
      /\ missed[next].pkt \in Nat
  BY <1>1, MissedPacket, Elements DEF Inv, Staged
<1>3. /\ Sided /\ Kept /\ BatchKept /\ new' \in Ref /\ new' # Null
      /\ Takes(keys', flow', gone', missed[next].pkt, new')
  <2>1. CASE flow' = flow /\ new' \in InCls(k)
    <3>1. PICK f \in InCls(k) : f = new'
      BY <2>1
    <3>2. f \in Ref /\ Takes(keys, flow, gone, missed[next].pkt, f) /\ f # Null
      BY <1>2, FlowsTake
    <3>3. Sided /\ Kept /\ BatchKept
      BY <1>1, <2>1, InvSide, Untouched
    <3> QED
      BY <1>1, <2>1, <3>1, <3>2, <3>3
  <2>2. ASSUME InCls(k) = {}, NEW m \in Mega, k \in m, NEW f \in Free,
               flow' = [flow EXCEPT ![f] = Whole(m)], new' = f
        PROVE  /\ Sided /\ Kept /\ BatchKept /\ new' \in Ref /\ new' # Null
               /\ Takes(keys', flow', gone', missed[next].pkt, new')
    <3> DEFINE n == Whole(m)
    <3>1. n \in {New(m), Whole(m)} /\ flow' = [flow EXCEPT ![f] = n]
      BY <2>2
    <3> HIDE DEF n
    <3>2. Side /\ UNCHANGED emc
      BY <1>1, InvSide
    <3> HIDE DEF k
    <3>3. AddedAs(f, m, n)
      BY <2>2, <3>1, <3>2, Added
    <3>4. Controlled'
      BY <1>1 DEF Controlled
    <3>5. f \in Ids /\ f \in Ref /\ f # Null /\ ~flow[f].used
      BY IdsNat DEF Free, Ref
    <3>6. f \notin gone
      <4>1. flow[f] = NoFlow
        BY <3>5 DEF Inv, References, Referred, Sound
      <4> QED
        BY <4>1 DEF Inv, Gone, NoFlow
    <3>7. Takes(keys', flow', gone', missed[next].pkt, f)
      BY <1>1, <1>2, <2>2, <3>3, <3>6 DEF Takes, AddedAs, k
    <3> QED
      BY <2>2, <3>3, <3>4, <3>5, <3>7 DEF AddedAs, Sided
  <2> QED
    BY <1>1, <2>1, <2>2
<1>4. Carried
  BY <1>1, <1>3, Carry, InvTypes DEF Carried
<1>5. Staged' /\ Installing' /\ pc' \in PmdPc /\ next' \in Nat
  BY <1>1, <1>2, <1>3, InvTypes DEF Inv, Staged, Installing, PmdPc
<1> QED
  BY <1>1, <1>3, <1>4, <1>5, PmdInv

(* The new flow goes to the EMC after the unlock: it may have been removed *)
(* since, and CanRef then fails.                                           *)
LEMMA InsertInv ==
  ASSUME Inv, Insert
  PROVE  Inv'
<1>1. /\ pc = "insert" /\ EmcInsert(keys[missed[next].pkt], new) /\ new' = Null
      /\ UNCHANGED <<keys, simple, missed, map, batches, sweep, ctl, gone, removed>>
      /\ \/ next < Len(missed) /\ pc' = "upcall" /\ next' = next + 1
         \/ pc' = "cache" /\ next' = 1
  BY DEF Insert, At, Missed, Goto, pmdFrame
<1>2. /\ next \in 1 .. Len(missed) /\ keys[missed[next].pkt] \in Key /\ Len(missed) \in Nat
      /\ missed # <<>> /\ new \in Ref /\ new # Null
      /\ Takes(keys, flow, gone, missed[next].pkt, new) /\ next \in Nat
  BY <1>1, MissedPacket, InvTypes DEF Inv, Staged, Installing
<1>3. new \in Ids /\ Matches(flow, keys[missed[next].pkt], new)
  BY <1>2 DEF Takes, Matches, Ref
<1>4. Sided /\ Kept /\ BatchKept
  BY <1>1, <1>2, <1>3, InvSide, InsertEffect
<1>5. Carried
  BY <1>1, <1>4, Carry, InvTypes DEF Carried
<1>6. /\ next' \in 1 .. Len(missed) /\ pc' \in {"upcall", "cache"}
      /\ pc' = "cache" => next' = 1
  BY <1>1, <1>2
<1>7. Staged'
  BY <1>1, <1>2, <1>6 DEF Staged, Inv
<1>8. Installing' /\ pc' \in PmdPc /\ next' \in Nat /\ new' \in Ref
  BY <1>1, <1>2, <1>6 DEF Installing, PmdPc, Ref
<1> QED
  BY <1>1, <1>5, <1>7, <1>8, PmdInv

(* The first element removed.                                              *)
LEMMA TailFacts ==
  ASSUME NEW S, NEW s \in Seq(S), s # <<>>
  PROVE  /\ 1 \in 1 .. Len(s) /\ Tail(s) \in Seq(S) /\ Len(Tail(s)) = Len(s) - 1
         /\ \A j \in 1 .. Len(Tail(s)) : \E i \in 1 .. Len(s) : Tail(s)[j] = s[i]
<1>1. Len(s) \in Nat /\ Len(s) > 0
  OBVIOUS
<1>2. Tail(s) \in Seq(S) /\ Len(Tail(s)) = Len(s) - 1
  OBVIOUS
<1>3. ASSUME NEW j \in 1 .. Len(Tail(s))
      PROVE  \E i \in 1 .. Len(s) : Tail(s)[j] = s[i]
  <2>1. Tail(s)[j] = s[j + 1]
    OBVIOUS
  <2>2. j + 1 \in 1 .. Len(s)
    BY <1>1, <1>2
  <2> QED
    BY <2>1, <2>2
<1> QED
  BY <1>1, <1>2, <1>3

(* The last loop of fast_path_processing: the EMC and flow_map get the     *)
(* flows found.                                                            *)
LEMMA CacheInv ==
  ASSUME Inv, Cache
  PROVE  Inv'
<1>1. /\ pc = "cache" /\ missed' = Tail(missed)
      /\ UNCHANGED <<batches, keys, simple, new, sweep, ctl, gone, removed>>
      /\ \/ 1 <= Len(missed') /\ pc' = "cache" /\ next' = 1
         \/ ~(1 <= Len(missed')) /\ pc' = "flush" /\ next' = 1
      /\ IF Missed.rule = Null THEN UNCHANGED <<flow, emc, map>>
         ELSE EmcInsert(keys[Missed.pkt], Missed.rule) /\ Hit(Missed, Missed.rule)
  BY DEF Cache, At, Loop, Goto, stage, pmdFrame, Shared
<1>2. /\ missed # <<>> /\ next = 1 /\ missed \in Seq(MissEntry) /\ new = Null /\ new \in Ref
      /\ map \in Seq(MapEntry) /\ batches \in Seq(BatchEntry)
      /\ Len(missed) \in Nat /\ Len(map) \in Nat /\ Len(keys) \in Nat /\ Len(batches) \in Nat
      /\ Len(missed) <= Len(map) /\ Len(map) <= Len(keys) /\ Len(batches) <= Len(keys)
  BY <1>1, InvTypes DEF Inv, Staged, Installing
<1>3. /\ next \in 1 .. Len(missed) /\ missed' \in Seq(MissEntry)
      /\ Len(missed') = Len(missed) - 1
      /\ \A j \in 1 .. Len(missed') : \E i \in 1 .. Len(missed) : missed'[j] = missed[i]
  <2>1. /\ 1 \in 1 .. Len(missed) /\ Tail(missed) \in Seq(MissEntry)
        /\ Len(Tail(missed)) = Len(missed) - 1
        /\ \A j \in 1 .. Len(Tail(missed)) :
             \E i \in 1 .. Len(missed) : Tail(missed)[j] = missed[i]
    BY <1>2, TailFacts
  <2>2. missed' = Tail(missed)
    BY <1>1
  <2> QED
    BY <1>2, <2>1, <2>2
<1>4. /\ Sided /\ Kept /\ BatchKept /\ map' \in Seq(MapEntry) /\ Len(map') = Len(map) /\ Mapped'
      /\ \A j \in 1 .. Len(map) : map'[j].pkt = map[j].pkt
  <2>1. CASE missed[next].rule = Null
    <3>1. UNCHANGED <<flow, emc, map>>
      BY <1>1, <2>1 DEF Missed
    <3>2. Sided /\ Kept /\ BatchKept
      BY <1>1, <3>1, InvSide, Untouched
    <3> QED
      BY <1>1, <1>2, <3>1, <3>2, Carry
  <2>2. CASE missed[next].rule # Null
    <3> DEFINE f == missed[next].rule
    <3>1. EmcInsert(keys[missed[next].pkt], f) /\ Hit(missed[next], f)
      BY <1>1, <2>2 DEF Missed
    <3>2. /\ keys[missed[next].pkt] \in Key /\ f \in Ref
          /\ Takes(keys, flow, gone, missed[next].pkt, f)
      BY <1>3, MissedPacket
    <3>3. f \in Ids /\ Matches(flow, keys[missed[next].pkt], f)
      BY <2>2, <3>2 DEF Takes, Matches, Ref
    <3> HIDE DEF f
    <3>4. Sided /\ Kept /\ BatchKept
      BY <1>1, <3>1, <3>2, <3>3, InvSide, InsertEffect
    <3> QED
      BY <1>1, <1>3, <3>1, <3>2, <3>4, HitMapped
  <2> QED
    BY <2>1, <2>2
<1>5. Missing'
  BY <1>1, <1>3, <1>4, FewerMissed
<1>6. Carried
  BY <1>1, <1>2, <1>3, <1>4, <1>5, Carry DEF Carried
<1>7. /\ pc' = "cache" => missed' # <<>>
      /\ pc' = "flush" => missed' = <<>>
      /\ next' = 1 /\ pc' \in {"cache", "flush"} /\ Len(missed') <= Len(map')
  <2>1. Len(missed') \in Nat /\ (missed' = <<>> <=> Len(missed') = 0)
    BY <1>3
  <2> QED
    BY <1>1, <1>2, <1>3, <1>4, <2>1
<1>8. Staged'
  BY <1>1, <1>2, <1>4, <1>7 DEF Staged
<1>9. Installing' /\ pc' \in PmdPc /\ next' \in Nat /\ new' \in Ref
  BY <1>1, <1>2, <1>7 DEF Installing, PmdPc
<1> QED
  BY <1>1, <1>6, <1>8, <1>9, PmdInv

(* The end of dp_netdev_input__: whatever has a batch is queued, so no     *)
(* flow remembers one.                                                     *)
LEMMA FlushInv ==
  ASSUME Inv, Flush
  PROVE  Inv'
<1>1. /\ pc = "flush" /\ pc' = "idle" /\ next' = 1 /\ flow' = Reset(Queued)
      /\ map' = <<>> /\ batches' = <<>> /\ keys' = <<>> /\ simple' = FALSE
      /\ gone' = {} /\ removed' = FALSE /\ UNCHANGED <<emc, sweep, ctl, missed, new>>
  BY DEF Flush, At, Goto
<1>2. missed = <<>> /\ new = Null /\ flow \in [Ids -> FlowType]
  BY <1>1, InvTypes DEF Inv, Staged, Installing
<1>3. ASSUME NEW f \in Ids
      PROVE  \/ flow'[f] = flow[f] /\ f \notin Queued
             \/ flow'[f] = [flow[f] EXCEPT !.batch = Null] /\ flow[f].used
  <2>1. f \in Queued => flow[f].used
    <3>1. \A i \in 1 .. Len(batches) : flow[batches[i].flow].used
      BY DEF Inv, Batching, Fits
    <3>2. \A i \in 1 .. Len(map) : map[i].flow # Null => flow[map[i].flow].used
      BY DEF Inv, Mapped, Takes
    <3>3. DOMAIN batches = 1 .. Len(batches) /\ DOMAIN map = 1 .. Len(map)
      BY InvTypes
    <3> QED
      BY <3>1, <3>2, <3>3, IdsNat DEF Queued
  <2>2. flow'[f] = IF f \in Queued THEN [flow[f] EXCEPT !.batch = Null] ELSE flow[f]
    BY <1>1 DEF Reset
  <2> QED
    BY <2>1, <2>2
<1>4. flow' \in [Ids -> FlowType] /\ \A f \in Ids : flow'[f].batch = Null
  <2>1. ASSUME NEW f \in Ids
        PROVE  flow'[f] \in FlowType /\ flow'[f].batch = Null
    <3>1. flow[f] \in FlowType
      BY <1>2
    <3>2. CASE flow'[f] = flow[f] /\ f \notin Queued
      <4>1. flow[f].batch = Null
        <5>1. DOMAIN batches = 1 .. Len(batches)
          BY InvTypes
        <5> QED
          BY <3>2, <5>1 DEF Inv, Known, Queued
      <4> QED
        BY <3>1, <3>2, <4>1
    <3>3. CASE flow'[f] = [flow[f] EXCEPT !.batch = Null]
      BY <3>1, <3>3 DEF FlowType, Null
    <3> QED
      BY <1>3, <3>2, <3>3
  <2>2. flow' = [f \in Ids |-> flow'[f]]
    BY <1>1 DEF Reset
  <2> QED
    BY <2>1, <2>2
<1>5. Sided
  <2>1. \A f \in Ids : \/ flow'[f] = flow[f]
                       \/ flow[f].used /\ \E b \in Nat : flow'[f] = [flow[f] EXCEPT !.batch = b]
    BY <1>3 DEF Null
  <2> QED
    BY <1>1, <1>4, <2>1, InvSide, BatchStep
<1>6. Typed' /\ References' /\ Controlled' /\ NoDuplicate'
  <2>1. keys' \in Seq(Key) /\ map' \in Seq(MapEntry) /\ batches' \in Seq(BatchEntry)
    BY <1>1, EmptySeq
  <2>2. pc' \in PmdPc /\ next' \in Nat /\ simple' \in BOOLEAN /\ removed' \in BOOLEAN
        /\ gone' \subseteq Ids
    BY <1>1 DEF PmdPc
  <2> QED
    BY <1>1, <1>5, <2>1, <2>2, InvTypes DEF Typed, Sided
<1>7. Staged' /\ Installing' /\ Mapped' /\ Missing' /\ Batching' /\ Gone'
  BY <1>1, <1>2 DEF Staged, Installing, Mapped, Missing, Batching, Gone
<1>8. Known'
  BY <1>4 DEF Known
<1> QED
  BY <1>6, <1>7, <1>8 DEF Inv

-----------------------------------------------------------------------------
(* The invariant holds at first.                                           *)
LEMMA InitInv ==
  ASSUME Init
  PROVE  Inv
<1>1. \A f \in Ids : flow[f] = NoFlow
  BY DEF Init
<1>2. Typed
  <2>1. flow \in [Ids -> FlowType]
    BY NoFlowType DEF Init
  <2>2. emc \in [Slot -> EmcEntry]
    BY DEF Init, EmcEntry, Ref
  <2>3. sweep \in Slot /\ ctl \in [pc : CtlPc, flow : Ref] /\ pc \in PmdPc
    BY IdsNat DEF Init, CtlPc, PmdPc, Ref
  <2>4. /\ keys \in Seq(Key) /\ next \in Nat /\ simple \in BOOLEAN /\ missed \in Seq(MissEntry)
        /\ map \in Seq(MapEntry) /\ batches \in Seq(BatchEntry)
    BY EmptySeq DEF Init
  <2>5. new \in Ref /\ gone \subseteq Ids /\ removed \in BOOLEAN
    BY DEF Init, Ref
  <2> QED
    BY <2>1, <2>2, <2>3, <2>4, <2>5 DEF Typed
<1>3. References
  BY <1>1 DEF Init, References, Referred, Sound, NoFlow, Matches
<1>4. Controlled /\ NoDuplicate /\ Known
  BY <1>1 DEF Init, Controlled, NoDuplicate, Known, NoFlow
<1>5. Staged /\ Mapped /\ Missing /\ Batching /\ Installing /\ Gone
  BY DEF Init, Staged, Mapped, Missing, Batching, Installing, Gone
<1> QED
  BY <1>2, <1>3, <1>4, <1>5 DEF Inv

(* Every step keeps it.                                                    *)
LEMMA NextInv ==
  ASSUME Inv, Next
  PROVE  Inv'
<1>1. Side /\ removed \in BOOLEAN /\ sweep \in Slot
  BY InvSide, InvTypes
<1>2. CASE Receive
  BY <1>2, ReceiveInv
<1>3. CASE Pmd
  BY <1>3, DfcInv, SmcInv, ClsInv, TryLockInv, UpcallInv, InstallInv, InsertInv, CacheInv,
     FlushInv DEF Pmd
<1>4. CASE Quiesce
  <2>1. /\ pc = "idle" /\ UNCHANGED <<ctl, sweep, pc, next, missed, map, batches, stage, watch>>
        /\ flow' = Reclaimed(flow)
    BY <1>4 DEF Quiesce, At
  <2>2. \A f \in Ids : flow'[f].batch = flow[f].batch \/ flow'[f] = NoFlow
    BY <2>1 DEF Reclaimed
  <2>3. Sided
    BY <1>1, <1>4, QuiesceSide
  <2> QED
    BY <1>1, <2>1, <2>2, <2>3, IdleInv
<1>5. CASE Housekeep
  BY <1>1, <1>5, HousekeepInv
<1>6. CASE Control
  BY <1>1, <1>6, PutTableSide, PutSimpleSide, RemoveSimpleSide, RemoveTableSide, SetDeadSide,
     ControlInv DEF Control
<1>7. ASSUME NEW m \in Mega, PutBegin(m)
      PROVE  Inv'
  BY <1>1, <1>7, PutBeginSide, ControlInv
<1>8. ASSUME NEW f \in Ids, RemoveCls(f)
      PROVE  Inv'
  BY <1>1, <1>8, RemoveClsSide, ControlInv
<1> QED
  BY <1>2, <1>3, <1>4, <1>5, <1>6, <1>7, <1>8 DEF Next

(* So does a step of something else.                                       *)
LEMMA StutterInv ==
  ASSUME Inv, UNCHANGED vars
  PROVE  Inv'
<1>1. UNCHANGED <<flow, emc, sweep, ctl, pc, keys, next, simple, missed, map, batches, new,
                  gone, removed>>
  BY DEF vars
<1>2. Carried
  BY <1>1, MoveCarried
<1> QED
  BY <1>1, <1>2, InvTypes, PmdInv DEF Inv, Staged, Installing

(* The invariant of the caches and of the PMD thread's batch.              *)
THEOREM Invariance == Spec => []Inv
<1>1. Init => Inv
  BY InitInv
<1>2. Inv /\ [Next]_vars => Inv'
  BY NextInv, StutterInv
<1> QED
  BY <1>1, <1>2, PTL DEF Spec

-----------------------------------------------------------------------------
(* The classifier never has two flows of one match: a handler looks again  *)
(* under flow_mutex before it adds (dp_netdev_flow_add).                   *)
THEOREM MatchesUnique == Spec => []NoDuplicate
<1>1. Inv => NoDuplicate
  BY DEF Inv
<1> QED
  BY <1>1, Invariance, PTL

(* What is in batches and flow_map covers its packets.                     *)
LEMMA InvCovered ==
  ASSUME Inv
  PROVE  CoveredByFlow
<1>1. DOMAIN map = 1 .. Len(map) /\ DOMAIN batches = 1 .. Len(batches)
  BY InvTypes
<1>2. ASSUME NEW i \in DOMAIN map, map[i].flow # Null
      PROVE  keys[map[i].pkt] \in flow[map[i].flow].match /\ map[i].flow \notin gone
  BY <1>1, <1>2 DEF Inv, Mapped, Takes
<1>3. ASSUME NEW i \in DOMAIN batches, NEW j \in DOMAIN batches[i].pkts
      PROVE  /\ keys[batches[i].pkts[j]] \in flow[batches[i].flow].match
             /\ batches[i].flow \notin gone
  <2>1. batches[i].flow \in Ids /\ batches[i].pkts \in Seq(Nat)
    BY <1>1, Elements
  <2>2. j \in 1 .. Len(batches[i].pkts) /\ batches[i].flow # Null
    BY <2>1, IdsNat
  <2> QED
    BY <1>1, <2>2 DEF Inv, Batching, Fits, Takes
<1>4. ASSUME NEW c \in Classified
      PROVE  keys[c[1]] \in flow[c[2]].match /\ c[2] \notin gone
  <2>1. CASE c \in {<<map[i].pkt, map[i].flow>> : i \in {j \in DOMAIN map : map[j].flow # Null}}
    <3>1. PICK i \in DOMAIN map : map[i].flow # Null /\ c = <<map[i].pkt, map[i].flow>>
      BY <2>1
    <3> QED
      BY <1>2, <3>1
  <2>2. CASE c \in UNION {{<<batches[i].pkts[j], batches[i].flow>> :
                             j \in DOMAIN batches[i].pkts} : i \in DOMAIN batches}
    <3>1. PICK i \in DOMAIN batches : \E j \in DOMAIN batches[i].pkts :
            c = <<batches[i].pkts[j], batches[i].flow>>
      BY <2>2
    <3>2. PICK j \in DOMAIN batches[i].pkts : c = <<batches[i].pkts[j], batches[i].flow>>
      BY <3>1
    <3> QED
      BY <1>3, <3>2
  <2> QED
    BY <2>1, <2>2 DEF Classified
<1> QED
  BY <1>4 DEF CoveredByFlow

(* A packet's flow matches it and was not removed before the packet was    *)
(* received, whichever of the caches and the classifier found it           *)
(* (dfc_processing, fast_path_processing, handle_packet_upcall).           *)
THEOREM Covered == Spec => []CoveredByFlow
<1>1. Inv => CoveredByFlow
  BY InvCovered
<1> QED
  BY <1>1, Invariance, PTL

(* The positions of the EMC that hold a flow, counted as a set.            *)
LEMMA EntriesCount ==
  ASSUME NEW em, NEW f
  PROVE  Cardinality({s \in Slot : em[s].flow = f}) = Entries(em, f)
<1> DEFINE S == {s \in Slot : em[s].flow = f}
<1>1. CASE em[1].flow = f /\ em[2].flow = f
  <2>1. S = Slot
    BY <1>1, IdsNat
  <2> HIDE DEF S
  <2>2. Entries(em, f) = 2
    BY <1>1 DEF Entries, One
  <2> QED
    BY <2>1, <2>2, SlotCount DEF S
<1>2. CASE em[1].flow = f /\ em[2].flow # f
  <2>1. S = {1}
    BY <1>2, IdsNat
  <2>2. Entries(em, f) = 1
    BY <1>2 DEF Entries, One
  <2> QED
    BY <2>1, <2>2, FS_Singleton
<1>3. CASE em[1].flow # f /\ em[2].flow = f
  <2>1. S = {2}
    BY <1>3, IdsNat
  <2>2. Entries(em, f) = 1
    BY <1>3 DEF Entries, One
  <2> QED
    BY <2>1, <2>2, FS_Singleton
<1>4. CASE em[1].flow # f /\ em[2].flow # f
  <2>1. S = {}
    BY <1>4, IdsNat
  <2>2. Entries(em, f) = 0
    BY <1>4 DEF Entries, One
  <2> QED
    BY <2>1, <2>2, FS_EmptySet
<1> QED
  BY <1>1, <1>2, <1>3, <1>4

(* The types the runs check, with the bound of the references.             *)
LEMMA InvTypeOK ==
  ASSUME Inv
  PROVE  TypeOK
<1>1. ASSUME NEW f \in Ids
      PROVE  flow[f].match \in Mega \cup {{}} /\ flow[f].ref \in 0 .. Cardinality(Slot) + 2
  <2>1. flow[f] \in FlowType /\ Sound(flow, emc, f)
    BY InvTypes DEF Inv, References, Referred
  <2>2. CASE flow[f].used
    <3>1. flow[f].ref = Entries(emc, f) + One(~flow[f].dead) + One(flow[f].inSimple)
      BY <2>1, <2>2 DEF Sound
    <3>2. Entries(emc, f) \in 0 .. 2 /\ One(~flow[f].dead) \in 0 .. 1
          /\ One(flow[f].inSimple) \in 0 .. 1
      BY EntriesNat DEF One
    <3>3. flow[f].ref \in 0 .. 4
      BY <3>1, <3>2
    <3> QED
      BY <2>1, <3>3, SlotCount DEF FlowType
  <2>3. CASE ~flow[f].used
    <3>1. flow[f] = NoFlow
      BY <2>1, <2>3 DEF Sound
    <3> QED
      BY <3>1, SlotCount DEF NoFlow
  <2> QED
    BY <2>2, <2>3
<1>2. \A s \in Slot : emc[s].key \in Key \cup {Null} /\ emc[s].flow \in Ids \cup {Null}
  BY InvTypes DEF EmcEntry, Ref
<1>3. /\ sweep \in Slot /\ new \in Ids \cup {Null} /\ simple \in BOOLEAN /\ removed \in BOOLEAN
      /\ ctl.pc \in {"idle", "put", "putSimple", "simple", "table", "dead"}
      /\ pc \in {"idle", "dfc", "smc", "cls", "lock", "upcall", "install", "insert", "cache",
                 "flush"}
  BY InvTypes DEF Ref, CtlPc, PmdPc
<1>4. Len(missed) <= Len(map) /\ Len(map) <= Len(keys) /\ Len(batches) <= Len(keys)
  BY DEF Inv, Staged
<1> QED
  BY <1>1, <1>2, <1>3, <1>4 DEF TypeOK

(* Whatever points to a flow points to one that is used.                   *)
LEMMA InvHeld ==
  ASSUME Inv, NEW f \in Held, f # Null
  PROVE  flow[f].used
<1>1. CASE f \in {emc[s].flow : s \in Slot}
  BY <1>1 DEF Inv, References, Referred, Matches
<1>2. DOMAIN map = 1 .. Len(map) /\ DOMAIN batches = 1 .. Len(batches)
      /\ DOMAIN missed = 1 .. Len(missed)
  BY InvTypes
<1>3. CASE f \in {map[i].flow : i \in DOMAIN map}
  BY <1>2, <1>3 DEF Inv, Mapped, Takes
<1>4. CASE f \in {missed[i].rule : i \in DOMAIN missed}
  BY <1>2, <1>4 DEF Inv, Missing, Takes
<1>5. CASE f \in {batches[i].flow : i \in DOMAIN batches}
  BY <1>2, <1>5 DEF Inv, Batching, Fits
<1>6. CASE f = new
  BY <1>6 DEF Inv, Installing, Takes
<1>7. CASE f = ctl.flow * (IF ctl.pc = "idle" THEN 0 ELSE 1)
  <2>1. ctl.flow \in Int
    <3>1. ctl.flow \in Ref
      BY InvTypes
    <3>2. Ref \subseteq Int
      BY IdsNat DEF Ref, Null
    <3> QED
      BY <3>1, <3>2
  <2>2. CASE ctl.pc = "idle"
    <3>1. f = ctl.flow * 0
      BY <1>7, <2>2
    <3>2. f = 0
      BY <2>1, <3>1
    <3> QED
      BY <3>2 DEF Null
  <2>3. CASE ctl.pc # "idle"
    <3>1. f = ctl.flow * 1
      BY <1>7, <2>3
    <3>2. f = ctl.flow
      BY <2>1, <3>1
    <3> QED
      BY <2>3, <3>2 DEF Inv, Controlled
  <2> QED
    BY <2>2, <2>3
<1> QED
  BY <1>1, <1>3, <1>4, <1>5, <1>6, <1>7 DEF Held

(* References and what is held, together.                                  *)
LEMMA InvNoUseAfterFree ==
  ASSUME Inv
  PROVE  NoUseAfterFree
<1>1. ASSUME NEW f \in Ids, flow[f].used
      PROVE  LET n == Cardinality({s \in Slot : emc[s].flow = f}) IN
             /\ flow[f].ref = n + (IF flow[f].dead THEN 0 ELSE 1)
                                + (IF flow[f].inSimple THEN 1 ELSE 0)
             /\ flow[f].postponed = (flow[f].ref = 0)
  <2>1. Sound(flow, emc, f)
    BY DEF Inv, References, Referred
  <2>2. One(~flow[f].dead) = (IF flow[f].dead THEN 0 ELSE 1)
        /\ One(flow[f].inSimple) = (IF flow[f].inSimple THEN 1 ELSE 0)
    BY DEF One
  <2> QED
    BY <1>1, <2>1, <2>2, EntriesCount DEF Sound
<1> QED
  BY <1>1, InvTypeOK, InvHeld DEF NoUseAfterFree

(* No flow is freed while the EMC, a batch, flow_map or a thread points to *)
(* it, and its references are those of the flow table, of the simple match *)
(* table and of the EMC (dp_netdev_flow_ref, dp_netdev_flow_unref).        *)
THEOREM ReferencesHeld == Spec => []NoUseAfterFree
<1>1. Inv => NoUseAfterFree
  BY InvNoUseAfterFree
<1> QED
  BY <1>1, Invariance, PTL

-----------------------------------------------------------------------------
(* Where each packet of the batch is.  The packets that have been taken so *)
(* far, and those of them that were batched before the first miss:         *)
(* flow_map has the rest, in order.                                        *)
Taken == IF pc = "dfc" THEN next - 1 ELSE Len(keys)
Early == Taken - Len(map)

Numbered ==
  /\ \A i \in 1 .. Len(map) : map[i].pkt = Early + i
  /\ pc = "dfc" /\ missed = <<>> => map = <<>>

(* The batches bs have the packets of S, each once; a batch has them in    *)
(* order, and is the one its flow knows.                                   *)
Owned(fl, bs) == \A i \in 1 .. Len(bs) : fl[bs[i].flow].batch = i
Sorted(bs) ==
  \A i \in 1 .. Len(bs) : \A j, k \in 1 .. Len(bs[i].pkts) :
    j < k => bs[i].pkts[j] < bs[i].pkts[k]
Disjoint(bs) ==
  \A i, k \in 1 .. Len(bs) : i # k =>
    \A j \in 1 .. Len(bs[i].pkts), l \in 1 .. Len(bs[k].pkts) : bs[i].pkts[j] # bs[k].pkts[l]
Within(bs, S) == \A i \in 1 .. Len(bs) : \A j \in 1 .. Len(bs[i].pkts) : bs[i].pkts[j] \in S
Covers(bs, S) ==
  \A p \in S : \E i \in 1 .. Len(bs) : \E j \in 1 .. Len(bs[i].pkts) : bs[i].pkts[j] = p
Queues(fl, bs, S) ==
  Owned(fl, bs) /\ Sorted(bs) /\ Disjoint(bs) /\ Within(bs, S) /\ Covers(bs, S)

Queueing == Queues(flow, batches, 1 .. Early)

(* The packets the slow path has executed or dropped, and how many of the  *)
(* missed ones it has been through.                                        *)
Slow == {sent[i].pkt : i \in 1 .. Len(sent)}
Answered == Slow \cup lost
Seen == IF pc = "upcall" THEN next - 1
        ELSE IF pc \in {"install", "insert"} THEN next
        ELSE IF pc = "cache" THEN Len(missed) ELSE 0

SentEntry == [pkt : Nat, flow : {Null}]

(* The slow path executes in order, and has answered each packet it has    *)
(* been through, once, unless it found a rule for it.                      *)
Answering ==
  /\ sent \in Seq(SentEntry)
  /\ \A i, j \in 1 .. Len(sent) : i < j => sent[i].pkt < sent[j].pkt
  /\ Slow \cap lost = {}
  /\ Answered \subseteq Early + 1 .. Len(keys)
  /\ pc \in {"idle", "dfc", "smc", "cls", "lock"} => sent = <<>> /\ lost = {}
  /\ pc \in {"upcall", "install", "insert"} =>
       \A p \in Answered : \E j \in 1 .. Seen : missed[j].pkt = p
  /\ \A j \in 1 .. Len(missed) :
       missed[j].pkt \in Answered <=> missed[j].rule = Null /\ j <= Seen

(* The packets of flow_map without a flow are those still missed and those *)
(* the slow path has answered.                                             *)
Waiting ==
  /\ \A i, j \in 1 .. Len(missed) : i < j => missed[i].at < missed[j].at
  /\ \A i \in 1 .. Len(map) :
       map[i].flow = Null <=>
         map[i].pkt \in Answered \/ \E j \in 1 .. Len(missed) : missed[j].at = i

(* A flow that is not dead is in the classifier, unless the other thread   *)
(* removes it; unless one is being removed, no flow has died since the     *)
(* receipt.                                                                *)
Removing == {"simple", "table", "dead"}
Stands(f) ==
  flow[f].used /\ ~flow[f].dead /\ ~flow[f].inCls => ctl.flow = f /\ ctl.pc \in Removing
Standing ==
  /\ \A f \in Ids : Stands(f)
  /\ pc # "idle" /\ ~removed =>
       ctl.pc \notin Removing /\ \A f \in Ids : flow[f].dead => f \in gone

(* A packet that a flow takes is of another microflow than those the slow  *)
(* path executed that were received after it.                              *)
Apart(p) == \A i \in 1 .. Len(sent) : p < sent[i].pkt => keys[p] # keys[sent[i].pkt]
Late ==
  pc # "idle" /\ ~removed =>
    /\ \A i \in 1 .. Len(map) : map[i].flow # Null => Apart(map[i].pkt)
    /\ \A i \in 1 .. Len(missed) : missed[i].rule # Null => Apart(missed[i].pkt)
    /\ \A i \in 1 .. Len(batches) : \A j \in 1 .. Len(batches[i].pkts) :
         Apart(batches[i].pkts[j])

Placed == Numbered /\ Queueing /\ Answering /\ Waiting /\ Standing /\ Late

-----------------------------------------------------------------------------
(* No flow is taken out of the classifier or dies, and the receipt is the  *)
(* same.                                                                   *)
LEMMA StandsKept ==
  ASSUME Standing,
         \A f \in Ids : /\ flow'[f].used = flow[f].used /\ flow'[f].dead = flow[f].dead
                        /\ flow'[f].inCls = flow[f].inCls,
         UNCHANGED <<ctl, gone>>, pc' # "idle" => pc # "idle" /\ removed' = removed
  PROVE  Standing'
<1>1. \A f \in Ids : Stands(f)'
  BY DEF Standing, Stands
<1>2. pc' # "idle" /\ ~removed' =>
        ctl'.pc \notin Removing /\ \A f \in Ids : flow'[f].dead => f \in gone'
  BY DEF Standing
<1> QED
  BY <1>1, <1>2 DEF Standing

(* The steps of the other thread.                                          *)
LEMMA PutBeginStands ==
  ASSUME Inv, Standing, NEW m \in Mega, PutBegin(m)
  PROVE  Standing'
<1>1. PICK f \in Free : flow' = [flow EXCEPT ![f] = New(m)] /\ ctl' = [pc |-> "put", flow |-> f]
  BY DEF PutBegin
<1>2. ctl.pc = "idle" /\ UNCHANGED <<pc, gone, removed>> /\ flow \in [Ids -> FlowType] /\ f \in Ids
  BY InvTypes DEF PutBegin, ctlFrame, Free
<1>3. ~New(m).dead /\ New(m).inCls
  BY DEF New, NoFlow
<1>4. \A g \in Ids : Stands(g)'
  BY <1>1, <1>2, <1>3 DEF Standing, Stands, Removing
<1>5. pc' # "idle" /\ ~removed' =>
        ctl'.pc \notin Removing /\ \A g \in Ids : flow'[g].dead => g \in gone'
  BY <1>1, <1>2, <1>3 DEF Standing, Removing
<1> QED
  BY <1>4, <1>5 DEF Standing

LEMMA RemoveClsStands ==
  ASSUME Inv, Standing, NEW c \in Ids, RemoveCls(c)
  PROVE  Standing'
<1>1. /\ ctl.pc = "idle" /\ UNCHANGED <<pc, gone>> /\ flow \in [Ids -> FlowType]
      /\ flow' = [flow EXCEPT ![c].inCls = FALSE] /\ removed' = TRUE
      /\ ctl' = [pc |-> IF flow[c].inSimple THEN "simple" ELSE "table", flow |-> c]
  BY InvTypes DEF RemoveCls, ctlFrame
<1>2. \A g \in Ids : Stands(g)'
  BY <1>1 DEF Standing, Stands, Removing
<1> QED
  BY <1>1, <1>2 DEF Standing

(* The flow the other thread is at changes, but not in the classifier.     *)
LEMMA ControlStands ==
  ASSUME Inv, Standing, Control
  PROVE  Standing'
<1> DEFINE c == ctl.flow
<1>1. /\ UNCHANGED <<pc, gone>> /\ flow \in [Ids -> FlowType] /\ ctl.pc # "idle" /\ c \in Ids
      /\ ctl'.flow = ctl.flow /\ ctl \in [pc : CtlPc, flow : Ref]
  <2>1. UNCHANGED <<pc, gone>> /\ ctl.pc # "idle" /\ \E p : ctl' = [ctl EXCEPT !.pc = p]
    BY DEF Control, PutTable, PutSimple, RemoveSimple, RemoveTable, SetDead, ctlFrame, Ctl
  <2>2. flow \in [Ids -> FlowType] /\ ctl \in [pc : CtlPc, flow : Ref] /\ c \in Ids
    BY <2>1, InvTypes DEF Inv, Controlled
  <2> QED
    BY <2>1, <2>2
<1>2. CASE PutTable \/ PutSimple
  <2>1. /\ ctl.pc \in {"put", "putSimple"} /\ ctl'.pc \in {"putSimple", "idle"}
        /\ removed' = removed
    BY <1>1, <1>2 DEF PutTable, PutSimple, Ctl
  <2>2. \A f \in Ids : /\ flow'[f].used = flow[f].used /\ flow'[f].dead = flow[f].dead
                       /\ flow'[f].inCls = flow[f].inCls
    BY <1>1, <1>2 DEF PutTable, PutSimple, FlowType
  <2>3. \A f \in Ids : Stands(f)'
    BY <2>1, <2>2 DEF Standing, Stands, Removing
  <2>4. pc' # "idle" /\ ~removed' =>
          ctl'.pc \notin Removing /\ \A f \in Ids : flow'[f].dead => f \in gone'
    BY <1>1, <2>1, <2>2 DEF Standing, Removing
  <2> QED
    BY <2>3, <2>4 DEF Standing
<1>3. CASE RemoveSimple \/ RemoveTable
  <2>1. /\ ctl.pc \in {"simple", "table"} /\ ctl'.pc \in {"table", "dead"} /\ removed'
    BY <1>1, <1>3 DEF RemoveSimple, RemoveTable, Ctl
  <2>2. \A f \in Ids : /\ flow'[f].used = flow[f].used /\ flow'[f].dead = flow[f].dead
                       /\ flow'[f].inCls = flow[f].inCls
    BY <1>1, <1>3 DEF RemoveSimple, RemoveTable, FlowType, Unref
  <2>3. \A f \in Ids : Stands(f)'
    BY <1>1, <2>1, <2>2 DEF Standing, Stands, Removing
  <2> QED
    BY <2>1, <2>3 DEF Standing
<1>4. CASE SetDead
  <2>1. ctl.pc = "dead" /\ removed' = removed /\ pc' = pc
        /\ flow' = Unref([flow EXCEPT ![c].dead = TRUE], c)
    BY <1>4 DEF SetDead, Ctl, ctlFrame
  <2>2. \A f \in Ids : /\ flow'[f].used = flow[f].used /\ flow'[f].inCls = flow[f].inCls
                       /\ f # c => flow'[f].dead = flow[f].dead
                       /\ f = c => flow'[f].dead
    BY <1>1, <2>1 DEF FlowType, Unref
  <2>3. pc = "idle" \/ removed
    BY <2>1 DEF Standing, Removing
  <2>4. \A f \in Ids : Stands(f)'
    BY <1>1, <2>1, <2>2 DEF Standing, Stands
  <2> QED
    BY <2>1, <2>3, <2>4 DEF Standing
<1> QED
  BY <1>2, <1>3, <1>4 DEF Control

(* Between two batches.                                                    *)
LEMMA HouseStands ==
  ASSUME Inv, Standing, Quiesce \/ Housekeep
  PROVE  Standing'
<1> DEFINE fl == Reclaimed(flow)
           o == emc[sweep].flow
<1>1. /\ pc' = "idle" /\ UNCHANGED ctl
      /\ flow' = fl \/ (o # Null /\ flow' = Unref(fl, o))
  BY DEF Quiesce, Housekeep, At
<1>2. /\ fl \in [Ids -> FlowType]
      /\ \A f \in Ids : fl[f] = flow[f] \/ fl[f] = NoFlow
      /\ o \in Ref
  BY InvSide, ReclaimedFlows, InvTypes DEF EmcEntry
<1> HIDE DEF fl, o
<1>3. \A f \in Ids : /\ flow'[f].used = fl[f].used /\ flow'[f].dead = fl[f].dead
                     /\ flow'[f].inCls = fl[f].inCls
  <2>1. CASE flow' = fl
    BY <2>1
  <2>2. CASE o # Null /\ flow' = Unref(fl, o)
    BY <1>2, <2>2 DEF Unref, Ref, FlowType
  <2> QED
    BY <1>1, <2>1, <2>2
<1>4. \A f \in Ids : flow'[f].used /\ ~flow'[f].dead /\ ~flow'[f].inCls =>
        flow[f].used /\ ~flow[f].dead /\ ~flow[f].inCls
  BY <1>2, <1>3 DEF NoFlow
<1>5. \A f \in Ids : Stands(f)'
  BY <1>1, <1>4 DEF Standing, Stands
<1> QED
  BY <1>1, <1>5 DEF Standing

(* The receipt: a flow that is dead by then is in gone, and removed says   *)
(* whether one is being removed.                                           *)
LEMMA ReceiveStands ==
  ASSUME Inv, Standing, Receive
  PROVE  Standing'
<1>1. /\ UNCHANGED <<flow, ctl>> /\ gone' = {f \in Ids : flow[f].dead}
      /\ removed' = (ctl.pc \in Removing)
  BY DEF Receive, Removing
<1>2. \A f \in Ids : Stands(f)'
  BY <1>1 DEF Standing, Stands
<1> QED
  BY <1>1, <1>2 DEF Standing

(* A packet that joins a batch changes what the flow knows of it, or       *)
(* nothing of the flow.                                                    *)
LEMMA QueueFlows ==
  ASSUME NEW fl \in [Ids -> FlowType], NEW bs, NEW p, NEW f \in Ids
  PROVE  LET q == QueueBatch([fl |-> fl, batches |-> bs], p, f) IN
         q.fl = [fl EXCEPT ![f].batch = IF @ = Null THEN Len(bs) + 1 ELSE @]
  BY DEF QueueBatch, FlowType

(* What a step of the PMD thread leaves of the flows.                      *)
Alike ==
  \A f \in Ids : /\ flow'[f].used = flow[f].used /\ flow'[f].dead = flow[f].dead
                 /\ flow'[f].inCls = flow[f].inCls

LEMMA EmcAlike ==
  ASSUME Inv, UNCHANGED <<ctl>>, NEW i \in 1 .. Len(missed), NEW f \in Ref, f # Null,
         Takes(keys, flow, gone, missed[i].pkt, f), EmcInsert(keys[missed[i].pkt], f)
  PROVE  Alike /\ BatchKept /\ Kept
<1>1. keys[missed[i].pkt] \in Key /\ f \in Ids /\ Matches(flow, keys[missed[i].pkt], f)
  BY MissedPacket DEF Takes, Matches, Ref
<1>2. BatchKept /\ Kept /\ \A g \in Ids : SameFlow(flow'[g], flow[g])
  BY <1>1, InvSide, InsertEffect
<1> QED
  BY <1>2 DEF SameFlow, Alike

(* The hit of a lookup in the signature match cache.                       *)
LEMMA SmcHitAlike ==
  ASSUME Inv, pc = "smc", UNCHANGED ctl,
         NEW f \in InSmc(keys[Missed.pkt]), EmcInsert(keys[Missed.pkt], f)
  PROVE  /\ Alike /\ BatchKept /\ Kept /\ f \in Ref /\ f # Null
         /\ Takes(keys, flow, gone, missed[next].pkt, f)
<1>1. next \in 1 .. Len(missed)
  BY DEF Inv, Staged
<1>2. missed[next].pkt \in 1 .. Len(keys)
  BY <1>1, MissedPacket
<1>3. f \in Ids /\ f \in Ref /\ f # Null /\ Takes(keys, flow, gone, missed[next].pkt, f)
  BY <1>2, FlowsTake DEF Missed
<1> QED
  BY <1>1, <1>3, EmcAlike DEF Missed

(* A flow found goes to EMC and flow_map in the last loop.                 *)
LEMMA CacheAlike ==
  ASSUME Inv, pc = "cache", UNCHANGED ctl, Missed.rule # Null,
         EmcInsert(keys[Missed.pkt], Missed.rule)
  PROVE  Alike /\ BatchKept /\ Kept
<1>1. next \in 1 .. Len(missed)
  BY InvTypes DEF Inv, Staged
<1>2. missed[next].rule \in Ref /\ Takes(keys, flow, gone, missed[next].pkt, missed[next].rule)
  BY <1>1, MissedPacket
<1> QED
  BY <1>1, <1>2, EmcAlike DEF Missed

LEMMA InsertAlike ==
  ASSUME Inv, Insert
  PROVE  Alike /\ BatchKept /\ Kept
<1>1. pc = "insert" /\ EmcInsert(keys[missed[next].pkt], new) /\ UNCHANGED ctl
  BY DEF Insert, At, Missed, pmdFrame
<1>2. /\ next \in 1 .. Len(missed) /\ new \in Ref /\ new # Null
      /\ Takes(keys, flow, gone, missed[next].pkt, new)
  BY <1>1, InvTypes DEF Inv, Staged, Installing
<1> QED
  BY <1>1, <1>2, EmcAlike

(* The steps of the PMD thread within a batch.                             *)
LEMMA PmdStands ==
  ASSUME Inv, Standing, Pmd
  PROVE  Standing'
<1>1. CASE Dfc
  <2>1. pc # "idle" /\ UNCHANGED <<ctl, gone, removed>>
    BY <1>1 DEF Dfc, At, pmdFrame
  <2>2. Alike
    <3>1. CASE UNCHANGED flow
      BY <3>1 DEF Alike
    <3>2. ASSUME NEW f \in DfcFlows, DfcHit(f), missed = <<>>
          PROVE  Alike
      <4>1. flow \in [Ids -> FlowType] /\ f \in Ids
        BY <3>2, InvTypes, <1>1, FlowsTake DEF DfcFlows, Dfc, At, Inv, Staged
      <4>2. flow' = QueueBatch([fl |-> flow, batches |-> batches], next, f).fl
        BY <3>2 DEF DfcHit
      <4>3. QueueBatch([fl |-> flow, batches |-> batches], next, f).fl
              = [flow EXCEPT ![f].batch = IF @ = Null THEN Len(batches) + 1 ELSE @]
        BY <4>1 DEF QueueBatch, FlowType
      <4>4. flow' = [flow EXCEPT ![f].batch = IF @ = Null THEN Len(batches) + 1 ELSE @]
        BY <4>2, <4>3
      <4> QED
        BY <4>1, <4>4 DEF Alike, FlowType
    <3> QED
      BY <1>1, <3>1, <3>2 DEF Dfc, DfcHit, DfcMiss
  <2> QED
    BY <2>1, <2>2, StandsKept DEF Alike
<1>2. CASE Smc
  <2>1. pc = "smc" /\ UNCHANGED <<ctl, gone, removed>>
    BY <1>2 DEF Smc, At, pmdFrame
  <2>2. Alike
    <3>1. CASE UNCHANGED flow
      BY <3>1 DEF Alike
    <3>2. CASE ~UNCHANGED flow
      BY <1>2, <2>1, <3>2, SmcHitAlike DEF Smc, Shared
    <3> QED
      BY <3>1, <3>2
  <2> QED
    BY <2>1, <2>2, StandsKept DEF Alike
<1>3. CASE Cls \/ TryLock \/ Upcall
  <2>1. pc # "idle" /\ UNCHANGED <<ctl, gone, removed, flow>>
    BY <1>3 DEF Cls, TryLock, Upcall, At, pmdFrame, Shared
  <2> QED
    BY <2>1, StandsKept
<1>4. CASE Install
  <2>1. pc # "idle" /\ UNCHANGED <<ctl, gone, removed>>
    BY <1>4 DEF Install, At, pmdFrame
  <2>2. CASE UNCHANGED flow
    BY <2>1, <2>2, StandsKept
  <2>3. ASSUME NEW m \in Mega, NEW f \in Free, flow' = [flow EXCEPT ![f] = Whole(m)]
        PROVE  Standing'
    <3>1. Whole(m).inCls /\ ~Whole(m).dead
      BY DEF Whole, New, NoFlow
    <3>2. flow \in [Ids -> FlowType] /\ f \in Ids
      BY InvTypes DEF Free
    <3>3. \A g \in Ids : Stands(g)'
      BY <2>1, <2>3, <3>1, <3>2 DEF Standing, Stands
    <3>4. ~removed' => ctl'.pc \notin Removing /\ \A g \in Ids : flow'[g].dead => g \in gone'
      BY <2>1, <2>3, <3>1, <3>2 DEF Standing
    <3> QED
      BY <3>3, <3>4 DEF Standing
  <2> QED
    BY <1>4, <2>2, <2>3 DEF Install
<1>5. CASE Insert
  <2>1. pc # "idle" /\ UNCHANGED <<ctl, gone, removed>>
    BY <1>5 DEF Insert, At, pmdFrame
  <2> QED
    BY <1>5, <2>1, InsertAlike, StandsKept DEF Alike
<1>6. CASE Cache
  <2>1. pc = "cache" /\ UNCHANGED <<ctl, gone, removed>>
    BY <1>6 DEF Cache, At, pmdFrame
  <2>2. Alike
    <3>1. CASE Missed.rule = Null
      BY <1>6, <3>1 DEF Cache, Shared, Alike
    <3>2. CASE Missed.rule # Null
      BY <1>6, <2>1, <3>2, CacheAlike DEF Cache
    <3> QED
      BY <3>1, <3>2
  <2> QED
    BY <2>1, <2>2, StandsKept DEF Alike
<1>7. CASE Flush
  <2>1. pc' = "idle" /\ UNCHANGED ctl /\ flow' = Reset(Queued)
    BY <1>7 DEF Flush, Goto
  <2>2. Alike
    BY <2>1, InvTypes DEF Reset, Alike, FlowType
  <2>3. \A f \in Ids : Stands(f)'
    BY <2>1, <2>2 DEF Standing, Stands, Alike
  <2> QED
    BY <2>1, <2>3 DEF Standing
<1> QED
  BY <1>1, <1>2, <1>3, <1>4, <1>5, <1>6, <1>7 DEF Pmd

-----------------------------------------------------------------------------
(* The other thread moves no packet, and no flow's batch.                  *)
LEMMA ControlPlaced ==
  ASSUME Inv, Placed, UNCHANGED ctlFrame, BatchKept, removed \in BOOLEAN,
         ~removed' => ~removed, Standing'
  PROVE  Placed'
<1>1. UNCHANGED <<pc, next, map, missed, batches, keys, sent, lost>>
  BY DEF ctlFrame, stage, result
<1>2. Taken' = Taken /\ Early' = Early
  BY <1>1 DEF Taken, Early
<1>3. Numbered'
  BY <1>1, <1>2 DEF Placed, Numbered
<1>4. Queueing'
  <2>1. \A i \in 1 .. Len(batches) : batches[i].flow \in Ids
    BY Elements
  <2>2. \A i \in 1 .. Len(batches) : flow'[batches[i].flow].batch = i
    BY <2>1 DEF Placed, Queueing, Queues, Owned, BatchKept
  <2> QED
    BY <1>1, <1>2, <2>2 DEF Placed, Queueing, Queues, Owned, Sorted, Disjoint, Within, Covers
<1>5. Slow' = Slow /\ Answered' = Answered /\ Seen' = Seen
  BY <1>1 DEF Slow, Answered, Seen
<1>6. Answering' /\ Waiting'
  BY <1>1, <1>2, <1>5 DEF Placed, Answering, Waiting
<1>7. Late'
  <2>1. \A p : Apart(p)' <=> Apart(p)
    BY <1>1 DEF Apart
  <2>2. pc' # "idle" /\ ~removed' => pc # "idle" /\ ~removed
    BY <1>1
  <2> QED
    BY <1>1, <2>1, <2>2 DEF Placed, Late
<1> QED
  BY <1>3, <1>4, <1>6, <1>7 DEF Placed

(* Nothing is placed between two batches.                                  *)
LEMMA IdlePlaced ==
  ASSUME Inv, Placed, pc = "idle", pc' = "idle", UNCHANGED <<map, missed, batches, keys, sent, lost>>,
         Standing'
  PROVE  Placed'
<1>1. keys = <<>> /\ map = <<>> /\ missed = <<>> /\ batches = <<>> /\ sent = <<>> /\ lost = {}
  BY DEF Inv, Staged, Placed, Answering
<1>2. Taken' = Taken /\ Early' = Early /\ Early = 0
  BY <1>1 DEF Taken, Early
<1>3. Numbered'
  BY <1>1 DEF Numbered
<1>4. Queueing'
  BY <1>1, <1>2 DEF Queueing, Queues, Owned, Sorted, Disjoint, Within, Covers
<1>5. Slow' = Slow /\ Answered' = Answered
  BY DEF Slow, Answered
<1>6. Answering' /\ Waiting'
  BY <1>1, <1>2, <1>5 DEF Placed, Answering, Waiting
<1>7. Late'
  <2>1. ~(pc' # "idle")
    OBVIOUS
  <2> QED
    BY <2>1 DEF Late
<1> QED
  BY <1>3, <1>4, <1>6, <1>7 DEF Placed

(* At the receipt no packet has been taken.                                *)
LEMMA ReceivePlaced ==
  ASSUME Inv, Placed, Receive
  PROVE  Placed'
<1>1. /\ pc = "idle" /\ pc' = "dfc" /\ next' = 1 /\ flow' = flow
      /\ UNCHANGED <<map, missed, batches, sent, lost>>
  BY DEF Receive, At, Goto, result
<1>2. map = <<>> /\ missed = <<>> /\ batches = <<>> /\ sent = <<>> /\ lost = {}
  BY <1>1 DEF Inv, Staged, Placed, Answering
<1>3. Early' = 0
  <2>1. Len(map') = 0 /\ next' - 1 = 0
    BY <1>1, <1>2
  <2> QED
    BY <1>1, <2>1 DEF Taken, Early
<1>4. Numbered'
  BY <1>1, <1>2 DEF Numbered
<1>5. Queueing'
  BY <1>1, <1>2, <1>3 DEF Queueing, Queues, Owned, Sorted, Disjoint, Within, Covers
<1>6. Answered' = {} /\ Slow' = {}
  BY <1>1, <1>2 DEF Slow, Answered
<1>7. Answering' /\ Waiting'
  BY <1>1, <1>2, <1>6 DEF Placed, Answering, Waiting
<1>8. Late'
  BY <1>1, <1>2 DEF Late
<1> QED
  BY <1>4, <1>5, <1>7, <1>8, ReceiveStands DEF Placed

(* When the batches have been executed, nothing is left of the batch.      *)
LEMMA FlushPlaced ==
  ASSUME Inv, Placed, Flush
  PROVE  Placed'
<1>1. /\ pc = "flush" /\ pc' = "idle" /\ keys' = <<>>
      /\ map' = <<>> /\ batches' = <<>> /\ sent' = <<>> /\ lost' = {} /\ missed' = <<>>
  BY DEF Flush, At, Goto, Inv, Staged
<1>2. Early' = 0
  <2>1. Len(keys') = 0 /\ Len(map') = 0 /\ pc' # "dfc"
    BY <1>1
  <2>2. Taken' = 0
    BY <2>1 DEF Taken
  <2> QED
    BY <2>1, <2>2 DEF Early
<1>3. Numbered' /\ Late'
  BY <1>1 DEF Numbered, Late
<1>4. Queueing'
  BY <1>1, <1>2 DEF Queueing, Queues, Owned, Sorted, Disjoint, Within, Covers
<1>5. Answered' = {} /\ Slow' = {}
  BY <1>1 DEF Slow, Answered
<1>6. Answering' /\ Waiting'
  BY <1>1, <1>5, EmptySeq DEF Answering, Waiting
<1>7. Standing'
  BY PmdStands DEF Placed, Pmd
<1> QED
  BY <1>3, <1>4, <1>6, <1>7 DEF Placed

-----------------------------------------------------------------------------
(* packet_batch_per_flow_init and _update: a packet received after those   *)
(* batched joins the batch of its flow, or begins one.                     *)
Knows(fl, bs) ==
  \A f \in Ids : fl[f].batch # Null =>
    fl[f].batch \in 1 .. Len(bs) /\ bs[fl[f].batch].flow = f

BatchesOf(fl, bs, S) ==
  /\ fl \in [Ids -> FlowType] /\ bs \in Seq(BatchEntry)
  /\ Knows(fl, bs) /\ Queues(fl, bs, S)

(* What BatchesOf says, part by part.                                      *)
LEMMA BatchesParts ==
  ASSUME NEW fl, NEW bs, NEW S, BatchesOf(fl, bs, S)
  PROVE  /\ fl \in [Ids -> FlowType] /\ bs \in Seq(BatchEntry) /\ Len(bs) \in Nat
         /\ Knows(fl, bs) /\ Owned(fl, bs) /\ Sorted(bs) /\ Disjoint(bs) /\ Within(bs, S)
         /\ Covers(bs, S)
         /\ \A i \in 1 .. Len(bs) : bs[i] \in BatchEntry /\ bs[i].flow \in Ids
                                    /\ bs[i].pkts \in Seq(Nat)
<1>1. bs \in Seq(BatchEntry)
  BY DEF BatchesOf
<1>2. \A i \in 1 .. Len(bs) : bs[i] \in BatchEntry
  BY <1>1
<1>3. \A b \in BatchEntry : b.flow \in Ids /\ b.pkts \in Seq(Nat)
  BY DEF BatchEntry
<1> QED
  BY <1>1, <1>2, <1>3 DEF BatchesOf, Queues

(* A batch of its own.                                                     *)
LEMMA BeginBatch ==
  ASSUME NEW fl, NEW bs, NEW S, BatchesOf(fl, bs, S), NEW p \in Nat, S \subseteq 0 .. p - 1,
         NEW f \in Ids, fl[f].batch = Null
  PROVE  BatchesOf([fl EXCEPT ![f].batch = Len(bs) + 1],
                   Append(bs, [flow |-> f, pkts |-> <<p>>]), S \cup {p})
<1> DEFINE n == Len(bs) + 1
           gl == [fl EXCEPT ![f].batch = n]
           e == [flow |-> f, pkts |-> <<p>>]
           cs == Append(bs, e)
<1>1. /\ fl \in [Ids -> FlowType] /\ bs \in Seq(BatchEntry) /\ Knows(fl, bs) /\ Owned(fl, bs)
      /\ Sorted(bs) /\ Disjoint(bs) /\ Within(bs, S) /\ Covers(bs, S)
      /\ n \in Nat \ {0} /\ Len(bs) \in Nat
      /\ \A i \in 1 .. Len(bs) : bs[i] \in BatchEntry /\ bs[i].flow \in Ids
  BY BatchesParts
<1>2. /\ gl \in [Ids -> FlowType] /\ gl[f].batch = n
      /\ \A g \in Ids : g # f => gl[g].batch = fl[g].batch
  <2> HIDE DEF n
  <2>1. gl[f] = [fl[f] EXCEPT !.batch = n] /\ fl[f] \in FlowType
    BY <1>1
  <2>2. gl[f] \in FlowType /\ gl[f].batch = n
    BY <1>1, <2>1 DEF FlowType
  <2>3. DOMAIN gl = Ids /\ \A g \in Ids : g # f => gl[g] = fl[g]
    BY <1>1
  <2>4. gl \in [Ids -> FlowType]
    <3>1. gl = [g \in Ids |-> gl[g]]
      BY <1>1
    <3>2. \A g \in Ids : gl[g] \in FlowType
      BY <1>1, <2>2, <2>3
    <3> HIDE DEF gl
    <3> QED
      BY <3>1, <3>2
  <2> QED
    BY <2>2, <2>3, <2>4
<1>3. e \in BatchEntry /\ e.flow = f /\ Len(e.pkts) = 1 /\ e.pkts[1] = p
  BY DEF BatchEntry
<1> HIDE DEF e
<1>4. /\ cs \in Seq(BatchEntry) /\ Len(cs) = n /\ cs[n] = e
      /\ \A i \in 1 .. Len(bs) : cs[i] = bs[i]
  BY <1>1, <1>3
<1>5. /\ \A i \in 1 .. Len(cs) : i \in 1 .. Len(bs) \/ i = n
      /\ 1 .. Len(bs) \subseteq 1 .. Len(cs) /\ n \in 1 .. Len(cs) /\ n \notin 1 .. Len(bs)
  BY <1>1, <1>4
<1> HIDE DEF n, gl, cs
<1>6. \A i \in 1 .. Len(bs) : bs[i].flow \in Ids /\ bs[i].flow # f
  BY <1>1 DEF Owned, Null
<1>7. Knows(gl, cs)
  BY <1>1, <1>2, <1>3, <1>4, <1>5 DEF Knows
<1>8. Owned(gl, cs)
  BY <1>1, <1>2, <1>3, <1>4, <1>5, <1>6 DEF Owned
<1>9. \A j \in 1 .. Len(cs[n].pkts) : j = 1 /\ cs[n].pkts[j] = p
  <2>1. cs[n].pkts = e.pkts /\ \A j \in 1 .. 1 : j = 1
    BY <1>4
  <2> QED
    BY <1>3, <2>1
<1>10. \A i \in 1 .. Len(bs) : \A j \in 1 .. Len(cs[i].pkts) : cs[i].pkts[j] \in S
  BY <1>1, <1>4 DEF Within
<1>11. Sorted(cs)
  <2>1. ASSUME NEW i \in 1 .. Len(cs), NEW j \in 1 .. Len(cs[i].pkts),
               NEW k \in 1 .. Len(cs[i].pkts), j < k
        PROVE  cs[i].pkts[j] < cs[i].pkts[k]
    <3>1. CASE i \in 1 .. Len(bs)
      BY <1>1, <1>4, <2>1, <3>1 DEF Sorted
    <3>2. CASE i = n
      BY <1>9, <2>1, <3>2
    <3> QED
      BY <1>5, <3>1, <3>2
  <2> QED
    BY <2>1 DEF Sorted
<1>12. Within(cs, S \cup {p})
  BY <1>5, <1>9, <1>10 DEF Within
<1>13. Disjoint(cs)
  <2>1. ASSUME NEW i \in 1 .. Len(cs), NEW k \in 1 .. Len(cs), i # k,
               NEW j \in 1 .. Len(cs[i].pkts), NEW l \in 1 .. Len(cs[k].pkts)
        PROVE  cs[i].pkts[j] # cs[k].pkts[l]
    <3>1. p \notin S
      OBVIOUS
    <3>2. CASE i \in 1 .. Len(bs) /\ k \in 1 .. Len(bs)
      <4>1. cs[i] = bs[i] /\ cs[k] = bs[k]
        BY <1>4, <3>2
      <4>2. j \in 1 .. Len(bs[i].pkts) /\ l \in 1 .. Len(bs[k].pkts)
        BY <4>1
      <4>3. bs[i].pkts[j] # bs[k].pkts[l]
        BY <1>1, <2>1, <3>2, <4>2 DEF Disjoint
      <4> QED
        BY <4>1, <4>3
    <3>3. CASE i = n /\ k \in 1 .. Len(bs)
      <4>1. cs[i].pkts[j] = p /\ cs[k].pkts[l] \in S
        BY <1>9, <1>10, <3>3
      <4> QED
        BY <3>1, <4>1
    <3>4. CASE k = n /\ i \in 1 .. Len(bs)
      <4>1. cs[k].pkts[l] = p /\ cs[i].pkts[j] \in S
        BY <1>9, <1>10, <3>4
      <4> QED
        BY <3>1, <4>1
    <3> QED
      BY <1>5, <2>1, <3>2, <3>3, <3>4
  <2> QED
    BY <2>1 DEF Disjoint
<1>14. Covers(cs, S \cup {p})
  <2>1. ASSUME NEW s \in S \cup {p}
        PROVE  \E i \in 1 .. Len(cs) : \E j \in 1 .. Len(cs[i].pkts) : cs[i].pkts[j] = s
    <3>1. CASE s \in S
      <4>1. PICK i \in 1 .. Len(bs) : \E j \in 1 .. Len(bs[i].pkts) : bs[i].pkts[j] = s
        BY <1>1, <3>1 DEF Covers
      <4>2. cs[i] = bs[i] /\ i \in 1 .. Len(cs)
        BY <1>4, <1>5
      <4> QED
        BY <4>1, <4>2
    <3>2. CASE s = p
      <4>1. cs[n].pkts[1] = s /\ 1 \in 1 .. Len(cs[n].pkts) /\ n \in 1 .. Len(cs)
        BY <1>3, <1>4, <1>5, <3>2
      <4> QED
        BY <4>1
    <3> QED
      BY <3>1, <3>2
  <2> QED
    BY <2>1 DEF Covers
<1> QED
  BY <1>2, <1>4, <1>7, <1>8, <1>11, <1>12, <1>13, <1>14 DEF BatchesOf, Queues, gl, cs, e, n

(* The batch the flow has.                                                 *)
LEMMA JoinBatch ==
  ASSUME NEW fl, NEW bs, NEW S, BatchesOf(fl, bs, S), NEW p \in Nat, S \subseteq 0 .. p - 1,
         NEW n \in 1 .. Len(bs)
  PROVE  BatchesOf(fl, [bs EXCEPT ![n].pkts = Append(bs[n].pkts, p)], S \cup {p})
<1> DEFINE q == Append(bs[n].pkts, p)
           e == [bs[n] EXCEPT !.pkts = q]
           cs == [bs EXCEPT ![n] = e]
           m == Len(bs[n].pkts)
<1>1. /\ fl \in [Ids -> FlowType] /\ bs \in Seq(BatchEntry) /\ Knows(fl, bs) /\ Owned(fl, bs)
      /\ Sorted(bs) /\ Disjoint(bs) /\ Within(bs, S) /\ Covers(bs, S)
      /\ bs[n] \in BatchEntry /\ bs[n].pkts \in Seq(Nat)
  BY BatchesParts
<1>2. /\ q \in Seq(Nat) /\ Len(q) = m + 1 /\ q[m + 1] = p /\ m \in Nat
      /\ m + 1 \in 1 .. Len(q) /\ 1 .. m \subseteq 1 .. Len(q)
      /\ \A j \in 1 .. m : q[j] = bs[n].pkts[j]
      /\ \A j \in 1 .. Len(q) : j \in 1 .. m \/ j = m + 1
  BY <1>1, AppendFacts
<1> HIDE DEF q
<1>3. e \in BatchEntry /\ e.flow = bs[n].flow /\ e.pkts = q
  BY <1>1, <1>2 DEF BatchEntry
<1> HIDE DEF e
<1>4. /\ cs \in Seq(BatchEntry) /\ Len(cs) = Len(bs) /\ cs[n] = e
      /\ \A i \in 1 .. Len(bs) : i # n => cs[i] = bs[i]
  BY <1>1, <1>3, ExceptFacts
<1> HIDE DEF cs
<1>5. \A i \in 1 .. Len(bs) : cs[i].flow = bs[i].flow
  BY <1>3, <1>4
<1>6. Knows(fl, cs) /\ Owned(fl, cs)
  BY <1>1, <1>4, <1>5 DEF Knows, Owned
<1>7. \A j \in 1 .. m : q[j] \in S
  BY <1>1, <1>2 DEF Within
<1>8. p \notin S
  OBVIOUS
<1>9. Sorted(cs)
  <2>1. ASSUME NEW j \in 1 .. Len(q), NEW k \in 1 .. Len(q), j < k
        PROVE  q[j] < q[k]
    <3>1. j \in 1 .. m
      BY <1>2, <2>1
    <3>2. CASE k \in 1 .. m
      <4>1. bs[n].pkts[j] < bs[n].pkts[k]
        BY <1>1, <2>1, <3>1, <3>2 DEF Sorted
      <4> QED
        BY <1>2, <3>1, <3>2, <4>1
    <3>3. CASE k = m + 1
      <4>1. q[j] \in 0 .. p - 1 /\ q[k] = p
        BY <1>2, <1>7, <3>1, <3>3
      <4> QED
        BY <4>1
    <3> QED
      BY <1>2, <3>2, <3>3
  <2>2. ASSUME NEW i \in 1 .. Len(cs), NEW j \in 1 .. Len(cs[i].pkts),
               NEW k \in 1 .. Len(cs[i].pkts), j < k
        PROVE  cs[i].pkts[j] < cs[i].pkts[k]
    <3>1. CASE i = n
      BY <1>3, <1>4, <2>1, <2>2, <3>1
    <3>2. CASE i # n
      BY <1>1, <1>4, <2>2, <3>2 DEF Sorted
    <3> QED
      BY <3>1, <3>2
  <2> QED
    BY <2>2 DEF Sorted
<1>10. Within(cs, S \cup {p})
  <2>1. ASSUME NEW i \in 1 .. Len(cs), NEW j \in 1 .. Len(cs[i].pkts)
        PROVE  cs[i].pkts[j] \in S \cup {p}
    <3>1. CASE i = n
      BY <1>2, <1>3, <1>4, <1>7, <3>1
    <3>2. CASE i # n
      BY <1>1, <1>4, <3>2 DEF Within
    <3> QED
      BY <3>1, <3>2
  <2> QED
    BY <2>1 DEF Within
<1>11. Disjoint(cs)
  <2>1. ASSUME NEW i \in 1 .. Len(bs), i # n, NEW j \in 1 .. Len(bs[i].pkts),
               NEW l \in 1 .. Len(q)
        PROVE  bs[i].pkts[j] # q[l]
    <3>1. bs[i].pkts[j] \in S
      BY <1>1 DEF Within
    <3>2. CASE l \in 1 .. m
      <4>1. bs[i].pkts[j] # bs[n].pkts[l]
        BY <1>1, <2>1, <3>2 DEF Disjoint
      <4> QED
        BY <1>2, <3>2, <4>1
    <3>3. CASE l = m + 1
      BY <1>2, <1>8, <3>1, <3>3
    <3> QED
      BY <1>2, <3>2, <3>3
  <2>2. ASSUME NEW i \in 1 .. Len(cs), NEW k \in 1 .. Len(cs), i # k,
               NEW j \in 1 .. Len(cs[i].pkts), NEW l \in 1 .. Len(cs[k].pkts)
        PROVE  cs[i].pkts[j] # cs[k].pkts[l]
    <3>1. CASE i # n /\ k # n
      <4>1. cs[i] = bs[i] /\ cs[k] = bs[k] /\ i \in 1 .. Len(bs) /\ k \in 1 .. Len(bs)
        BY <1>4, <3>1
      <4>2. j \in 1 .. Len(bs[i].pkts) /\ l \in 1 .. Len(bs[k].pkts)
        BY <4>1
      <4>3. bs[i].pkts[j] # bs[k].pkts[l]
        BY <1>1, <2>2, <4>1, <4>2 DEF Disjoint
      <4> QED
        BY <4>1, <4>3
    <3>2. CASE i = n
      <4>1. cs[i].pkts = q /\ cs[k] = bs[k] /\ k \in 1 .. Len(bs) /\ k # n
        BY <1>3, <1>4, <2>2, <3>2
      <4>2. j \in 1 .. Len(q) /\ l \in 1 .. Len(bs[k].pkts)
        BY <4>1
      <4>3. bs[k].pkts[l] # q[j]
        BY <2>1, <4>1, <4>2
      <4> QED
        BY <4>1, <4>3
    <3>3. CASE k = n
      <4>1. cs[k].pkts = q /\ cs[i] = bs[i] /\ i \in 1 .. Len(bs) /\ i # n
        BY <1>3, <1>4, <2>2, <3>3
      <4>2. l \in 1 .. Len(q) /\ j \in 1 .. Len(bs[i].pkts)
        BY <4>1
      <4>3. bs[i].pkts[j] # q[l]
        BY <2>1, <4>1, <4>2
      <4> QED
        BY <4>1, <4>3
    <3> QED
      BY <3>1, <3>2, <3>3
  <2> QED
    BY <2>2 DEF Disjoint
<1>12. Covers(cs, S \cup {p})
  <2>1. ASSUME NEW s \in S \cup {p}
        PROVE  \E i \in 1 .. Len(cs) : \E j \in 1 .. Len(cs[i].pkts) : cs[i].pkts[j] = s
    <3>1. CASE s \in S
      <4>1. PICK i \in 1 .. Len(bs) : \E j \in 1 .. Len(bs[i].pkts) : bs[i].pkts[j] = s
        BY <1>1, <3>1 DEF Covers
      <4>2. PICK j \in 1 .. Len(bs[i].pkts) : bs[i].pkts[j] = s
        BY <4>1
      <4>3. CASE i = n
        <5>1. j \in 1 .. Len(cs[n].pkts) /\ cs[n].pkts[j] = s /\ n \in 1 .. Len(cs)
          BY <1>2, <1>3, <1>4, <4>2, <4>3
        <5> QED
          BY <5>1
      <4>4. CASE i # n
        BY <1>4, <4>2, <4>4
      <4> QED
        BY <4>3, <4>4
    <3>2. CASE s = p
      <4>1. m + 1 \in 1 .. Len(cs[n].pkts) /\ cs[n].pkts[m + 1] = s /\ n \in 1 .. Len(cs)
        BY <1>2, <1>3, <1>4, <3>2
      <4> QED
        BY <4>1
    <3> QED
      BY <3>1, <3>2
  <2> QED
    BY <2>1 DEF Covers
<1>13. cs = [bs EXCEPT ![n].pkts = Append(bs[n].pkts, p)]
  BY <1>1 DEF cs, e, q
<1>14. BatchesOf(fl, cs, S \cup {p})
  BY <1>1, <1>4, <1>6, <1>9, <1>10, <1>11, <1>12 DEF BatchesOf, Queues
<1> QED
  BY <1>13, <1>14

LEMMA QueueMore ==
  ASSUME NEW fl, NEW bs, NEW S, BatchesOf(fl, bs, S), NEW p \in Nat, S \subseteq 0 .. p - 1,
         NEW f \in Ids
  PROVE  LET q == QueueBatch([fl |-> fl, batches |-> bs], p, f) IN
         BatchesOf(q.fl, q.batches, S \cup {p})
<1> DEFINE q == QueueBatch([fl |-> fl, batches |-> bs], p, f)
<1>1. CASE fl[f].batch = Null
  <2>1. /\ q.fl = [fl EXCEPT ![f].batch = Len(bs) + 1]
        /\ q.batches = Append(bs, [flow |-> f, pkts |-> <<p>>])
    BY <1>1 DEF QueueBatch
  <2>2. BatchesOf([fl EXCEPT ![f].batch = Len(bs) + 1],
                  Append(bs, [flow |-> f, pkts |-> <<p>>]), S \cup {p})
    BY <1>1, BeginBatch
  <2> HIDE DEF q
  <2>3. BatchesOf(q.fl, q.batches, S \cup {p})
    BY <2>1, <2>2
  <2> QED
    BY <2>3 DEF q
<1>2. CASE fl[f].batch # Null
  <2> DEFINE n == fl[f].batch
  <2>1. n \in 1 .. Len(bs)
    BY <1>2 DEF BatchesOf, Knows
  <2>2. q.fl = fl /\ q.batches = [bs EXCEPT ![n].pkts = Append(bs[n].pkts, p)]
    BY <1>2 DEF QueueBatch
  <2> HIDE DEF n, q
  <2>3. BatchesOf(fl, [bs EXCEPT ![n].pkts = Append(bs[n].pkts, p)], S \cup {p})
    BY <2>1, JoinBatch
  <2>4. BatchesOf(q.fl, q.batches, S \cup {p})
    BY <2>2, <2>3
  <2> QED
    BY <2>4 DEF q
<1> QED
  BY <1>1, <1>2

-----------------------------------------------------------------------------
(* Induction over the numbers, without an operator as a parameter: the set *)
(* of the numbers that have the property.                                  *)
LEMMA AllNat ==
  ASSUME NEW S, 0 \in S, \A n \in Nat : n \in S => n + 1 \in S
  PROVE  Nat \subseteq S
<1> DEFINE T == Nat \ S
           R == OpToRel(<, Nat)
<1> SUFFICES ASSUME T # {}
             PROVE  FALSE
  OBVIOUS
<1>1. IsWellFoundedOn(R, Nat)
  BY NatLessThanWellFounded
<1>2. \A x, y \in Nat : x < y => <<x, y>> \in R
  BY DEF OpToRel
<1>3. T \subseteq Nat
  OBVIOUS
<1> HIDE DEF R
<1> HIDE DEF T
<1>4. PICK x \in T : \A y \in T : ~ (<<y, x>> \in R)
  BY <1>1, <1>3, WFMin
<1> USE DEF T
<1>5. x # 0 /\ x \in Nat
  BY <1>4
<1>6. x - 1 \in Nat /\ x - 1 < x /\ (x - 1) + 1 = x
  BY <1>5
<1>7. x - 1 \in S
  BY <1>2, <1>4, <1>5, <1>6
<1> QED
  BY <1>4, <1>6, <1>7

(* The fold of the library takes the last element of a sequence last.      *)
LEMMA LastMax ==
  ASSUME NEW n \in Nat, NEW s \in SUBSET (1 .. n + 1), n + 1 \in s
  PROVE  Max(s) = n + 1
<1>1. \A y \in s : n + 1 >= y /\ y \in Nat
  OBVIOUS
<1> DEFINE m == Max(s)
<1>2. m \in s /\ \A y \in s : m >= y
  BY <1>1 DEF Max
<1> HIDE DEF m
<1>3. m >= n + 1 /\ n + 1 >= m /\ m \in Nat
  BY <1>1, <1>2
<1>4. m = n + 1
  BY <1>3
<1> QED
  BY <1>4 DEF m

(* An element of flow_map goes to its flow's batch.                        *)
Step(b, e) == IF e.flow = Null THEN b ELSE QueueBatch(b, e.pkt, e.flow)

Folding(g, base, sq, n) ==
  g = [s \in SUBSET (1 .. n) |->
         IF s = {} THEN base ELSE Step(g[s \ {Max(s)}], sq[Max(s)])]

LEMMA FoldExists ==
  ASSUME NEW base, NEW sq, NEW n \in Nat
  PROVE  \E g : Folding(g, base, sq, n)
<1> DEFINE S == {k \in Nat : \E g : Folding(g, base, sq, k)}
<1>1. 0 \in S
  <2>1. SUBSET (1 .. 0) = {{}}
    OBVIOUS
  <2>2. Folding([s \in SUBSET (1 .. 0) |-> base], base, sq, 0)
    BY <2>1 DEF Folding
  <2> QED
    BY <2>2
<1>2. ASSUME NEW k \in Nat, k \in S
      PROVE  k + 1 \in S
  <2>1. PICK g : Folding(g, base, sq, k)
    BY <1>2
  <2> DEFINE h == [s \in SUBSET (1 .. k + 1) |->
                     IF k + 1 \in s THEN Step(g[s \ {k + 1}], sq[k + 1]) ELSE g[s]]
  <2>2. ASSUME NEW s \in SUBSET (1 .. k + 1)
        PROVE  h[s] = IF s = {} THEN base ELSE Step(h[s \ {Max(s)}], sq[Max(s)])
    <3>1. CASE k + 1 \in s
      <4>1. Max(s) = k + 1 /\ s # {}
        BY <3>1, LastMax
      <4>2. s \ {k + 1} \in SUBSET (1 .. k + 1) /\ k + 1 \notin s \ {k + 1}
        OBVIOUS
      <4>3. h[s \ {k + 1}] = g[s \ {k + 1}]
        BY <4>2
      <4>4. h[s] = Step(g[s \ {k + 1}], sq[k + 1])
        BY <3>1
      <4> HIDE DEF h
      <4> QED
        BY <4>1, <4>3, <4>4
    <3>2. CASE k + 1 \notin s
      <4>1. s \in SUBSET (1 .. k)
        BY <3>2
      <4>2. g[s] = IF s = {} THEN base ELSE Step(g[s \ {Max(s)}], sq[Max(s)])
        BY <2>1, <4>1 DEF Folding
      <4>3. h[s] = g[s]
        BY <3>2
      <4>4. k + 1 \notin s \ {Max(s)} /\ s \ {Max(s)} \in SUBSET (1 .. k + 1)
        BY <3>2
      <4>5. h[s \ {Max(s)}] = g[s \ {Max(s)}]
        BY <4>4
      <4> HIDE DEF h
      <4> QED
        BY <4>2, <4>3, <4>5
    <3> QED
      BY <3>1, <3>2
  <2>3. h = [s \in SUBSET (1 .. k + 1) |-> h[s]]
    OBVIOUS
  <2> HIDE DEF h
  <2>4. Folding(h, base, sq, k + 1)
    BY <2>2, <2>3 DEF Folding
  <2> QED
    BY <2>4
<1> HIDE DEF S
<1>3. n \in S
  BY <1>1, <1>2, AllNat
<1> QED
  BY <1>3 DEF S

(* The fold of Batched takes the elements of flow_map one by one.          *)
LEMMA BatchedSteps ==
  ASSUME DOMAIN map = 1 .. Len(map), Len(map) \in Nat
  PROVE  \E it : /\ it[0] = [fl |-> flow, batches |-> batches]
                 /\ \A k \in 1 .. Len(map) : it[k] = Step(it[k - 1], map[k])
                 /\ Batched = it[Len(map)]
<1> DEFINE base == [fl |-> flow, batches |-> batches]
           n == Len(map)
           g == CHOOSE iter : iter = [s \in SUBSET (1 .. n) |->
                  IF s = {} THEN base ELSE Step(iter[s \ {Max(s)}], map[Max(s)])]
           it == [k \in 0 .. n |-> g[1 .. k]]
<1>1. Folding(g, base, map, n)
  <2>1. \E iter : Folding(iter, base, map, n)
    BY FoldExists
  <2> QED
    BY <2>1 DEF Folding
<1>2. Batched = g[1 .. n]
  BY DEF Batched, FoldLeft, MapThenFoldSet, Step
<1> HIDE DEF g
<1>3. it[0] = base
  <2>1. 1 .. 0 = {} /\ {} \in SUBSET (1 .. n)
    OBVIOUS
  <2>2. g[{}] = base
    BY <1>1, <2>1 DEF Folding
  <2> QED
    BY <2>1, <2>2
<1>4. ASSUME NEW k \in 1 .. n
      PROVE  it[k] = Step(it[k - 1], map[k])
  <2>1. (1 .. k) \in SUBSET (1 .. n) /\ (1 .. k) # {} /\ k - 1 \in Nat /\ k - 1 \in 0 .. n
        /\ k \in 0 .. n
    OBVIOUS
  <2>2. Max(1 .. k) = k
    <3>1. (1 .. k) \in SUBSET (1 .. (k - 1) + 1) /\ (k - 1) + 1 \in 1 .. k /\ (k - 1) + 1 = k
      BY <2>1
    <3> QED
      BY <2>1, <3>1, LastMax
  <2>3. (1 .. k) \ {k} = 1 .. k - 1
    OBVIOUS
  <2>4. g[1 .. k] = Step(g[(1 .. k) \ {Max(1 .. k)}], map[Max(1 .. k)])
    BY <1>1, <2>1 DEF Folding
  <2> QED
    BY <2>1, <2>2, <2>3, <2>4
<1>5. Batched = it[n]
  BY <1>2
<1> HIDE DEF it
<1> QED
  BY <1>3, <1>4, <1>5

(* So the batches executed have the packets that are in flow_map with a    *)
(* flow besides those they had.                                            *)
Mappings == {map[i].pkt : i \in {j \in 1 .. Len(map) : map[j].flow # Null}}

LEMMA BatchedQueues ==
  ASSUME Inv, BatchesOf(flow, batches, 1 .. Early), Early \in Nat,
         \A i \in 1 .. Len(map) : map[i].pkt = Early + i
  PROVE  \E fl : BatchesOf(fl, Batched.batches, (1 .. Early) \cup Mappings)
<1> DEFINE Set(k) == (1 .. Early) \cup {map[i].pkt : i \in {j \in 1 .. k : map[j].flow # Null}}
<1>1. /\ map \in Seq(MapEntry) /\ DOMAIN map = 1 .. Len(map) /\ Len(map) \in Nat
      /\ \A i \in 1 .. Len(map) : map[i].flow \in Ids \cup {Null} /\ map[i].pkt \in Nat
  BY InvTypes, Elements DEF Ref
<1>2. PICK it : /\ it[0] = [fl |-> flow, batches |-> batches]
                /\ \A k \in 1 .. Len(map) : it[k] = Step(it[k - 1], map[k])
                /\ Batched = it[Len(map)]
  BY <1>1, BatchedSteps
<1> DEFINE Good(k) == \E fl, bs : it[k] = [fl |-> fl, batches |-> bs] /\ BatchesOf(fl, bs, Set(k))
           S == {k \in Nat : k <= Len(map) => Good(k)}
<1>3. 0 \in S
  <2>1. Set(0) = 1 .. Early
    OBVIOUS
  <2>2. Good(0)
    BY <1>2, <2>1
  <2> QED
    BY <2>2
<1>4. ASSUME NEW k \in Nat, k \in S
      PROVE  k + 1 \in S
  <2>0. k <= Len(map) => Good(k)
    <3> HIDE DEF Good
    <3> QED
      BY <1>4
  <2> SUFFICES ASSUME k + 1 <= Len(map)
               PROVE  Good(k + 1)
    <3> HIDE DEF Good
    <3> QED
      OBVIOUS
  <2>1. k + 1 \in 1 .. Len(map) /\ (k + 1) - 1 = k /\ k <= Len(map)
    BY <1>1
  <2>2. PICK fl, bs : it[k] = [fl |-> fl, batches |-> bs] /\ BatchesOf(fl, bs, Set(k))
    BY <2>0, <2>1
  <2>3. it[k + 1] = Step(it[k], map[k + 1])
    BY <1>2, <2>1
  <2> DEFINE p == map[k + 1].pkt
             f == map[k + 1].flow
  <2>4. CASE f = Null
    <3>1. Set(k + 1) = Set(k)
      <4>1. \A i \in 1 .. k + 1 : i \in 1 .. k \/ i = k + 1
        OBVIOUS
      <4>2. {j \in 1 .. k + 1 : map[j].flow # Null} = {j \in 1 .. k : map[j].flow # Null}
        BY <2>4, <4>1
      <4> QED
        BY <4>2
    <3>2. it[k + 1] = it[k]
      BY <2>3, <2>4 DEF Step
    <3> HIDE DEF Set
    <3> QED
      BY <2>2, <3>1, <3>2
  <2>5. CASE f # Null
    <3>1. f \in Ids /\ p \in Nat /\ p = Early + (k + 1)
      BY <1>1, <2>1, <2>5
    <3>2. Set(k) \subseteq 0 .. p - 1
      <4>1. ASSUME NEW i \in 1 .. k
            PROVE  map[i].pkt \in 0 .. p - 1
        <5>1. map[i].pkt = Early + i
          BY <2>1
        <5> QED
          BY <3>1, <5>1
      <4> HIDE DEF p
      <4> QED
        BY <3>1, <4>1
    <3>3. Set(k + 1) = Set(k) \cup {p}
      <4>1. \A i \in 1 .. k + 1 : i \in 1 .. k \/ i = k + 1
        OBVIOUS
      <4>2. {j \in 1 .. k + 1 : map[j].flow # Null}
              = {j \in 1 .. k : map[j].flow # Null} \cup {k + 1}
        BY <2>5, <4>1
      <4> QED
        BY <4>2
    <3>4. it[k + 1] = QueueBatch([fl |-> fl, batches |-> bs], p, f)
      BY <2>2, <2>3, <2>5 DEF Step
    <3> HIDE DEF p, f, Set
    <3> DEFINE q == QueueBatch([fl |-> fl, batches |-> bs], p, f)
    <3>5. BatchesOf(q.fl, q.batches, Set(k) \cup {p})
      BY <2>2, <3>1, <3>2, QueueMore
    <3>6. q = [fl |-> q.fl, batches |-> q.batches]
      BY DEF QueueBatch
    <3> HIDE DEF q
    <3>7. it[k + 1] = q
      BY <3>4 DEF q
    <3> QED
      BY <3>3, <3>5, <3>6, <3>7
  <2> QED
    BY <2>4, <2>5
<1> HIDE DEF Good
<1> HIDE DEF S
<1>5. Len(map) \in S
  BY <1>1, <1>3, <1>4, AllNat
<1>6. Good(Len(map))
  BY <1>1, <1>5 DEF S
<1>7. Set(Len(map)) = (1 .. Early) \cup Mappings
  BY DEF Mappings
<1> HIDE DEF Set
<1> USE DEF Good
<1>8. PICK fl, bs : it[Len(map)] = [fl |-> fl, batches |-> bs] /\ BatchesOf(fl, bs, Set(Len(map)))
  BY <1>6
<1>9. Batched.batches = bs
  BY <1>2, <1>8
<1> QED
  BY <1>7, <1>8, <1>9

-----------------------------------------------------------------------------
(* The batches executed one after the other: each packet of o is in one    *)
(* place of the sequences ss, row and column, and they are in order.       *)
Flat(o, ss, n, row, col) ==
  /\ \A k \in 1 .. Len(o) :
       row[k] \in 1 .. n /\ col[k] \in 1 .. Len(ss[row[k]]) /\ o[k] = ss[row[k]][col[k]]
  /\ \A k, l \in 1 .. Len(o) : k < l =>
       row[k] < row[l] \/ (row[k] = row[l] /\ col[k] < col[l])
  /\ \A i \in 1 .. n : \A j \in 1 .. Len(ss[i]) :
       \E k \in 1 .. Len(o) : row[k] = i /\ col[k] = j

LEMMA ConcatFacts ==
  ASSUME NEW S, NEW s \in Seq(S), NEW t \in Seq(S)
  PROVE  /\ s \o t \in Seq(S) /\ Len(s \o t) = Len(s) + Len(t)
         /\ Len(s) \in Nat /\ Len(t) \in Nat
         /\ \A k \in 1 .. Len(s) : (s \o t)[k] = s[k]
         /\ \A k \in 1 .. Len(t) : (s \o t)[Len(s) + k] = t[k]
<1>1. Len(s) \in Nat /\ Len(t) \in Nat /\ s \o t \in Seq(S) /\ Len(s \o t) = Len(s) + Len(t)
  OBVIOUS
<1>2. \A k \in 1 .. Len(s) : (s \o t)[k] = s[k]
  OBVIOUS
<1>3. ASSUME NEW k \in 1 .. Len(t)
      PROVE  (s \o t)[Len(s) + k] = t[k]
  <2>1. Len(s) + k \in 1 .. Len(s) + Len(t) /\ ~(Len(s) + k <= Len(s)) /\ (Len(s) + k) - Len(s) = k
    BY <1>1
  <2> QED
    BY <1>1, <2>1
<1> QED
  BY <1>1, <1>2, <1>3

(* One sequence more.                                                      *)
LEMMA FlatMore ==
  ASSUME NEW S, NEW ss \in Seq(Seq(S)), NEW n \in Nat, n + 1 <= Len(ss), NEW o \in Seq(S),
         NEW row, NEW col, Flat(o, ss, n, row, col)
  PROVE  /\ o \o ss[n + 1] \in Seq(S)
         /\ \E r, c : Flat(o \o ss[n + 1], ss, n + 1, r, c)
<1> DEFINE x == ss[n + 1]
           t == o \o x
           m == Len(o)
           r == [k \in 1 .. Len(t) |-> IF k <= m THEN row[k] ELSE n + 1]
           c == [k \in 1 .. Len(t) |-> IF k <= m THEN col[k] ELSE k - m]
<1>1. x \in Seq(S) /\ n + 1 \in 1 .. Len(ss)
  OBVIOUS
<1>2. /\ t \in Seq(S) /\ Len(t) = m + Len(x) /\ m \in Nat /\ Len(x) \in Nat
      /\ \A k \in 1 .. m : t[k] = o[k]
      /\ \A k \in 1 .. Len(x) : t[m + k] = x[k]
  BY <1>1, ConcatFacts
<1> HIDE DEF t
<1>3. \A k \in 1 .. m : k \in 1 .. Len(t) /\ r[k] = row[k] /\ c[k] = col[k]
  BY <1>2
<1>4. \A k \in 1 .. Len(x) : m + k \in 1 .. Len(t) /\ r[m + k] = n + 1 /\ c[m + k] = k
  BY <1>2
<1>5. \A k \in 1 .. Len(t) : k \in 1 .. m \/ (k > m /\ k - m \in 1 .. Len(x) /\ k = m + (k - m))
  BY <1>2
<1>6. \A k \in 1 .. m : row[k] \in 1 .. n /\ col[k] \in 1 .. Len(ss[row[k]])
                        /\ o[k] = ss[row[k]][col[k]]
  BY DEF Flat
<1> HIDE DEF r, c, x
<1>7. ASSUME NEW k \in 1 .. Len(t)
      PROVE  r[k] \in 1 .. n + 1 /\ c[k] \in 1 .. Len(ss[r[k]]) /\ t[k] = ss[r[k]][c[k]]
  <2>1. CASE k \in 1 .. m
    <3>1. r[k] = row[k] /\ c[k] = col[k] /\ t[k] = o[k]
      BY <1>2, <1>3, <2>1
    <3>2. /\ row[k] \in 1 .. n /\ col[k] \in 1 .. Len(ss[row[k]])
          /\ o[k] = ss[row[k]][col[k]]
      BY <1>6, <2>1
    <3>3. r[k] \in 1 .. n + 1
      BY <3>1, <3>2
    <3> QED
      BY <3>1, <3>2, <3>3
  <2>2. CASE k - m \in 1 .. Len(x) /\ k = m + (k - m)
    <3> DEFINE j == k - m
    <3>1. j \in 1 .. Len(x) /\ k = m + j
      BY <2>2
    <3> HIDE DEF j
    <3>2. r[k] = n + 1 /\ c[k] = j /\ t[k] = x[j]
      BY <1>2, <1>4, <3>1
    <3> QED
      BY <3>1, <3>2 DEF x
  <2> QED
    BY <1>5, <2>1, <2>2
<1>8. ASSUME NEW k \in 1 .. Len(t), NEW l \in 1 .. Len(t), k < l
      PROVE  r[k] < r[l] \/ (r[k] = r[l] /\ c[k] < c[l])
  <2>1. CASE k \in 1 .. m /\ l \in 1 .. m
    <3>1. row[k] < row[l] \/ (row[k] = row[l] /\ col[k] < col[l])
      BY <1>8, <2>1 DEF Flat
    <3> QED
      BY <1>3, <2>1, <3>1
  <2>2. CASE k \in 1 .. m /\ l \notin 1 .. m
    <3> DEFINE j == l - m
    <3>1. j \in 1 .. Len(x) /\ l = m + j
      BY <1>5, <2>2
    <3> HIDE DEF j
    <3>2. r[l] = n + 1 /\ r[k] = row[k] /\ row[k] \in 1 .. n
      BY <1>3, <1>4, <1>6, <2>2, <3>1
    <3> QED
      BY <3>2
  <2>3. CASE k \notin 1 .. m
    <3> DEFINE j == l - m
               i == k - m
    <3>1. l \notin 1 .. m
      BY <1>2, <1>8, <2>3
    <3>2. j \in 1 .. Len(x) /\ l = m + j /\ i \in 1 .. Len(x) /\ k = m + i
      BY <1>5, <2>3, <3>1
    <3>3. i < j
      BY <1>2, <1>8
    <3> HIDE DEF j, i
    <3>4. r[l] = n + 1 /\ c[l] = j /\ r[k] = n + 1 /\ c[k] = i
      BY <1>4, <3>2
    <3> QED
      BY <3>3, <3>4
  <2> QED
    BY <2>1, <2>2, <2>3
<1>9. ASSUME NEW i \in 1 .. n + 1, NEW j \in 1 .. Len(ss[i])
      PROVE  \E k \in 1 .. Len(t) : r[k] = i /\ c[k] = j
  <2>1. CASE i \in 1 .. n
    <3>1. PICK k \in 1 .. m : row[k] = i /\ col[k] = j
      BY <2>1 DEF Flat
    <3> QED
      BY <1>3, <3>1
  <2>2. CASE i = n + 1
    <3>1. j \in 1 .. Len(x)
      BY <2>2 DEF x
    <3>2. m + j \in 1 .. Len(t) /\ r[m + j] = i /\ c[m + j] = j
      BY <1>4, <2>2, <3>1
    <3> QED
      BY <3>2
  <2>3. i \in 1 .. n \/ i = n + 1
    OBVIOUS
  <2> QED
    BY <2>1, <2>2, <2>3
<1>10. Flat(t, ss, n + 1, r, c)
  BY <1>7, <1>8, <1>9 DEF Flat
<1> QED
  BY <1>2, <1>10 DEF t, x

(* The recursion of the library's definition.                              *)
Flattening(g, ss, n) ==
  g = [i \in 1 .. n |-> IF i = 1 THEN ss[i] ELSE g[i - 1] \o ss[i]]

LEMMA FlattenExists ==
  ASSUME NEW ss, NEW n \in Nat
  PROVE  \E g : Flattening(g, ss, n)
<1> DEFINE S == {k \in Nat : \E g : Flattening(g, ss, k)}
<1>1. 0 \in S
  <2>1. Flattening([i \in 1 .. 0 |-> 0], ss, 0)
    <3>1. 1 .. 0 = {}
      OBVIOUS
    <3> QED
      BY <3>1 DEF Flattening
  <2> QED
    BY <2>1
<1>2. ASSUME NEW k \in Nat, k \in S
      PROVE  k + 1 \in S
  <2>1. PICK g : Flattening(g, ss, k)
    BY <1>2
  <2> DEFINE v == IF k = 0 THEN ss[1] ELSE g[k] \o ss[k + 1]
             h == [i \in 1 .. k + 1 |-> IF i = k + 1 THEN v ELSE g[i]]
  <2>2. ASSUME NEW i \in 1 .. k + 1
        PROVE  h[i] = IF i = 1 THEN ss[i] ELSE h[i - 1] \o ss[i]
    <3>1. CASE i = k + 1 /\ k = 0
      BY <3>1
    <3>2. CASE i = k + 1 /\ k # 0
      <4>1. i - 1 = k /\ k \in 1 .. k + 1 /\ k # k + 1 /\ i # 1
        BY <3>2
      <4>2. h[k] = g[k] /\ h[i] = g[k] \o ss[k + 1]
        BY <3>2, <4>1
      <4> HIDE DEF h
      <4> QED
        BY <3>2, <4>1, <4>2
    <3>3. CASE i # k + 1
      <4>1. i \in 1 .. k /\ (i # 1 => i - 1 \in 1 .. k + 1 /\ i - 1 # k + 1)
        BY <3>3
      <4>2. g[i] = IF i = 1 THEN ss[i] ELSE g[i - 1] \o ss[i]
        BY <2>1, <4>1 DEF Flattening
      <4>3. h[i] = g[i] /\ (i # 1 => h[i - 1] = g[i - 1])
        BY <3>3, <4>1
      <4> HIDE DEF h
      <4> QED
        BY <4>2, <4>3
    <3> QED
      BY <3>1, <3>2, <3>3
  <2>3. h = [i \in 1 .. k + 1 |-> h[i]]
    OBVIOUS
  <2> HIDE DEF h
  <2>4. Flattening(h, ss, k + 1)
    BY <2>2, <2>3 DEF Flattening
  <2> QED
    BY <2>4
<1> HIDE DEF S
<1>3. n \in S
  BY <1>1, <1>2, AllNat
<1> QED
  BY <1>3 DEF S

(* What FlattenSeq returns.                                                *)
LEMMA Flattened ==
  ASSUME NEW S, NEW ss \in Seq(Seq(S))
  PROVE  /\ FlattenSeq(ss) \in Seq(S)
         /\ \E row, col : Flat(FlattenSeq(ss), ss, Len(ss), row, col)
<1> DEFINE n == Len(ss)
           g == CHOOSE f : f = [i \in 1 .. n |-> IF i = 1 THEN ss[i] ELSE f[i - 1] \o ss[i]]
           o(k) == IF k = 0 THEN <<>> ELSE g[k]
           Good(k) == o(k) \in Seq(S) /\ \E row, col : Flat(o(k), ss, k, row, col)
           T == {k \in Nat : k <= n => Good(k)}
<1>1. n \in Nat /\ \A i \in 1 .. n : ss[i] \in Seq(S)
  OBVIOUS
<1>2. Flattening(g, ss, n)
  <2>1. \E f : Flattening(f, ss, n)
    BY <1>1, FlattenExists
  <2> QED
    BY <2>1 DEF Flattening
<1>3. FlattenSeq(ss) = o(n)
  <2>1. CASE n = 0
    <3>1. ss = <<>>
      BY <2>1
    <3> QED
      BY <2>1, <3>1 DEF FlattenSeq
  <2>2. CASE n # 0
    BY <2>2 DEF FlattenSeq
  <2> QED
    BY <2>1, <2>2
<1> HIDE DEF g, n
<1>4. Good(0)
  <2>1. o(0) \in Seq(S) /\ Len(o(0)) = 0
    BY EmptySeq
  <2>2. Flat(o(0), ss, 0, <<>>, <<>>)
    BY <2>1 DEF Flat
  <2> QED
    BY <2>1, <2>2
<1>5. ASSUME NEW k \in Nat, k + 1 <= n, Good(k)
      PROVE  Good(k + 1)
  <2>1. k + 1 \in 1 .. n /\ k + 1 # 0
    BY <1>1, <1>5
  <2>2. ss[k + 1] \in Seq(S)
    BY <1>1, <2>1
  <2>3. o(k + 1) = o(k) \o ss[k + 1]
    <3>1. g[k + 1] = IF k + 1 = 1 THEN ss[k + 1] ELSE g[(k + 1) - 1] \o ss[k + 1]
      BY <1>2, <2>1 DEF Flattening
    <3>2. (k + 1) - 1 = k /\ (k + 1 = 1 <=> k = 0)
      OBVIOUS
    <3>3. <<>> \o ss[k + 1] = ss[k + 1]
      BY <2>2
    <3> QED
      BY <2>1, <3>1, <3>2, <3>3
  <2>4. PICK row, col : Flat(o(k), ss, k, row, col)
    BY <1>5
  <2>5. o(k) \in Seq(S) /\ k + 1 <= Len(ss)
    BY <1>5 DEF n
  <2> DEFINE p == o(k)
  <2> HIDE DEF p
  <2>6. /\ p \o ss[k + 1] \in Seq(S)
        /\ \E r, c : Flat(p \o ss[k + 1], ss, k + 1, r, c)
    <3>1. p \in Seq(S) /\ Flat(p, ss, k, row, col)
      BY <2>4, <2>5 DEF p
    <3> QED
      BY <2>5, <3>1, FlatMore
  <2> QED
    BY <2>3, <2>6 DEF p
<1> HIDE DEF Good
<1>6. 0 \in T
  BY <1>4
<1>7. ASSUME NEW k \in Nat, k \in T
      PROVE  k + 1 \in T
  BY <1>1, <1>5, <1>7
<1> HIDE DEF T
<1>8. n \in T
  BY <1>1, <1>6, <1>7, AllNat
<1>9. Good(n)
  BY <1>1, <1>8 DEF T
<1> QED
  BY <1>3, <1>9 DEF Good, n

-----------------------------------------------------------------------------
(* Where packets are, in figures.                                          *)
LEMMA PlacedFacts ==
  ASSUME Inv, Placed
  PROVE  /\ Early \in Nat /\ Early + Len(map) = Taken /\ Early <= Len(keys)
         /\ \A i \in 1 .. Len(map) : map[i].pkt = Early + i
         /\ \A j \in 1 .. Len(missed) :
              missed[j].at \in 1 .. Len(map) /\ missed[j].pkt = Early + missed[j].at
         /\ \A i, j \in 1 .. Len(missed) : i < j => missed[i].pkt < missed[j].pkt
         /\ \A i, j \in 1 .. Len(missed) :
              missed[i].pkt = missed[j].pkt \/ missed[i].at = missed[j].at => i = j
         /\ BatchesOf(flow, batches, 1 .. Early)
<1>1. /\ next \in Nat /\ Len(map) \in Nat /\ Len(keys) \in Nat /\ Len(missed) \in Nat
      /\ Len(map) <= Len(keys)
      /\ pc = "dfc" => next \in 1 .. Len(keys) /\ Len(map) + 1 <= next
  BY InvTypes DEF Inv, Staged
<1>2. Early \in Nat /\ Early + Len(map) = Taken /\ Early <= Len(keys)
  <2>1. CASE pc = "dfc"
    <3>1. Taken = next - 1
      BY <2>1 DEF Taken
    <3> QED
      BY <1>1, <2>1, <3>1 DEF Early
  <2>2. CASE pc # "dfc"
    <3>1. Taken = Len(keys)
      BY <2>2 DEF Taken
    <3> QED
      BY <1>1, <2>2, <3>1 DEF Early
  <2> QED
    BY <2>1, <2>2
<1>3. \A i \in 1 .. Len(map) : map[i].pkt = Early + i
  BY DEF Placed, Numbered
<1>4. \A j \in 1 .. Len(missed) :
        missed[j].at \in 1 .. Len(map) /\ missed[j].pkt = Early + missed[j].at
  BY <1>3, MissedPacket
<1>5. \A i, j \in 1 .. Len(missed) : i < j => missed[i].at < missed[j].at
  BY DEF Placed, Waiting
<1>6. ASSUME NEW i \in 1 .. Len(missed), NEW j \in 1 .. Len(missed)
      PROVE  /\ i < j => missed[i].pkt < missed[j].pkt
             /\ missed[i].pkt = missed[j].pkt \/ missed[i].at = missed[j].at => i = j
  <2> DEFINE a == missed[i].at
             b == missed[j].at
  <2>1. /\ a \in Nat /\ b \in Nat /\ missed[i].pkt = Early + a /\ missed[j].pkt = Early + b
        /\ i < j => a < b
        /\ j < i => b < a
        /\ i < j \/ j < i \/ i = j
    BY <1>4, <1>5
  <2> HIDE DEF a, b
  <2>2. i < j => Early + a < Early + b
    BY <1>2, <2>1
  <2>3. Early + a = Early + b => a = b
    BY <1>2, <2>1
  <2>4. a = b => i = j
    BY <2>1
  <2>5. /\ i < j => missed[i].pkt < missed[j].pkt
        /\ missed[i].pkt = missed[j].pkt \/ a = b => i = j
    BY <2>1, <2>2, <2>3, <2>4
  <2> QED
    BY <2>5 DEF a, b
<1>7. BatchesOf(flow, batches, 1 .. Early)
  BY InvTypes DEF Inv, Known, Knows, Placed, Queueing, BatchesOf
<1> QED
  BY <1>2, <1>3, <1>4, <1>6, <1>7

(* After dfc_processing the batches stay as they are.                      *)
LEMMA Unmoved ==
  ASSUME Inv, Placed, pc # "dfc", pc' # "dfc", UNCHANGED <<keys, batches>>, BatchKept,
         Len(map') = Len(map), \A i \in 1 .. Len(map) : map'[i].pkt = map[i].pkt
  PROVE  Early' = Early /\ Numbered' /\ Queueing'
<1>1. Early' = Early
  BY DEF Taken, Early
<1>2. Numbered'
  BY <1>1 DEF Placed, Numbered
<1>3. \A i \in 1 .. Len(batches) : batches[i].flow \in Ids
  BY Elements
<1>4. Owned(flow', batches)
  BY <1>3 DEF Placed, Queueing, Queues, Owned, BatchKept
<1>5. Queueing'
  BY <1>1, <1>4 DEF Placed, Queueing, Queues
<1> QED
  BY <1>1, <1>2, <1>5

(* As long as the slow path has executed nothing.                          *)
LEMMA NothingSent ==
  ASSUME sent' = <<>>
  PROVE  Late'
<1>1. \A p : Apart(p)'
  BY DEF Apart
<1> QED
  BY <1>1 DEF Late

(* dfc_processing takes the next packet, into a batch or into flow_map.    *)
LEMMA DfcTaken ==
  ASSUME Inv, Placed, Dfc
  PROVE  /\ Taken' = Taken + 1 /\ next = Taken + 1 /\ next \in Nat
         /\ UNCHANGED <<keys, sent, lost>> /\ sent = <<>> /\ lost = {}
         /\ pc = "dfc" /\ pc' \in {"dfc", "smc", "cls", "flush"}
         /\ pc' = "flush" => missed' = <<>>
<1>1. /\ pc = "dfc" /\ UNCHANGED <<keys, sent, lost>>
      /\ \/ next + 1 <= Len(keys) /\ pc' = pc /\ next' = next + 1
         \/ ~(next + 1 <= Len(keys)) /\ pc' \in {"smc", "cls", "flush"}
            /\ (pc' = "flush" => missed' = <<>>)
  BY DEF Dfc, At, stage, result, Loop, Goto
<1>2. next \in 1 .. Len(keys) /\ Len(keys) \in Nat /\ next \in Nat
  BY <1>1, InvTypes DEF Inv, Staged
<1>3. sent = <<>> /\ lost = {}
  BY <1>1 DEF Placed, Answering
<1>4. Taken = next - 1
  BY <1>1 DEF Taken
<1>5. Taken' = next
  <2>1. CASE pc' = "dfc" /\ next' = next + 1
    <3>1. Taken' = next' - 1
      BY <2>1 DEF Taken
    <3> QED
      BY <1>2, <2>1, <3>1
  <2>2. CASE pc' # "dfc" /\ ~(next + 1 <= Len(keys))
    <3>1. Taken' = Len(keys)
      BY <1>1, <2>2 DEF Taken
    <3> QED
      BY <1>2, <2>2, <3>1
  <2> QED
    BY <1>1, <2>1, <2>2
<1> QED
  BY <1>1, <1>2, <1>3, <1>4, <1>5

(* The slow path is yet to come.                                           *)
LEMMA DfcAnswering ==
  ASSUME Inv, Placed, Dfc
  PROVE  Answering' /\ Late' /\ Answered' = {} /\ Answered = {}
<1>1. /\ UNCHANGED <<sent, lost>> /\ sent = <<>> /\ lost = {}
      /\ pc' \in {"dfc", "smc", "cls", "flush"} /\ (pc' = "flush" => missed' = <<>>)
  BY DfcTaken
<1>2. Answered' = {} /\ Slow' = {} /\ Answered = {}
  BY <1>1 DEF Answered, Slow
<1>3. Seen' = 0
  BY <1>1 DEF Seen
<1>4. Answering'
  BY <1>1, <1>2, <1>3 DEF Answering, Placed
<1> QED
  BY <1>1, <1>2, <1>4, NothingSent

(* Before the first miss the packet joins a batch.                         *)
LEMMA DfcBatched ==
  ASSUME Inv, Placed, Dfc, NEW f \in DfcFlows, DfcHit(f), missed = <<>>
  PROVE  Numbered' /\ Queueing' /\ Waiting'
<1>1. pc = "dfc" /\ UNCHANGED <<map, missed, keys>> /\ map = <<>> /\ Len(map) = 0
      /\ next = Taken + 1 /\ Taken' = Taken + 1 /\ next \in Nat
  <2>1. pc = "dfc" /\ UNCHANGED <<map, missed>>
    BY DfcTaken DEF DfcHit
  <2>2. map = <<>>
    BY <2>1 DEF Placed, Numbered
  <2> QED
    BY <2>1, <2>2, DfcTaken
<1>2. f \in Ids
  <2>1. next \in 1 .. Len(keys)
    BY <1>1 DEF Inv, Staged
  <2> QED
    BY <2>1, FlowsTake DEF DfcFlows
<1> DEFINE q == QueueBatch([fl |-> flow, batches |-> batches], next, f)
<1>3. flow' = q.fl /\ batches' = q.batches
  BY DEF DfcHit
<1>4. /\ Early \in Nat /\ Early + 0 = Taken /\ BatchesOf(flow, batches, 1 .. Early)
  BY <1>1, PlacedFacts
<1>5. 1 .. Early \subseteq 0 .. next - 1 /\ (1 .. Early) \cup {next} = 1 .. Early + 1
      /\ next = Early + 1
  BY <1>1, <1>4
<1>6. BatchesOf(q.fl, q.batches, (1 .. Early) \cup {next})
  BY <1>1, <1>2, <1>4, <1>5, QueueMore
<1> HIDE DEF q
<1>7. Early' = Early + 1
  BY <1>1, <1>4 DEF Early
<1>8. Queueing'
  BY <1>3, <1>5, <1>6, <1>7 DEF Queueing, BatchesOf
<1>9. Numbered' /\ Waiting'
  BY <1>1 DEF Numbered, Waiting
<1> QED
  BY <1>8, <1>9

(* After it, or if it is missed, the packet goes to flow_map.              *)
LEMMA DfcMapped ==
  ASSUME Inv, Placed, Dfc, NEW e \in MapEntry, e.pkt = next, map' = Append(map, e),
         UNCHANGED <<flow, batches>>,
         \/ e.flow # Null /\ missed' = missed /\ missed # <<>>
         \/ /\ e.flow = Null
            /\ missed' = Append(missed, [pkt |-> next, at |-> Len(map) + 1, rule |-> Null])
  PROVE  Numbered' /\ Queueing' /\ Waiting'
<1> DEFINE n == Len(map) + 1
<1>1. /\ next = Taken + 1 /\ Taken' = Taken + 1 /\ next \in Nat /\ pc = "dfc"
      /\ Answered' = {} /\ Answered = {}
  BY DfcTaken, DfcAnswering
<1>2. /\ Early \in Nat /\ Early + Len(map) = Taken
      /\ \A i \in 1 .. Len(map) : map[i].pkt = Early + i
      /\ map \in Seq(MapEntry) /\ Len(map) \in Nat /\ missed \in Seq(MissEntry)
      /\ Len(missed) \in Nat
  BY PlacedFacts, InvTypes
<1>3. /\ map' \in Seq(MapEntry) /\ Len(map') = n /\ map'[n] = e
      /\ \A i \in 1 .. Len(map) : map'[i] = map[i]
      /\ \A i \in 1 .. Len(map') : i \in 1 .. Len(map) \/ i = n
      /\ n \in Nat /\ n \notin 1 .. Len(map)
  BY <1>2
<1>4. Early' = Early
  <2>1. Early' = Taken' - Len(map')
    BY DEF Early
  <2> QED
    BY <1>1, <1>2, <1>3, <2>1
<1>5. missed' # <<>>
  BY <1>2
<1>6. next = Early + n
  BY <1>1, <1>2
<1>7. \A i \in 1 .. Len(map') : map'[i].pkt = Early + i
  BY <1>2, <1>3, <1>6
<1>8. Numbered'
  BY <1>4, <1>5, <1>7 DEF Numbered
<1>9. Queueing'
  BY <1>4 DEF Placed, Queueing
<1>10. \A i \in 1 .. Len(missed) : missed[i].at \in 1 .. Len(map)
  BY PlacedFacts
<1>11. Waiting'
  <2>1. CASE e.flow # Null /\ missed' = missed
    <3>1. ASSUME NEW i \in 1 .. Len(map')
          PROVE  map'[i].flow = Null <=>
                   map'[i].pkt \in Answered' \/ \E j \in 1 .. Len(missed') : missed'[j].at = i
      <4>1. CASE i \in 1 .. Len(map)
        BY <1>1, <1>3, <2>1, <4>1 DEF Placed, Waiting
      <4>2. CASE i = n
        BY <1>1, <1>3, <1>10, <2>1, <4>2
      <4> QED
        BY <1>3, <4>1, <4>2
    <3> QED
      BY <2>1, <3>1 DEF Placed, Waiting
  <2>2. CASE /\ e.flow = Null
             /\ missed' = Append(missed, [pkt |-> next, at |-> Len(map) + 1, rule |-> Null])
    <3> DEFINE d == [pkt |-> next, at |-> n, rule |-> Null]
               m == Len(missed) + 1
    <3>1. d \in MissEntry /\ d.at = n /\ missed' = Append(missed, d)
      BY <1>1, <1>3, <2>2 DEF MissEntry, Ref
    <3> HIDE DEF d
    <3>2. /\ Len(missed') = m /\ missed'[m] = d /\ m \in 1 .. Len(missed')
          /\ \A i \in 1 .. Len(missed) : i \in 1 .. Len(missed') /\ missed'[i] = missed[i]
          /\ \A i \in 1 .. Len(missed') : i \in 1 .. Len(missed) \/ i = m
          /\ m \in Nat /\ \A i \in 1 .. Len(missed) : i < m
      BY <1>2, <3>1
    <3> HIDE DEF m
    <3>3. ASSUME NEW i \in 1 .. Len(missed'), NEW j \in 1 .. Len(missed'), i < j
          PROVE  missed'[i].at < missed'[j].at
      <4>1. i \in 1 .. Len(missed)
        BY <3>2, <3>3
      <4>2. CASE j \in 1 .. Len(missed)
        <5>1. missed[i].at < missed[j].at
          BY <3>3, <4>1, <4>2 DEF Placed, Waiting
        <5> QED
          BY <3>2, <4>1, <4>2, <5>1
      <4>3. CASE j = m
        <5>1. missed'[j].at = n /\ missed'[i].at = missed[i].at /\ missed[i].at \in 1 .. Len(map)
          BY <1>10, <3>1, <3>2, <4>1, <4>3
        <5> QED
          BY <1>2, <5>1
      <4> QED
        BY <3>2, <4>2, <4>3
    <3>4. ASSUME NEW i \in 1 .. Len(map')
          PROVE  map'[i].flow = Null <=>
                   map'[i].pkt \in Answered' \/ \E j \in 1 .. Len(missed') : missed'[j].at = i
      <4>1. CASE i \in 1 .. Len(map)
        <5>1. map[i].flow = Null <=> \E j \in 1 .. Len(missed) : missed[j].at = i
          BY <1>1, <4>1 DEF Placed, Waiting
        <5>2. (\E j \in 1 .. Len(missed) : missed[j].at = i)
                <=> \E j \in 1 .. Len(missed') : missed'[j].at = i
          BY <1>3, <3>1, <3>2, <4>1
        <5> QED
          BY <1>1, <1>3, <4>1, <5>1, <5>2
      <4>2. CASE i = n
        <5>1. map'[i].flow = Null /\ missed'[m].at = i
          BY <1>3, <2>2, <3>1, <3>2, <4>2
        <5> QED
          BY <3>2, <5>1
      <4> QED
        BY <1>3, <4>1, <4>2
    <3> QED
      BY <3>3, <3>4 DEF Waiting
  <2> QED
    BY <2>1, <2>2
<1> QED
  BY <1>8, <1>9, <1>11

LEMMA DfcPlaced ==
  ASSUME Inv, Placed, Dfc
  PROVE  Placed'
<1>1. Answering' /\ Late'
  BY DfcAnswering
<1>2. Standing'
  BY PmdStands DEF Placed, Pmd
<1>3. next \in Nat /\ next \in 1 .. Len(keys)
  BY DfcTaken DEF Inv, Staged
<1>4. Numbered' /\ Queueing' /\ Waiting'
  <2>1. ASSUME NEW f \in DfcFlows, DfcHit(f), missed = <<>>
        PROVE  Numbered' /\ Queueing' /\ Waiting'
    BY <2>1, DfcBatched
  <2>2. ASSUME NEW f \in DfcFlows, DfcHit(f), missed # <<>>
        PROVE  Numbered' /\ Queueing' /\ Waiting'
    <3> DEFINE e == [pkt |-> next, flow |-> f]
    <3>1. f \in Ref /\ f # Null
      BY <1>3, FlowsTake DEF DfcFlows
    <3>2. e \in MapEntry /\ e.pkt = next /\ e.flow # Null
      BY <1>3, <3>1 DEF MapEntry
    <3>3. map' = Append(map, e) /\ UNCHANGED <<flow, batches, missed>>
      BY <2>2 DEF DfcHit
    <3> HIDE DEF e
    <3> QED
      BY <2>2, <3>2, <3>3, DfcMapped
  <2>3. ASSUME DfcMiss
        PROVE  Numbered' /\ Queueing' /\ Waiting'
    <3> DEFINE e == [pkt |-> next, flow |-> Null]
    <3>1. e \in MapEntry /\ e.pkt = next /\ e.flow = Null
      BY <1>3 DEF MapEntry, Ref
    <3>2. /\ map' = Append(map, e) /\ UNCHANGED <<flow, batches>>
          /\ missed' = Append(missed, [pkt |-> next, at |-> Len(map) + 1, rule |-> Null])
      BY <2>3 DEF DfcMiss
    <3> HIDE DEF e
    <3> QED
      BY <3>1, <3>2, DfcMapped
  <2> QED
    BY <2>1, <2>2, <2>3 DEF Dfc
<1> QED
  BY <1>1, <1>2, <1>4 DEF Placed

-----------------------------------------------------------------------------
(* A packet leaves the missed ones.                                        *)
Shift(n, j) == IF j < n THEN j ELSE j + 1
Without(t, s, n) ==
  Len(t) = Len(s) - 1 /\ \A j \in 1 .. Len(t) : t[j] = s[Shift(n, j)]

LEMMA ShiftFacts ==
  ASSUME NEW m \in Nat, NEW n \in 1 .. m
  PROVE  /\ \A j \in 1 .. m - 1 : Shift(n, j) \in 1 .. m /\ Shift(n, j) # n
         /\ \A i, j \in 1 .. m - 1 : i < j => Shift(n, i) < Shift(n, j)
         /\ \A i \in 1 .. m : i # n => \E j \in 1 .. m - 1 : Shift(n, j) = i
<1>1. \A j \in 1 .. m - 1 : Shift(n, j) \in 1 .. m /\ Shift(n, j) # n
  BY DEF Shift
<1>2. \A i, j \in 1 .. m - 1 : i < j => Shift(n, i) < Shift(n, j)
  BY DEF Shift
<1>3. ASSUME NEW i \in 1 .. m, i # n
      PROVE  \E j \in 1 .. m - 1 : Shift(n, j) = i
  <2>1. CASE i < n
    <3>1. i \in 1 .. m - 1 /\ Shift(n, i) = i
      BY <2>1 DEF Shift
    <3> QED
      BY <3>1
  <2>2. CASE i > n
    <3>1. i - 1 \in 1 .. m - 1 /\ Shift(n, i - 1) = i
      BY <2>2 DEF Shift
    <3> QED
      BY <3>1
  <2> QED
    BY <1>3, <2>1, <2>2
<1> QED
  BY <1>1, <1>2, <1>3

LEMMA RemoveAtIs ==
  ASSUME NEW S, NEW s \in Seq(S), NEW n \in 1 .. Len(s)
  PROVE  Without(RemoveAt(s, n), s, n)
<1> DEFINE a == SubSeq(s, 1, n - 1)
           b == SubSeq(s, n + 1, Len(s))
<1>1. /\ Len(s) \in Nat /\ n \in Nat /\ n >= 1 /\ n <= Len(s) /\ n - 1 \in Nat
      /\ Len(s) - n \in Nat
  OBVIOUS
<1>2. a \in Seq(S) /\ Len(a) = n - 1 /\ \A j \in 1 .. n - 1 : a[j] = s[j]
  BY <1>1
<1>3. b \in Seq(S) /\ Len(b) = Len(s) - n /\ \A j \in 1 .. Len(s) - n : b[j] = s[j + n]
  BY <1>1
<1>4. RemoveAt(s, n) = a \o b
  BY DEF RemoveAt
<1> HIDE DEF a, b
<1>5. /\ Len(a \o b) = Len(a) + Len(b)
      /\ \A k \in 1 .. Len(a) : (a \o b)[k] = a[k]
      /\ \A k \in 1 .. Len(b) : (a \o b)[Len(a) + k] = b[k]
  <2>1. a \in Seq(S) /\ b \in Seq(S)
    BY <1>2, <1>3
  <2> QED
    BY ONLY <2>1, ConcatFacts
<1>6. Len(a \o b) = Len(s) - 1
  BY <1>1, <1>2, <1>3, <1>5
<1>7. ASSUME NEW j \in 1 .. Len(s) - 1
      PROVE  (a \o b)[j] = s[Shift(n, j)]
  <2>1. CASE j < n
    <3>1. j \in 1 .. n - 1 /\ Shift(n, j) = j
      BY <1>1, <2>1 DEF Shift
    <3> QED
      BY <1>2, <1>5, <3>1
  <2>2. CASE ~(j < n)
    <3> DEFINE k == j - (n - 1)
    <3>1. k \in 1 .. Len(s) - n /\ j = (n - 1) + k /\ Shift(n, j) = k + n
      BY <1>1, <2>2 DEF Shift
    <3> HIDE DEF k
    <3>2. (a \o b)[j] = b[k] /\ b[k] = s[k + n]
      BY <1>2, <1>3, <1>5, <3>1
    <3> QED
      BY <3>1, <3>2
  <2> QED
    BY <2>1, <2>2
<1> QED
  BY <1>4, <1>6, <1>7 DEF Without

LEMMA TailIs ==
  ASSUME NEW S, NEW s \in Seq(S), s # <<>>
  PROVE  Without(Tail(s), s, 1)
<1>1. Len(Tail(s)) = Len(s) - 1 /\ Len(s) \in Nat
  OBVIOUS
<1>2. ASSUME NEW j \in 1 .. Len(Tail(s))
      PROVE  Tail(s)[j] = s[Shift(1, j)]
  <2>1. Tail(s)[j] = s[j + 1] /\ Shift(1, j) = j + 1
    BY <1>1 DEF Shift
  <2> QED
    BY <2>1
<1> QED
  BY <1>1, <1>2 DEF Without

(* The packet n of the missed ones leaves them, answered or with a flow.   *)
LEMMA MissedLess ==
  ASSUME Inv, Placed, NEW n \in 1 .. Len(missed), Without(missed', missed, n), pc # "dfc",
         pc' # "dfc", UNCHANGED <<keys, sent, lost>>,
         \/ /\ missed[n].pkt \notin Answered
            /\ \E f \in Ref : f # Null /\ Hit(missed[n], f)
         \/ missed[n].pkt \in Answered /\ UNCHANGED map
  PROVE  /\ Waiting' /\ Len(map') = Len(map)
         /\ \A i \in 1 .. Len(map) : map'[i].pkt = map[i].pkt
         /\ \A i \in 1 .. Len(map) : i # missed[n].at => map'[i] = map[i]
<1> DEFINE m == Len(missed)
           a == missed[n].at
<1>1. /\ m \in Nat /\ map \in Seq(MapEntry) /\ Len(map) \in Nat /\ Len(missed') = m - 1
      /\ \A j \in 1 .. m - 1 : /\ Shift(n, j) \in 1 .. m /\ Shift(n, j) # n
                               /\ missed'[j] = missed[Shift(n, j)]
      /\ \A i, j \in 1 .. m - 1 : i < j => Shift(n, i) < Shift(n, j)
      /\ \A i \in 1 .. m : i # n => \E j \in 1 .. m - 1 : Shift(n, j) = i
  BY InvTypes, ShiftFacts DEF Without
<1>2. /\ a \in 1 .. Len(map) /\ map[a].pkt = missed[n].pkt
      /\ \A i, j \in 1 .. m : missed[i].at = missed[j].at => i = j
  BY PlacedFacts, MissedPacket
<1>3. /\ Len(map') = Len(map) /\ \A i \in 1 .. Len(map) : map'[i].pkt = map[i].pkt
      /\ \A i \in 1 .. Len(map) : i # a => map'[i] = map[i]
      /\ map'[a].flow = Null <=> missed[n].pkt \in Answered
  <2>1. ASSUME NEW f \in Ref, f # Null, Hit(missed[n], f), missed[n].pkt \notin Answered
        PROVE  /\ Len(map') = Len(map) /\ \A i \in 1 .. Len(map) : map'[i].pkt = map[i].pkt
               /\ \A i \in 1 .. Len(map) : i # a => map'[i] = map[i]
               /\ map'[a].flow = Null <=> missed[n].pkt \in Answered
    <3> DEFINE e == [map[a] EXCEPT !.flow = f]
    <3>1. map[a] \in MapEntry /\ map' = [map EXCEPT ![a] = e]
      BY <1>1, <1>2, <2>1 DEF Hit
    <3>2. e \in MapEntry /\ e.pkt = map[a].pkt /\ e.flow = f
      BY <2>1, <3>1 DEF MapEntry
    <3> HIDE DEF e, a
    <3>3. /\ Len(map') = Len(map) /\ map'[a] = e
          /\ \A i \in 1 .. Len(map) : i # a => map'[i] = map[i]
      BY <1>1, <1>2, <3>1, <3>2, ExceptFacts
    <3> QED
      BY <2>1, <3>2, <3>3
  <2>2. CASE missed[n].pkt \in Answered /\ UNCHANGED map
    <3>1. map[a].flow = Null
      BY <1>2, <2>2 DEF Placed, Waiting
    <3> QED
      BY <2>2, <3>1
  <2> QED
    BY <2>1, <2>2
<1>4. Answered' = Answered
  BY DEF Answered, Slow
<1> HIDE DEF a, m
<1>5. ASSUME NEW i \in 1 .. Len(missed'), NEW j \in 1 .. Len(missed'), i < j
      PROVE  missed'[i].at < missed'[j].at
  <2>1. \A k, l \in 1 .. m : k < l => missed[k].at < missed[l].at
    BY DEF Placed, Waiting, m
  <2> QED
    BY <1>1, <1>5, <2>1
<1>6. ASSUME NEW i \in 1 .. Len(map')
      PROVE  map'[i].flow = Null <=>
               map'[i].pkt \in Answered' \/ \E j \in 1 .. Len(missed') : missed'[j].at = i
  <2>1. CASE i = a
    <3>1. ~\E j \in 1 .. Len(missed') : missed'[j].at = i
      <4>1. SUFFICES ASSUME NEW j \in 1 .. m - 1, missed'[j].at = i
                     PROVE  FALSE
        BY <1>1
      <4>2. Shift(n, j) \in 1 .. m /\ Shift(n, j) # n /\ missed[Shift(n, j)].at = missed[n].at
        BY <1>1, <2>1, <4>1 DEF a
      <4> QED
        BY <1>2, <4>2 DEF m
    <3> QED
      BY <1>2, <1>3, <1>4, <2>1, <3>1
  <2>2. CASE i # a
    <3>1. map[i].flow = Null <=>
            map[i].pkt \in Answered \/ \E j \in 1 .. m : missed[j].at = i
      BY <1>3 DEF Placed, Waiting, m
    <3>2. (\E j \in 1 .. m : missed[j].at = i)
            <=> \E j \in 1 .. Len(missed') : missed'[j].at = i
      <4>1. ASSUME NEW j \in 1 .. m, missed[j].at = i
            PROVE  \E k \in 1 .. Len(missed') : missed'[k].at = i
        <5>1. j # n
          BY <2>2, <4>1 DEF a
        <5>2. PICK k \in 1 .. m - 1 : Shift(n, k) = j
          BY <1>1, <5>1
        <5>3. missed'[k].at = i
          BY <1>1, <4>1, <5>2
        <5> QED
          BY <1>1, <5>3
      <4>2. ASSUME NEW k \in 1 .. Len(missed'), missed'[k].at = i
            PROVE  \E j \in 1 .. m : missed[j].at = i
        <5>1. k \in 1 .. m - 1
          BY <1>1
        <5>2. Shift(n, k) \in 1 .. m /\ missed[Shift(n, k)].at = i
          BY <1>1, <4>2, <5>1
        <5> QED
          BY <5>2
      <4> QED
        BY <4>1, <4>2
    <3> QED
      BY <1>3, <1>4, <2>2, <3>1, <3>2
  <2> QED
    BY <2>1, <2>2
<1> QED
  BY <1>3, <1>5, <1>6 DEF Waiting, a

(* smc_lookup_batch, for one packet.                                       *)
LEMMA SmcPlaced ==
  ASSUME Inv, Placed, Smc
  PROVE  Placed'
<1>1. /\ pc = "smc" /\ UNCHANGED <<batches, keys, sent, lost, ctl>>
      /\ next \in 1 .. Len(missed) /\ sent = <<>> /\ lost = {}
      /\ pc' \in {"smc", "cls", "flush"}
  BY DEF Smc, At, stage, result, pmdFrame, Loop, Goto, Inv, Staged, Placed, Answering
<1>2. Answered = {} /\ Answered' = {} /\ Slow' = {} /\ Seen' = 0
  BY <1>1 DEF Answered, Slow, Seen
<1>3. /\ pc' = "flush" => missed' = <<>>
      /\ Waiting' /\ Numbered' /\ Queueing' /\ Early' = Early
  <2>1. CASE /\ \E f \in InSmc(keys[Missed.pkt]) : EmcInsert(keys[Missed.pkt], f) /\ Hit(Missed, f)
             /\ missed' = RemoveAt(missed, next)
             /\ Loop(next, Len(missed'), IF missed' = <<>> THEN "flush" ELSE "cls")
    <3>1. PICK f \in InSmc(keys[Missed.pkt]) : EmcInsert(keys[Missed.pkt], f) /\ Hit(missed[next], f)
      BY <2>1 DEF Missed
    <3>2. BatchKept /\ f \in Ref /\ f # Null
      BY <1>1, <3>1, SmcHitAlike
    <3>3. Without(missed', missed, next)
      <4>1. missed \in Seq(MissEntry)
        BY InvTypes
      <4>2. Without(RemoveAt(missed, next), missed, next)
        BY <1>1, <4>1, RemoveAtIs
      <4> QED
        BY <2>1, <4>2
    <3>4. /\ Waiting' /\ Len(map') = Len(map)
          /\ \A i \in 1 .. Len(map) : map'[i].pkt = map[i].pkt
      BY <1>1, <1>2, <3>1, <3>2, <3>3, MissedLess
    <3>5. Numbered' /\ Queueing' /\ Early' = Early
      BY <1>1, <3>2, <3>4, Unmoved
    <3>6. pc' = "flush" => missed' = <<>>
      BY <1>1, <2>1 DEF Loop, Goto
    <3> QED
      BY <3>4, <3>5, <3>6
  <2>2. CASE UNCHANGED <<Shared, map, missed>> /\ Loop(next + 1, Len(missed), "cls")
    <3>1. UNCHANGED <<flow, map, missed>> /\ pc' # "flush"
      BY <1>1, <2>2 DEF Shared, Loop, Goto
    <3>2. BatchKept
      BY <3>1 DEF BatchKept
    <3>3. Numbered' /\ Queueing' /\ Early' = Early
      BY <1>1, <3>1, <3>2, Unmoved
    <3>4. Waiting'
      BY <1>2, <3>1 DEF Placed, Waiting
    <3> QED
      BY <3>1, <3>3, <3>4
  <2> QED
    BY <2>1, <2>2 DEF Smc
<1>4. Answering'
  BY <1>1, <1>2, <1>3 DEF Answering, Placed
<1>5. Late' /\ Standing'
  BY <1>1, NothingSent, PmdStands DEF Placed, Pmd
<1> QED
  BY <1>3, <1>4, <1>5 DEF Placed

(* A missed packet gets a rule: it is where it was.                        *)
LEMMA RuleSet ==
  ASSUME Inv, NEW n \in 1 .. Len(missed), NEW f \in Ref, missed' = [missed EXCEPT ![n].rule = f]
  PROVE  /\ Len(missed') = Len(missed) /\ missed'[n].rule = f
         /\ \A j \in 1 .. Len(missed) : /\ missed'[j].pkt = missed[j].pkt
                                        /\ missed'[j].at = missed[j].at
                                        /\ j # n => missed'[j] = missed[j]
<1> DEFINE e == [missed[n] EXCEPT !.rule = f]
<1>1. missed \in Seq(MissEntry) /\ missed[n] \in MissEntry
  BY InvTypes, Elements
<1>2. e \in MissEntry /\ e.pkt = missed[n].pkt /\ e.at = missed[n].at /\ e.rule = f
      /\ missed' = [missed EXCEPT ![n] = e]
  BY <1>1 DEF MissEntry
<1> HIDE DEF e
<1>3. /\ Len(missed') = Len(missed) /\ missed'[n] = e
      /\ \A j \in 1 .. Len(missed) : j # n => missed'[j] = missed[j]
  BY <1>1, <1>2, ExceptFacts
<1> QED
  BY <1>2, <1>3

(* dpcls_lookup, for one packet.                                           *)
LEMMA ClsPlaced ==
  ASSUME Inv, Placed, Cls
  PROVE  Placed'
<1>1. /\ pc = "cls" /\ UNCHANGED <<flow, map, batches, keys, sent, lost>>
      /\ next \in 1 .. Len(missed) /\ sent = <<>> /\ lost = {}
      /\ pc' \in {"cls", "cache", "lock"}
      /\ pc' = "cache" => \A i \in DOMAIN missed : missed'[i].rule # Null
  BY DEF Cls, At, stage, result, Shared, Loop, Goto, Inv, Staged, Placed, Answering
<1>2. Answered = {} /\ Answered' = {} /\ Slow' = {}
  BY <1>1 DEF Answered, Slow
<1>3. PICK f \in Rules(keys[Missed.pkt]) : missed' = [missed EXCEPT ![next].rule = f]
  BY DEF Cls
<1>4. f \in Ref
  BY DEF Rules, InCls, Ref
<1>5. /\ Len(missed') = Len(missed)
      /\ \A j \in 1 .. Len(missed) : missed'[j].at = missed[j].at
  BY <1>1, <1>3, <1>4, RuleSet
<1>6. Numbered' /\ Queueing' /\ Early' = Early
  <2>1. BatchKept
    BY <1>1 DEF BatchKept
  <2>2. map' = map /\ pc # "dfc" /\ pc' # "dfc"
    BY <1>1
  <2> QED
    BY <1>1, <2>1, <2>2, Unmoved
<1>7. Waiting'
  <2>1. Waiting
    BY DEF Placed
  <2>2. \A i, j \in 1 .. Len(missed') : i < j => missed'[i].at < missed'[j].at
    BY <1>5, <2>1 DEF Waiting
  <2>3. \A i \in 1 .. Len(map) :
          map[i].flow = Null <=> \E j \in 1 .. Len(missed) : missed[j].at = i
    BY <1>2, <2>1 DEF Waiting
  <2>4. \A i \in 1 .. Len(map) :
          map[i].flow = Null <=> \E j \in 1 .. Len(missed') : missed'[j].at = i
    BY <1>5, <2>3
  <2> QED
    BY <1>1, <1>2, <2>2, <2>4 DEF Waiting
<1>8. \A j \in 1 .. Len(missed') : ~(missed'[j].rule = Null /\ j <= Seen')
  <2>1. DOMAIN missed = 1 .. Len(missed)
    BY InvTypes
  <2>2. CASE pc' = "cache"
    BY <1>1, <1>5, <2>1, <2>2
  <2>3. CASE pc' # "cache"
    <3>1. Seen' = 0
      BY <1>1, <2>3 DEF Seen
    <3> QED
      BY <3>1
  <2> QED
    BY <2>2, <2>3
<1>9. Answering'
  BY <1>1, <1>2, <1>8 DEF Answering, Placed
<1>10. Late' /\ Standing'
  BY <1>1, NothingSent, PmdStands DEF Placed, Pmd
<1> QED
  BY <1>6, <1>7, <1>9, <1>10 DEF Placed

(* Without the lock the packets that no rule matches are dropped.          *)
LEMMA TryLockPlaced ==
  ASSUME Inv, Placed, TryLock
  PROVE  Placed'
<1>1. /\ pc = "lock" /\ UNCHANGED <<flow, map, batches, keys, sent, missed>>
      /\ sent = <<>> /\ lost = {} /\ next' = 1
      /\ \/ pc' = "upcall" /\ lost' = {}
         \/ /\ pc' = "cache"
            /\ lost' = {missed[i].pkt : i \in {j \in 1 .. Len(missed) : missed[j].rule = Null}}
  <2>1. DOMAIN missed = 1 .. Len(missed)
    BY InvTypes
  <2> QED
    BY <2>1 DEF TryLock, At, stage, Shared, Goto, Placed, Answering
<1>2. Answered = {} /\ Answered' = lost' /\ Slow' = {}
  BY <1>1 DEF Answered, Slow
<1>3. Numbered' /\ Queueing' /\ Early' = Early
  BY <1>1, Unmoved DEF BatchKept
<1>4. /\ Early \in Nat /\ Early + Len(map) = Taken /\ Taken = Len(keys)
      /\ Len(map) \in Nat /\ Len(missed) \in Nat
      /\ \A i \in 1 .. Len(map) : map[i].pkt = Early + i
      /\ \A j \in 1 .. Len(missed) :
           missed[j].at \in 1 .. Len(map) /\ missed[j].pkt = Early + missed[j].at
      /\ \A i, j \in 1 .. Len(missed) : missed[i].pkt = missed[j].pkt => i = j
  BY <1>1, PlacedFacts, InvTypes DEF Taken
<1>5. \A j \in 1 .. Len(missed) : missed[j].pkt \in Answered' <=> missed[j].rule = Null /\ j <= Seen'
  <2>1. CASE pc' = "upcall" /\ lost' = {}
    <3>1. Seen' = 0
      BY <1>1, <2>1 DEF Seen
    <3> QED
      BY <1>2, <2>1, <3>1
  <2>2. CASE /\ pc' = "cache"
             /\ lost' = {missed[i].pkt : i \in {j \in 1 .. Len(missed) : missed[j].rule = Null}}
    <3>1. Seen' = Len(missed)
      BY <1>1, <2>2 DEF Seen
    <3> QED
      BY <1>2, <1>4, <2>2, <3>1
  <2> QED
    BY <1>1, <2>1, <2>2
<1>6. \A p \in Answered' : \E j \in 1 .. Len(missed) : p = missed[j].pkt
  BY <1>1, <1>2
<1>7. Answered' \subseteq Early + 1 .. Len(keys)
  BY <1>4, <1>6
<1>8. pc' = "upcall" => Answered' = {}
  BY <1>1, <1>2
<1>9. Answering'
  <2>1. Slow' \cap lost' = {} /\ sent' = <<>>
    BY <1>1, <1>2
  <2>2. pc' \in {"upcall", "cache"}
    BY <1>1
  <2> QED
    BY <1>1, <1>3, <1>5, <1>7, <1>8, <2>1, <2>2 DEF Answering, Placed
<1>10. Waiting'
  <2>1. ASSUME NEW i \in 1 .. Len(map), map[i].pkt \in Answered'
        PROVE  \E j \in 1 .. Len(missed) : missed[j].at = i
    <3>1. PICK j \in 1 .. Len(missed) : map[i].pkt = missed[j].pkt
      BY <1>6, <2>1
    <3>2. Early + i = Early + missed[j].at /\ missed[j].at \in 1 .. Len(map)
      BY <1>4, <3>1
    <3>3. missed[j].at = i
      BY <1>4, <3>2
    <3> QED
      BY <3>3
  <2> QED
    BY <1>1, <1>2, <2>1 DEF Placed, Waiting
<1>11. Late' /\ Standing'
  BY <1>1, NothingSent, PmdStands DEF Placed, Pmd
<1> QED
  BY <1>3, <1>9, <1>10, <1>11 DEF Placed

-----------------------------------------------------------------------------
(* A flow that could take a packet of the batch is still in the classifier *)
(* if none is removed.                                                     *)
LEMMA StillIn ==
  ASSUME Inv, Standing, pc # "idle", ~removed, NEW p, NEW f \in Ids, Takes(keys, flow, gone, p, f)
  PROVE  f \in InCls(keys[p])
<1>1. flow[f].used /\ keys[p] \in flow[f].match /\ f \notin gone /\ f # Null
  BY IdsNat DEF Takes
<1>2. ctl.pc \notin Removing /\ ~flow[f].dead
  BY <1>1 DEF Standing
<1>3. flow[f].inCls
  BY <1>1, <1>2 DEF Standing, Stands
<1> QED
  BY <1>1, <1>3 DEF InCls

(* What an upcall finds and leaves: the packets answered before it are     *)
(* earlier ones.                                                           *)
LEMMA UpcallFacts ==
  ASSUME Inv, Placed, Upcall
  PROVE  /\ pc = "upcall" /\ pc' \in {"upcall", "install", "cache"}
         /\ next \in 1 .. Len(missed) /\ next \in Nat /\ Len(missed) \in Nat
         /\ UNCHANGED <<flow, ctl, gone, removed, map, batches, keys>>
         /\ Seen = next - 1 /\ Seen' = next /\ Len(missed') = Len(missed)
         /\ \A j \in 1 .. Len(missed) : /\ missed'[j].pkt = missed[j].pkt
                                        /\ missed'[j].at = missed[j].at
                                        /\ j # next => missed'[j] = missed[j]
         /\ missed[next].pkt \notin Answered /\ missed[next].pkt \in Nat
         /\ missed[next].pkt \in Early + 1 .. Len(keys)
         /\ \A p \in Answered : p < missed[next].pkt
<1>1. /\ pc = "upcall" /\ UNCHANGED <<flow, ctl, gone, removed, map, batches, keys>>
      /\ \/ UNCHANGED missed
         \/ \E f \in InCls(keys[missed[next].pkt]) : missed' = [missed EXCEPT ![next].rule = f]
      /\ \/ NextUpcall
         \/ pc' = "install" /\ next' = next
  BY DEF Upcall, At, Shared, stage, pmdFrame, Missed
<1>2. next \in 1 .. Len(missed) /\ next \in Nat /\ Len(missed) \in Nat
  BY <1>1, InvTypes DEF Inv, Staged
<1>3. Len(missed') = Len(missed) /\ \A j \in 1 .. Len(missed) :
        /\ missed'[j].pkt = missed[j].pkt
        /\ missed'[j].at = missed[j].at
        /\ j # next => missed'[j] = missed[j]
  <2>1. ASSUME NEW f \in InCls(keys[missed[next].pkt]), missed' = [missed EXCEPT ![next].rule = f]
        PROVE  Len(missed') = Len(missed) /\ \A j \in 1 .. Len(missed) :
                 /\ missed'[j].pkt = missed[j].pkt
                 /\ missed'[j].at = missed[j].at
                 /\ j # next => missed'[j] = missed[j]
    <3>1. f \in Ref
      BY DEF InCls, Ref
    <3> QED
      BY <1>2, <2>1, <3>1, RuleSet
  <2> QED
    BY <1>1, <2>1
<1>4. \/ next + 1 <= Len(missed) /\ pc' = "upcall" /\ next' = next + 1
      \/ ~(next + 1 <= Len(missed)) /\ pc' = "cache"
      \/ pc' = "install" /\ next' = next
  BY <1>1 DEF NextUpcall, Loop, Goto
<1>5. Seen = next - 1
  BY <1>1 DEF Seen
<1>6. Seen' = next
  <2>1. CASE pc' = "upcall" /\ next' = next + 1
    <3>1. Seen' = next' - 1
      BY <2>1 DEF Seen
    <3> QED
      BY <1>2, <2>1, <3>1
  <2>2. CASE ~(next + 1 <= Len(missed)) /\ pc' = "cache"
    <3>1. Seen' = Len(missed') /\ Len(missed) = next
      BY <1>2, <2>2 DEF Seen
    <3> QED
      BY <1>3, <3>1
  <2>3. CASE pc' = "install" /\ next' = next
    BY <2>3 DEF Seen
  <2> QED
    BY <1>4, <2>1, <2>2, <2>3
<1>7. /\ \A i, j \in 1 .. Len(missed) : i < j => missed[i].pkt < missed[j].pkt
      /\ missed[next].pkt = Early + missed[next].at /\ missed[next].at \in 1 .. Len(map)
      /\ Early \in Nat /\ Len(map) \in Nat
  BY <1>2, PlacedFacts, InvTypes
<1>8. missed[next].pkt \in 1 .. Len(keys) /\ Len(keys) \in Nat
  BY <1>2, MissedPacket, InvTypes
<1>9. missed[next].pkt \in Nat /\ missed[next].pkt \in Early + 1 .. Len(keys)
  BY <1>7, <1>8
<1>10. missed[next].pkt \notin Answered
  <2>1. missed[next].pkt \in Answered => next <= Seen
    BY <1>2 DEF Placed, Answering
  <2> QED
    BY <1>2, <1>5, <2>1
<1>11. ASSUME NEW p \in Answered
       PROVE  p < missed[next].pkt
  <2>1. PICK j \in 1 .. Seen : missed[j].pkt = p
    BY <1>1 DEF Placed, Answering
  <2>2. j \in 1 .. Len(missed) /\ j < next
    BY <1>2, <1>5
  <2> QED
    BY <1>2, <1>7, <2>1, <2>2
<1> QED
  BY <1>1, <1>2, <1>3, <1>4, <1>5, <1>6, <1>9, <1>10, <1>11

(* The packet of the upcall has a rule, or it has been answered.           *)
LEMMA UpcallAnswers ==
  ASSUME Inv, Placed, Upcall
  PROVE  \/ /\ missed'[next].rule # Null /\ Answered' = Answered /\ Slow' = Slow
            /\ UNCHANGED <<sent, lost>>
         \/ /\ missed'[next].rule = Null /\ Answered' = Answered \cup {missed[next].pkt}
            /\ InCls(keys[missed[next].pkt]) = {} /\ UNCHANGED missed
            /\ \/ lost' = lost \cup {missed[next].pkt} /\ sent' = sent /\ Slow' = Slow
               \/ /\ lost' = lost /\ sent' = Append(sent, [pkt |-> missed[next].pkt, flow |-> Null])
                  /\ Slow' = Slow \cup {missed[next].pkt}
<1> DEFINE e == missed[next]
           d == [pkt |-> e.pkt, flow |-> Null]
<1>1. \/ e.rule # Null /\ UNCHANGED <<missed, result>>
      \/ /\ e.rule = Null /\ UNCHANGED result
         /\ \E f \in InCls(keys[e.pkt]) : missed' = [missed EXCEPT ![next].rule = f]
      \/ /\ e.rule = Null /\ InCls(keys[e.pkt]) = {} /\ UNCHANGED <<missed, sent>>
         /\ lost' = lost \cup {e.pkt}
      \/ /\ e.rule = Null /\ InCls(keys[e.pkt]) = {} /\ UNCHANGED <<missed, lost>>
         /\ sent' = Append(sent, d)
  BY DEF Upcall, Missed
<1>2. next \in 1 .. Len(missed) /\ e.pkt \in Nat
  BY UpcallFacts
<1>3. CASE UNCHANGED result
  <2>1. UNCHANGED <<sent, lost>> /\ Answered' = Answered /\ Slow' = Slow
    BY <1>3 DEF result, Answered, Slow
  <2>2. CASE e.rule # Null /\ UNCHANGED <<missed, result>>
    BY <2>1, <2>2
  <2>3. ASSUME NEW f \in InCls(keys[e.pkt]), missed' = [missed EXCEPT ![next].rule = f]
        PROVE  missed'[next].rule # Null
    <3>1. f \in Ref /\ f # Null
      BY IdsNat DEF InCls, Ref
    <3>2. missed'[next].rule = f
      BY <1>2, <2>3, <3>1, RuleSet
    <3> QED
      BY <3>1, <3>2
  <2>4. e.pkt \notin Answered
    BY UpcallFacts
  <2>5. CASE /\ e.rule = Null /\ InCls(keys[e.pkt]) = {} /\ UNCHANGED <<missed, sent>>
             /\ lost' = lost \cup {e.pkt}
    BY <2>1, <2>4, <2>5 DEF Answered
  <2>6. sent \in Seq(SentEntry) /\ d \in SentEntry
    BY <1>2 DEF Placed, Answering, SentEntry
  <2>7. CASE sent' = Append(sent, d)
    <3>1. Len(Append(sent, d)) = Len(sent) + 1 /\ Len(sent) \in Nat
      BY <2>6
    <3> QED
      BY <2>1, <2>7, <3>1
  <2> QED
    BY <1>1, <2>1, <2>2, <2>3, <2>5, <2>7
<1>4. CASE /\ e.rule = Null /\ InCls(keys[e.pkt]) = {} /\ UNCHANGED <<missed, sent>>
           /\ lost' = lost \cup {e.pkt}
  BY <1>4 DEF Answered, Slow
<1>5. CASE /\ e.rule = Null /\ InCls(keys[e.pkt]) = {} /\ UNCHANGED <<missed, lost>>
           /\ sent' = Append(sent, d)
  <2> DEFINE n == Len(sent) + 1
  <2>1. sent \in Seq(SentEntry) /\ d \in SentEntry /\ d.pkt = e.pkt
    BY <1>2 DEF Placed, Answering, SentEntry
  <2> HIDE DEF d
  <2>2. /\ Len(sent') = n /\ sent'[n] = d /\ n \in 1 .. Len(sent')
        /\ \A i \in 1 .. Len(sent) : i \in 1 .. Len(sent') /\ sent'[i] = sent[i]
        /\ \A i \in 1 .. Len(sent') : i \in 1 .. Len(sent) \/ i = n
    BY <1>5, <2>1
  <2> HIDE DEF n
  <2>3. Slow' = Slow \cup {e.pkt}
    BY <2>1, <2>2 DEF Slow
  <2>4. Answered' = Answered \cup {e.pkt}
    BY <1>5, <2>3 DEF Answered
  <2> QED
    BY <1>5, <2>3, <2>4 DEF d
<1> QED
  BY <1>1, <1>3, <1>4, <1>5

LEMMA UpcallAnswering ==
  ASSUME Inv, Placed, Upcall
  PROVE  Answering'
<1> DEFINE q == missed[next].pkt
           m == Len(missed)
<1>1. /\ pc = "upcall" /\ pc' \in {"upcall", "install", "cache"}
      /\ next \in 1 .. m /\ next \in Nat /\ m \in Nat
      /\ UNCHANGED <<map, keys>> /\ Seen = next - 1 /\ Seen' = next /\ Len(missed') = m
      /\ \A j \in 1 .. m : missed'[j].pkt = missed[j].pkt /\ (j # next => missed'[j] = missed[j])
      /\ q \notin Answered /\ q \in Nat /\ q \in Early + 1 .. Len(keys)
      /\ \A p \in Answered : p < q
  BY UpcallFacts
<1>2. Early' = Early
  BY <1>1 DEF Early, Taken
<1>3. /\ \A p \in Answered : \E j \in 1 .. Seen : missed[j].pkt = p
      /\ \A j \in 1 .. m : missed[j].pkt \in Answered <=> missed[j].rule = Null /\ j <= Seen
      /\ sent \in Seq(SentEntry) /\ \A i, j \in 1 .. Len(sent) : i < j => sent[i].pkt < sent[j].pkt
      /\ Slow \cap lost = {} /\ Answered \subseteq Early + 1 .. Len(keys)
  BY <1>1 DEF Placed, Answering
<1>4. \A j \in 1 .. m : missed[j].pkt = q => j = next
  BY <1>1, PlacedFacts
<1> HIDE DEF q, m
<1>5. \/ missed'[next].rule # Null /\ Answered' = Answered
      \/ missed'[next].rule = Null /\ Answered' = Answered \cup {q}
  BY UpcallAnswers DEF q
<1>6. Answered' \subseteq Early + 1 .. Len(keys)
  BY <1>1, <1>3, <1>5
<1>7. ASSUME NEW p \in Answered'
      PROVE  \E j \in 1 .. Seen' : missed'[j].pkt = p
  <2>1. CASE p \in Answered
    <3>1. PICK j \in 1 .. Seen : missed[j].pkt = p
      BY <1>3, <2>1
    <3>2. j \in 1 .. Seen' /\ j \in 1 .. m
      BY <1>1
    <3> QED
      BY <1>1, <3>1, <3>2
  <2>2. CASE p = q
    <3>1. next \in 1 .. Seen' /\ missed'[next].pkt = q
      BY <1>1 DEF q
    <3> QED
      BY <2>2, <3>1
  <2> QED
    BY <1>5, <1>7, <2>1, <2>2
<1>8. ASSUME NEW j \in 1 .. Len(missed')
      PROVE  missed'[j].pkt \in Answered' <=> missed'[j].rule = Null /\ j <= Seen'
  <2>1. CASE j = next
    <3>1. missed'[j].pkt = q /\ j <= Seen'
      BY <1>1, <2>1 DEF q
    <3> QED
      BY <1>1, <1>5, <2>1, <3>1
  <2>2. CASE j # next
    <3>1. j \in 1 .. m /\ missed'[j] = missed[j] /\ missed[j].pkt # q
      BY <1>1, <1>4, <2>2
    <3>2. j <= Seen <=> j <= Seen'
      BY <1>1, <2>2, <3>1
    <3>3. missed[j].pkt \in Answered' <=> missed[j].pkt \in Answered
      BY <1>5, <3>1
    <3> QED
      BY <1>3, <3>1, <3>2, <3>3
  <2> QED
    BY <2>1, <2>2
<1>9. /\ sent' \in Seq(SentEntry) /\ Slow' \cap lost' = {}
      /\ \A i, j \in 1 .. Len(sent') : i < j => sent'[i].pkt < sent'[j].pkt
  <2>1. CASE UNCHANGED sent /\ Slow' = Slow /\ lost' \in {lost, lost \cup {q}}
    <3>1. q \notin Slow
      BY <1>1 DEF Answered
    <3> QED
      BY <1>3, <2>1, <3>1
  <2>2. CASE lost' = lost /\ sent' = Append(sent, [pkt |-> q, flow |-> Null]) /\ Slow' = Slow \cup {q}
    <3> DEFINE d == [pkt |-> q, flow |-> Null]
               n == Len(sent) + 1
    <3>1. d \in SentEntry /\ d.pkt = q /\ sent' = Append(sent, d)
      BY <1>1, <2>2 DEF SentEntry
    <3> HIDE DEF d
    <3>2. /\ sent' \in Seq(SentEntry) /\ Len(sent') = n /\ sent'[n] = d /\ n \in Nat
          /\ \A i \in 1 .. Len(sent) : sent'[i] = sent[i] /\ i < n
          /\ \A i \in 1 .. Len(sent') : i \in 1 .. Len(sent) \/ i = n
          /\ \A i \in 1 .. Len(sent') : i <= n
      BY <1>3, <3>1
    <3> HIDE DEF n
    <3>3. \A i \in 1 .. Len(sent) : sent[i].pkt < q
      BY <1>1 DEF Answered, Slow
    <3>4. ASSUME NEW i \in 1 .. Len(sent'), NEW j \in 1 .. Len(sent'), i < j
          PROVE  sent'[i].pkt < sent'[j].pkt
      <4>1. i \in 1 .. Len(sent)
        BY <3>2, <3>4
      <4>2. CASE j = n
        BY <3>1, <3>2, <3>3, <4>1, <4>2
      <4>3. CASE j # n
        BY <1>3, <3>2, <3>4, <4>1, <4>3
      <4> QED
        BY <4>2, <4>3
    <3>5. q \notin lost
      BY <1>1 DEF Answered
    <3> QED
      BY <1>3, <2>2, <3>2, <3>4, <3>5
  <2> QED
    BY <2>1, <2>2, UpcallAnswers DEF q
<1> QED
  BY <1>1, <1>2, <1>6, <1>7, <1>8, <1>9 DEF Answering

(* A packet goes to the slow path because no flow of the classifier        *)
(* matches it: those that took other packets do not.                       *)
LEMMA UpcallLate ==
  ASSUME Inv, Placed, Upcall
  PROVE  Late'
<1> DEFINE q == missed[next].pkt
           d == [pkt |-> q, flow |-> Null]
<1>1. /\ pc = "upcall" /\ next \in 1 .. Len(missed) /\ Len(missed') = Len(missed)
      /\ UNCHANGED <<gone, removed, map, batches, keys>>
      /\ \A j \in 1 .. Len(missed) : missed'[j].pkt = missed[j].pkt
                                     /\ (j # next => missed'[j] = missed[j])
      /\ \A p \in Answered : p < q
      /\ q \in Nat
  BY UpcallFacts
<1>2. SUFFICES ASSUME ~removed
      PROVE  /\ \A i \in 1 .. Len(map) : map[i].flow # Null => Apart(map[i].pkt)'
             /\ \A i \in 1 .. Len(missed) : missed'[i].rule # Null => Apart(missed[i].pkt)'
             /\ \A i \in 1 .. Len(batches) : \A j \in 1 .. Len(batches[i].pkts) :
                  Apart(batches[i].pkts[j])'
  <2>1. (pc' # "idle" /\ ~removed') => ~removed
    BY <1>1
  <2>2. \A p : Apart(p)' <=> \A i \in 1 .. Len(sent') : p < sent'[i].pkt => keys[p] # keys[sent'[i].pkt]
    BY <1>1 DEF Apart
  <2> QED
    BY <1>1, <2>1, <2>2 DEF Late, Apart
<1>3. Late /\ pc # "idle" /\ Standing
  BY <1>1 DEF Placed
<1>4. CASE UNCHANGED sent
  <2>1. \A p : Apart(p)' <=> Apart(p)
    BY <1>1, <1>4 DEF Apart
  <2>2. Apart(q)
    <3>1. \A i \in 1 .. Len(sent) : sent[i].pkt < q /\ sent[i].pkt \in Nat
      <4>1. sent \in Seq(SentEntry)
        BY DEF Placed, Answering
      <4>2. \A i \in 1 .. Len(sent) : sent[i] \in SentEntry
        BY <4>1
      <4>3. \A x \in SentEntry : x.pkt \in Nat
        BY DEF SentEntry
      <4> QED
        BY <1>1, <4>2, <4>3 DEF Answered, Slow
    <3>2. \A i \in 1 .. Len(sent) : ~(q < sent[i].pkt)
      BY <1>1, <3>1
    <3> QED
      BY <3>2 DEF Apart
  <2>3. ASSUME NEW i \in 1 .. Len(missed), missed'[i].rule # Null
        PROVE  Apart(missed[i].pkt)
    BY <1>1, <1>2, <1>3, <2>2, <2>3 DEF Late
  <2> QED
    BY <1>1, <1>2, <1>3, <2>1, <2>3 DEF Late
<1>5. CASE sent' = Append(sent, d) /\ InCls(keys[q]) = {} /\ UNCHANGED missed
  <2> DEFINE n == Len(sent) + 1
  <2>1. sent \in Seq(SentEntry) /\ d \in SentEntry /\ d.pkt = q
    BY <1>1 DEF Placed, Answering, SentEntry
  <2> HIDE DEF d
  <2>2. /\ Len(sent') = n /\ sent'[n] = d
        /\ \A i \in 1 .. Len(sent) : sent'[i] = sent[i]
        /\ \A i \in 1 .. Len(sent') : i \in 1 .. Len(sent) \/ i = n
    BY <1>5, <2>1
  <2> HIDE DEF n, q
  <2>3. ASSUME NEW p, NEW f \in Ref, f # Null, Takes(keys, flow, gone, p, f), Apart(p)
        PROVE  Apart(p)'
    <3>1. f \in InCls(keys[p])
      BY <1>2, <1>3, <2>3, StillIn DEF Ref
    <3>2. keys[p] # keys[q]
      BY <1>5, <3>1
    <3>3. \A i \in 1 .. Len(sent') : p < sent'[i].pkt => keys[p] # keys[sent'[i].pkt]
      BY <2>1, <2>2, <2>3, <3>2 DEF Apart
    <3> QED
      BY <1>1, <3>3 DEF Apart
  <2>4. \A i \in 1 .. Len(map) : map[i].flow # Null => Apart(map[i].pkt)'
    <3>1. \A i \in 1 .. Len(map) : map[i].flow \in Ref /\ Takes(keys, flow, gone, map[i].pkt, map[i].flow)
      BY Elements DEF Inv, Mapped
    <3>2. ASSUME NEW i \in 1 .. Len(map), map[i].flow # Null
          PROVE  Apart(map[i].pkt)'
      <4>1. PICK p : p = map[i].pkt
        OBVIOUS
      <4>2. Apart(p)'
        <5>1. Apart(p)
          BY <1>2, <1>3, <3>2, <4>1 DEF Late
        <5>2. map[i].flow \in Ref /\ Takes(keys, flow, gone, p, map[i].flow)
          BY <3>1, <4>1
        <5> QED
          BY <2>3, <3>2, <5>1, <5>2
      <4> QED
        BY <1>1, <4>1, <4>2
    <3> QED
      BY <3>2
  <2>5. \A i \in 1 .. Len(missed) : missed'[i].rule # Null => Apart(missed[i].pkt)'
    <3>1. \A i \in 1 .. Len(missed) :
            missed[i].rule \in Ref /\ Takes(keys, flow, gone, missed[i].pkt, missed[i].rule)
      BY MissedPacket
    <3> QED
      BY <1>2, <1>3, <1>5, <2>3, <3>1 DEF Late
  <2>6. \A i \in 1 .. Len(batches) : \A j \in 1 .. Len(batches[i].pkts) : Apart(batches[i].pkts[j])'
    <3>1. \A i \in 1 .. Len(batches) : /\ batches[i].flow \in Ref /\ batches[i].flow # Null
                                       /\ \A j \in 1 .. Len(batches[i].pkts) :
                                            Takes(keys, flow, gone, batches[i].pkts[j], batches[i].flow)
      BY Elements, IdsNat DEF Inv, Batching, Fits
    <3>2. ASSUME NEW i \in 1 .. Len(batches), NEW j \in 1 .. Len(batches[i].pkts)
          PROVE  Apart(batches[i].pkts[j])'
      <4>1. PICK p : p = batches[i].pkts[j]
        OBVIOUS
      <4>2. Apart(p)'
        <5>1. Apart(p)
          BY <1>2, <1>3, <4>1 DEF Late
        <5>2. /\ batches[i].flow \in Ref /\ batches[i].flow # Null
              /\ Takes(keys, flow, gone, p, batches[i].flow)
          BY <3>1, <4>1
        <5> QED
          BY <2>3, <5>1, <5>2
      <4> QED
        BY <1>1, <4>1, <4>2
    <3> QED
      BY <3>2
  <2> QED
    BY <2>4, <2>5, <2>6
<1> QED
  BY <1>4, <1>5, UpcallAnswers

LEMMA UpcallPlaced ==
  ASSUME Inv, Placed, Upcall
  PROVE  Placed'
<1>1. /\ pc = "upcall" /\ pc' \in {"upcall", "install", "cache"} /\ next \in 1 .. Len(missed)
      /\ UNCHANGED <<flow, map, batches, keys>> /\ Len(missed') = Len(missed)
      /\ \A j \in 1 .. Len(missed) : missed'[j].at = missed[j].at
  BY UpcallFacts
<1>2. Numbered' /\ Queueing'
  BY <1>1, Unmoved DEF BatchKept
<1>3. Waiting'
  <2>1. missed[next].at \in 1 .. Len(map) /\ map[missed[next].at].pkt = missed[next].pkt
    BY <1>1, MissedPacket
  <2>2. \A i, j \in 1 .. Len(map) : map[i].pkt = map[j].pkt => i = j
    <3>1. Early \in Nat /\ \A i \in 1 .. Len(map) : map[i].pkt = Early + i
      BY PlacedFacts
    <3> QED
      BY <3>1
  <2>3. \A i \in 1 .. Len(map) : map[i].pkt = missed[next].pkt => missed[next].at = i
    BY <2>1, <2>2
  <2>4. Answered' \subseteq Answered \cup {missed[next].pkt} /\ Answered \subseteq Answered'
    BY UpcallAnswers
  <2>5. \A i \in 1 .. Len(map) : map[i].flow = Null <=>
          map[i].pkt \in Answered' \/ \E j \in 1 .. Len(missed) : missed[j].at = i
    BY <1>1, <2>3, <2>4 DEF Placed, Waiting
  <2> QED
    BY <1>1, <2>5 DEF Placed, Waiting
<1>4. Standing'
  BY PmdStands DEF Placed, Pmd
<1> QED
  BY <1>2, <1>3, <1>4, UpcallAnswering, UpcallLate DEF Placed

(* The slow path installs a flow for a packet it has executed.             *)
LEMMA StayPlaced ==
  ASSUME Inv, Placed, pc \in {"install", "insert"}, pc' \in {"insert", "upcall", "cache"},
         UNCHANGED <<map, missed, batches, keys, sent, lost, removed>>, BatchKept, Seen' = Seen,
         Standing'
  PROVE  Placed'
<1>1. Early' = Early /\ Numbered' /\ Queueing'
  BY Unmoved
<1>2. Slow' = Slow /\ Answered' = Answered
  BY DEF Slow, Answered
<1>3. Answering' /\ Waiting'
  BY <1>1, <1>2 DEF Placed, Answering, Waiting
<1>4. Late'
  <2>1. \A p : Apart(p)' <=> Apart(p)
    BY DEF Apart
  <2> QED
    BY <2>1 DEF Placed, Late
<1> QED
  BY <1>1, <1>3, <1>4 DEF Placed

LEMMA InstallPlaced ==
  ASSUME Inv, Placed, Install
  PROVE  Placed'
<1>1. /\ pc = "install" /\ pc' = "insert" /\ next' = next
      /\ UNCHANGED <<map, missed, batches, keys, sent, lost, removed>>
      /\ \/ flow' = flow
         \/ \E m \in Mega : \E f \in Free : flow' = [flow EXCEPT ![f] = Whole(m)]
  BY DEF Install, At, pmdFrame, result
<1>2. BatchKept
  <2>1. CASE flow' = flow
    BY <2>1 DEF BatchKept
  <2>2. ASSUME NEW m \in Mega, NEW f \in Free, flow' = [flow EXCEPT ![f] = Whole(m)]
        PROVE  BatchKept
    <3>1. flow \in [Ids -> FlowType] /\ f \in Ids /\ ~flow[f].used
      BY InvTypes DEF Free
    <3>2. flow[f] = NoFlow
      BY <3>1 DEF Inv, References, Referred, Sound
    <3>3. Whole(m).batch = NoFlow.batch
      BY DEF Whole, New, NoFlow
    <3> QED
      BY <2>2, <3>1, <3>2, <3>3 DEF BatchKept
  <2> QED
    BY <1>1, <2>1, <2>2
<1>3. Seen' = Seen
  BY <1>1 DEF Seen
<1>4. Standing'
  BY PmdStands DEF Placed, Pmd
<1> QED
  BY <1>1, <1>2, <1>3, <1>4, StayPlaced

LEMMA InsertPlaced ==
  ASSUME Inv, Placed, Insert
  PROVE  Placed'
<1>1. /\ pc = "insert" /\ UNCHANGED <<map, missed, batches, keys, sent, lost, removed>>
      /\ \/ next < Len(missed) /\ pc' = "upcall" /\ next' = next + 1
         \/ ~(next < Len(missed)) /\ pc' = "cache"
  BY DEF Insert, At, Goto, pmdFrame, result
<1>2. next \in 1 .. Len(missed) /\ next \in Nat /\ Len(missed) \in Nat
  BY <1>1, InvTypes DEF Inv, Staged
<1>3. Seen = next
  BY <1>1 DEF Seen
<1>4. Seen' = next
  <2>1. CASE pc' = "upcall" /\ next' = next + 1
    <3>1. Seen' = next' - 1
      BY <2>1 DEF Seen
    <3> QED
      BY <1>2, <2>1, <3>1
  <2>2. CASE ~(next < Len(missed)) /\ pc' = "cache"
    <3>1. Seen' = Len(missed')
      BY <2>2 DEF Seen
    <3> QED
      BY <1>1, <1>2, <2>2, <3>1
  <2> QED
    BY <1>1, <2>1, <2>2
<1>5. BatchKept /\ Standing'
  BY InsertAlike, PmdStands DEF Placed, Pmd
<1> QED
  BY <1>1, <1>3, <1>4, <1>5, StayPlaced

(* The last loop of fast_path_processing, for one packet.                  *)
LEMMA CachePlaced ==
  ASSUME Inv, Placed, Cache
  PROVE  Placed'
<1> DEFINE e == missed[next]
           m == Len(missed)
<1>1. /\ pc = "cache" /\ missed' = Tail(missed)
      /\ UNCHANGED <<batches, keys, sent, lost, ctl, gone, removed>>
      /\ \/ pc' = "cache"
         \/ ~(1 <= Len(missed')) /\ pc' = "flush"
      /\ IF e.rule = Null THEN UNCHANGED <<flow, map>>
         ELSE EmcInsert(keys[e.pkt], e.rule) /\ Hit(e, e.rule)
  BY DEF Cache, At, Loop, Goto, stage, result, pmdFrame, Shared, Missed
<1>2. missed # <<>> /\ next = 1 /\ missed \in Seq(MissEntry) /\ m \in Nat
  BY <1>1, InvTypes DEF Inv, Staged
<1>3. next \in 1 .. m
  BY <1>2
<1>4. Without(missed', missed, next)
  BY <1>1, <1>2, TailIs
<1>5. Seen = m
  BY <1>1 DEF Seen
<1>6. \A j \in 1 .. m : missed[j].pkt \in Answered <=> missed[j].rule = Null
  BY <1>2, <1>5 DEF Placed, Answering
<1>7. BatchKept
  <2>1. CASE e.rule = Null
    BY <1>1, <2>1 DEF BatchKept
  <2>2. CASE e.rule # Null
    BY <1>1, <2>2, CacheAlike DEF Missed
  <2> QED
    BY <2>1, <2>2
<1>8. /\ Waiting' /\ Len(map') = Len(map)
      /\ \A i \in 1 .. Len(map) : map'[i].pkt = map[i].pkt
      /\ \A i \in 1 .. Len(map) : i # e.at => map'[i] = map[i]
  <2>1. e.rule \in Ref
    BY <1>3, MissedPacket
  <2>2. \/ /\ e.pkt \notin Answered
           /\ \E f \in Ref : f # Null /\ Hit(e, f)
        \/ e.pkt \in Answered /\ UNCHANGED map
    BY <1>1, <1>3, <1>6, <2>1
  <2> QED
    BY <1>1, <1>3, <1>4, <2>2, MissedLess
<1>9. Early' = Early /\ Numbered' /\ Queueing'
  BY <1>1, <1>7, <1>8, Unmoved
<1>10. Slow' = Slow /\ Answered' = Answered
  BY <1>1 DEF Slow, Answered
<1>11. /\ Len(missed') = m - 1 /\ Len(missed') \in Nat
       /\ \A j \in 1 .. Len(missed') : Shift(next, j) \in 1 .. m /\ missed'[j] = missed[Shift(next, j)]
  <2>1. \A j \in 1 .. m - 1 : Shift(next, j) \in 1 .. m
    BY <1>2, <1>3, ShiftFacts
  <2>2. Len(missed') = m - 1 /\ \A j \in 1 .. Len(missed') : missed'[j] = missed[Shift(next, j)]
    BY <1>4 DEF Without
  <2> HIDE DEF m
  <2>3. m - 1 \in Nat
    BY <1>2, <1>3
  <2> QED
    BY <2>1, <2>2, <2>3
<1>12. \A j \in 1 .. Len(missed') : missed'[j].pkt \in Answered' <=> missed'[j].rule = Null /\ j <= Seen'
  <2>1. \A j \in 1 .. Len(missed') : missed'[j].pkt \in Answered <=> missed'[j].rule = Null
    BY <1>6, <1>11
  <2>2. CASE pc' = "cache"
    <3>1. Seen' = Len(missed')
      BY <2>2 DEF Seen
    <3> QED
      BY <1>10, <1>11, <2>1, <3>1
  <2>3. CASE ~(1 <= Len(missed'))
    BY <1>11, <2>3
  <2> QED
    BY <1>1, <2>2, <2>3
<1>13. Answering'
  BY <1>1, <1>9, <1>10, <1>12 DEF Placed, Answering
<1>14. Late'
  <2>1. \A p : Apart(p)' <=> Apart(p)
    BY <1>1 DEF Apart
  <2>2. SUFFICES ASSUME pc # "idle", ~removed
        PROVE  /\ \A i \in 1 .. Len(map') : map'[i].flow # Null => Apart(map'[i].pkt)
               /\ \A i \in 1 .. Len(missed') : missed'[i].rule # Null => Apart(missed'[i].pkt)
               /\ \A i \in 1 .. Len(batches') : \A j \in 1 .. Len(batches'[i].pkts) :
                    Apart(batches'[i].pkts[j])
    BY <1>1, <2>1 DEF Late, Apart
  <2>3. Late
    BY DEF Placed
  <2>4. ASSUME NEW i \in 1 .. Len(missed'), missed'[i].rule # Null
        PROVE  Apart(missed'[i].pkt)
    BY <1>11, <2>2, <2>3, <2>4 DEF Late
  <2>5. ASSUME NEW i \in 1 .. Len(map'), map'[i].flow # Null
        PROVE  Apart(map'[i].pkt)
    <3>1. i \in 1 .. Len(map) /\ map'[i].pkt = map[i].pkt
      BY <1>8
    <3>2. CASE map[i].flow # Null
      BY <2>2, <2>3, <3>1, <3>2 DEF Late
    <3>3. CASE map[i].flow = Null
      <4>1. map'[i] # map[i]
        BY <2>5, <3>3
      <4>2. e.at = i /\ e.rule # Null
        BY <1>1, <1>8, <3>1, <4>1
      <4>3. map[i].pkt = e.pkt
        BY <1>3, <4>2, MissedPacket
      <4> QED
        BY <1>3, <2>2, <2>3, <3>1, <4>2, <4>3 DEF Late
    <3> QED
      BY <3>2, <3>3
  <2> QED
    BY <1>1, <2>2, <2>3, <2>4, <2>5 DEF Late
<1>15. Standing'
  BY PmdStands DEF Placed, Pmd
<1> QED
  BY <1>8, <1>9, <1>13, <1>14, <1>15 DEF Placed

-----------------------------------------------------------------------------
(* Between two batches nothing is placed.                                  *)
LEMMA InitPlaced ==
  ASSUME Init
  PROVE  Placed
<1>1. /\ pc = "idle" /\ map = <<>> /\ missed = <<>> /\ batches = <<>> /\ keys = <<>>
      /\ sent = <<>> /\ lost = {} /\ \A f \in Ids : flow[f] = NoFlow
  BY DEF Init
<1>2. Numbered /\ Late
  BY <1>1 DEF Numbered, Late
<1>3. Early = 0
  <2>1. Len(keys) = 0 /\ Len(map) = 0
    BY <1>1
  <2>2. Taken = 0
    BY <1>1, <2>1 DEF Taken
  <2> QED
    BY <2>1, <2>2 DEF Early
<1>4. Queueing
  BY <1>1, <1>3 DEF Queueing, Queues, Owned, Sorted, Disjoint, Within, Covers
<1>5. Answered = {} /\ Slow = {}
  BY <1>1 DEF Slow, Answered
<1>6. Answering /\ Waiting
  BY <1>1, <1>5, EmptySeq DEF Answering, Waiting
<1>7. Standing
  BY <1>1 DEF Standing, Stands, NoFlow
<1> QED
  BY <1>2, <1>4, <1>6, <1>7 DEF Placed

(* Every step keeps the packets in their place.                            *)
LEMMA NextPlaced ==
  ASSUME Inv, Placed, Next
  PROVE  Placed'
<1>1. Side /\ Standing /\ removed \in BOOLEAN
  BY InvSide, InvTypes DEF Placed
<1>2. CASE Receive
  BY <1>2, ReceivePlaced
<1>3. CASE Pmd
  BY <1>3, DfcPlaced, SmcPlaced, ClsPlaced, TryLockPlaced, UpcallPlaced, InstallPlaced,
     InsertPlaced, CachePlaced, FlushPlaced DEF Pmd
<1>4. CASE Quiesce \/ Housekeep
  <2>1. /\ pc = "idle" /\ pc' = "idle"
        /\ UNCHANGED <<map, missed, batches, keys, sent, lost>>
    BY <1>4 DEF Quiesce, Housekeep, At, stage, result
  <2> QED
    BY <1>1, <1>4, <2>1, HouseStands, IdlePlaced
<1>5. CASE Control
  <2>1. ControlSided
    BY <1>1, <1>5, PutTableSide, PutSimpleSide, RemoveSimpleSide, RemoveTableSide, SetDeadSide
    DEF Control
  <2>2. UNCHANGED ctlFrame /\ BatchKept
    BY <2>1 DEF ControlSided
  <2>3. ~removed' => ~removed
    BY <1>5 DEF Control, PutTable, PutSimple, RemoveSimple, RemoveTable, SetDead
  <2> QED
    BY <1>1, <1>5, <2>2, <2>3, ControlStands, ControlPlaced
<1>6. ASSUME NEW m \in Mega, PutBegin(m)
      PROVE  Placed'
  <2>1. UNCHANGED ctlFrame /\ BatchKept
    BY <1>1, <1>6, PutBeginSide DEF ControlSided
  <2>2. ~removed' => ~removed
    BY <1>6 DEF PutBegin
  <2> QED
    BY <1>1, <1>6, <2>1, <2>2, PutBeginStands, ControlPlaced
<1>7. ASSUME NEW f \in Ids, RemoveCls(f)
      PROVE  Placed'
  <2>1. UNCHANGED ctlFrame /\ BatchKept
    BY <1>1, <1>7, RemoveClsSide DEF ControlSided
  <2>2. ~removed' => ~removed
    BY <1>7 DEF RemoveCls
  <2> QED
    BY <1>1, <1>7, <2>1, <2>2, RemoveClsStands, ControlPlaced
<1> QED
  BY <1>2, <1>3, <1>4, <1>5, <1>6, <1>7 DEF Next

LEMMA StutterPlaced ==
  ASSUME Inv, Placed, UNCHANGED vars
  PROVE  Placed'
<1>1. UNCHANGED ctlFrame /\ UNCHANGED <<flow, removed>>
  BY DEF vars, ctlFrame, stage, result
<1>2. UNCHANGED <<pc, gone, ctl>>
  BY DEF vars
<1>3. Standing'
  BY <1>1, <1>2, StandsKept DEF Placed
<1> QED
  BY <1>1, <1>3, InvTypes, ControlPlaced DEF BatchKept

(* Each packet is in one place, and in order (dp_netdev_input__).          *)
THEOREM Placement == Spec => [](Inv /\ Placed)
<1>1. Init => Inv /\ Placed
  BY InitInv, InitPlaced
<1>2. (Inv /\ Placed) /\ [Next]_vars => (Inv /\ Placed)'
  BY NextInv, StutterInv, NextPlaced, StutterPlaced
<1> QED
  BY <1>1, <1>2, PTL DEF Spec

-----------------------------------------------------------------------------
(* What has been executed when dp_netdev_input__ returns.                  *)
Entry == [pkt : Nat, flow : Ref]

(* The batches as they are executed, one after the other.                  *)
Rows(bs) == [i \in DOMAIN bs |-> [j \in DOMAIN bs[i].pkts |->
                                    [pkt |-> bs[i].pkts[j], flow |-> bs[i].flow]]]

LEMMA RowsFacts ==
  ASSUME NEW bs \in Seq(BatchEntry)
  PROVE  /\ Rows(bs) \in Seq(Seq(Entry)) /\ Len(Rows(bs)) = Len(bs)
         /\ \A i \in 1 .. Len(bs) :
              /\ Len(Rows(bs)[i]) = Len(bs[i].pkts)
              /\ \A j \in 1 .. Len(bs[i].pkts) :
                   Rows(bs)[i][j] = [pkt |-> bs[i].pkts[j], flow |-> bs[i].flow]
<1> DEFINE R(i) == [j \in DOMAIN bs[i].pkts |-> [pkt |-> bs[i].pkts[j], flow |-> bs[i].flow]]
<1>1. DOMAIN bs = 1 .. Len(bs) /\ Len(bs) \in Nat /\ \A i \in 1 .. Len(bs) : bs[i] \in BatchEntry
  OBVIOUS
<1>2. \A b \in BatchEntry : b.flow \in Ref /\ b.pkts \in Seq(Nat)
  BY DEF BatchEntry, Ref
<1>3. ASSUME NEW i \in 1 .. Len(bs)
      PROVE  /\ R(i) \in Seq(Entry) /\ Len(R(i)) = Len(bs[i].pkts)
             /\ \A j \in 1 .. Len(bs[i].pkts) :
                  R(i)[j] = [pkt |-> bs[i].pkts[j], flow |-> bs[i].flow]
  <2> DEFINE q == bs[i].pkts
             f == bs[i].flow
  <2>1. q \in Seq(Nat) /\ f \in Ref
    BY <1>1, <1>2
  <2>2. R(i) = [j \in DOMAIN q |-> [pkt |-> q[j], flow |-> f]]
    OBVIOUS
  <2> HIDE DEF q, f, R
  <2>3. DOMAIN q = 1 .. Len(q) /\ Len(q) \in Nat /\ \A j \in 1 .. Len(q) : q[j] \in Nat
    BY <2>1
  <2>4. \A j \in 1 .. Len(q) : [pkt |-> q[j], flow |-> f] \in Entry
    BY <2>1, <2>3 DEF Entry
  <2>5. R(i) \in Seq(Entry) /\ Len(R(i)) = Len(q)
    BY <2>2, <2>3, <2>4
  <2>6. \A j \in 1 .. Len(q) : R(i)[j] = [pkt |-> q[j], flow |-> f]
    BY <2>2, <2>3
  <2> QED
    BY <2>5, <2>6 DEF q, f
<1>4. Rows(bs) = [i \in 1 .. Len(bs) |-> R(i)]
  BY <1>1 DEF Rows
<1> HIDE DEF R
<1>5. Rows(bs) \in Seq(Seq(Entry)) /\ Len(Rows(bs)) = Len(bs)
  BY <1>1, <1>3, <1>4
<1>6. \A i \in 1 .. Len(bs) : Rows(bs)[i] = R(i)
  BY <1>4
<1> QED
  BY <1>3, <1>5, <1>6

(* The batches execute the packets that have a flow: each once, those of   *)
(* one flow in order.                                                      *)
ByFlow(o) ==
  /\ \A k, l \in 1 .. Len(o) : k < l => o[k].pkt # o[l].pkt
  /\ \A k, l \in 1 .. Len(o) : k < l => o[k].pkt < o[l].pkt \/ o[k].flow # o[l].flow
  /\ \A k \in 1 .. Len(o) : o[k].flow # Null
  /\ {o[k].pkt : k \in 1 .. Len(o)} = (1 .. Early) \cup Mappings

LEMMA Executed ==
  ASSUME Inv, Placed
  PROVE  \E o \in Seq(Entry) : Outcome = sent \o o /\ ByFlow(o)
<1> DEFINE bs == Batched.batches
           ss == Rows(bs)
           o == FlattenSeq(ss)
           P == (1 .. Early) \cup Mappings
<1>1. Outcome = sent \o o
  BY DEF Outcome, Rows
<1>2. PICK fl : BatchesOf(fl, bs, P)
  BY PlacedFacts, BatchedQueues
<1> HIDE DEF bs, P
<1>3. /\ bs \in Seq(BatchEntry) /\ Len(bs) \in Nat /\ Owned(fl, bs) /\ Sorted(bs) /\ Disjoint(bs)
      /\ Within(bs, P) /\ Covers(bs, P) /\ \A i \in 1 .. Len(bs) : bs[i].flow \in Ids
  BY <1>2, BatchesParts
<1>4. /\ ss \in Seq(Seq(Entry)) /\ Len(ss) = Len(bs)
      /\ \A i \in 1 .. Len(bs) : Len(ss[i]) = Len(bs[i].pkts)
      /\ \A i \in 1 .. Len(bs) : \A j \in 1 .. Len(bs[i].pkts) :
           ss[i][j] = [pkt |-> bs[i].pkts[j], flow |-> bs[i].flow]
  BY <1>3, RowsFacts
<1> HIDE DEF ss
<1>5. o \in Seq(Entry) /\ \E row, col : Flat(o, ss, Len(ss), row, col)
  BY <1>4, Flattened
<1>6. PICK row, col : Flat(o, ss, Len(ss), row, col)
  BY <1>5
<1>7. Len(o) \in Nat
  BY <1>5
<1> HIDE DEF o
<1>8. \A k \in 1 .. Len(o) :
        /\ row[k] \in 1 .. Len(bs) /\ col[k] \in 1 .. Len(bs[row[k]].pkts)
        /\ o[k].pkt = bs[row[k]].pkts[col[k]] /\ o[k].flow = bs[row[k]].flow
  <2> SUFFICES ASSUME NEW k \in 1 .. Len(o)
               PROVE  /\ row[k] \in 1 .. Len(bs) /\ col[k] \in 1 .. Len(bs[row[k]].pkts)
                      /\ o[k].pkt = bs[row[k]].pkts[col[k]] /\ o[k].flow = bs[row[k]].flow
    OBVIOUS
  <2>1. PICK i, j : i = row[k] /\ j = col[k]
    OBVIOUS
  <2>2. i \in 1 .. Len(ss) /\ j \in 1 .. Len(ss[i]) /\ o[k] = ss[i][j]
    BY <1>6, <2>1 DEF Flat
  <2>3. i \in 1 .. Len(bs) /\ j \in 1 .. Len(bs[i].pkts)
    BY <1>4, <2>2
  <2>4. o[k] = [pkt |-> bs[i].pkts[j], flow |-> bs[i].flow]
    BY <1>4, <2>2, <2>3
  <2> QED
    BY <2>1, <2>3, <2>4
<1>9. ASSUME NEW k \in 1 .. Len(o), NEW l \in 1 .. Len(o), k < l
      PROVE  o[k].pkt # o[l].pkt /\ (o[k].pkt < o[l].pkt \/ o[k].flow # o[l].flow)
  <2>1. row[k] < row[l] \/ (row[k] = row[l] /\ col[k] < col[l])
    BY <1>6, <1>9 DEF Flat
  <2>2. PICK i, h, j, g : i = row[k] /\ h = row[l] /\ j = col[k] /\ g = col[l]
    OBVIOUS
  <2>3. /\ i \in 1 .. Len(bs) /\ h \in 1 .. Len(bs)
        /\ j \in 1 .. Len(bs[i].pkts) /\ g \in 1 .. Len(bs[h].pkts)
        /\ o[k].pkt = bs[i].pkts[j] /\ o[k].flow = bs[i].flow
        /\ o[l].pkt = bs[h].pkts[g] /\ o[l].flow = bs[h].flow
    BY <1>8, <2>2
  <2>4. CASE i = h /\ j < g
    <3>1. bs[i].pkts[j] < bs[i].pkts[g]
      BY <1>3, <2>3, <2>4 DEF Sorted
    <3>2. bs[i].pkts \in Seq(Nat)
      BY <1>2, <2>3, BatchesParts
    <3>3. bs[i].pkts[j] \in Nat /\ bs[i].pkts[g] \in Nat
      <4>1. PICK q : q = bs[i].pkts
        OBVIOUS
      <4>2. q \in Seq(Nat) /\ j \in 1 .. Len(q) /\ g \in 1 .. Len(q)
        BY <2>3, <2>4, <3>2, <4>1
      <4>3. q[j] \in Nat /\ q[g] \in Nat
        BY ONLY <4>2
      <4> QED
        BY <4>1, <4>3
    <3>4. \A x, y \in Nat : x < y => x # y
      OBVIOUS
    <3> QED
      BY <2>3, <2>4, <3>1, <3>3, <3>4
  <2>5. CASE i < h
    <3>1. i # h
      BY <1>3, <2>3, <2>5
    <3>2. bs[i].pkts[j] # bs[h].pkts[g]
      BY <1>3, <2>3, <3>1 DEF Disjoint
    <3>3. bs[i].flow # bs[h].flow
      BY <1>3, <2>3, <3>1 DEF Owned
    <3> QED
      BY <2>3, <3>2, <3>3
  <2> QED
    BY <2>1, <2>2, <2>4, <2>5
<1>10. \A k \in 1 .. Len(o) : o[k].flow # Null
  BY <1>3, <1>8, IdsNat
<1>11. {o[k].pkt : k \in 1 .. Len(o)} \subseteq P
  BY <1>3, <1>8 DEF Within
<1>12. ASSUME NEW p \in P
       PROVE  \E k \in 1 .. Len(o) : o[k].pkt = p
  <2>1. PICK i \in 1 .. Len(bs) : \E j \in 1 .. Len(bs[i].pkts) : bs[i].pkts[j] = p
    BY <1>3 DEF Covers
  <2>2. PICK j \in 1 .. Len(bs[i].pkts) : bs[i].pkts[j] = p
    BY <2>1
  <2>3. PICK k \in 1 .. Len(o) : row[k] = i /\ col[k] = j
    <3>1. i \in 1 .. Len(ss) /\ j \in 1 .. Len(ss[i])
      BY <1>4, <2>2
    <3> QED
      BY <1>6, <3>1 DEF Flat
  <2> QED
    BY <1>8, <2>2, <2>3
<1>13. {o[k].pkt : k \in 1 .. Len(o)} = P
  BY <1>11, <1>12
<1> QED
  BY <1>1, <1>5, <1>9, <1>10, <1>13 DEF ByFlow, P

(* The slow path's packets, then those of the batches.                     *)
LEMMA Executions ==
  ASSUME NEW o \in Seq(Entry), sent \in Seq(SentEntry)
  PROVE  LET out == sent \o o
             n == Len(sent) IN
         /\ DOMAIN out = 1 .. n + Len(o) /\ n \in Nat /\ Len(o) \in Nat
         /\ \A i \in 1 .. n : out[i] = sent[i]
         /\ \A i \in DOMAIN out : i \notin 1 .. n => i - n \in 1 .. Len(o) /\ out[i] = o[i - n]
         /\ \A k \in 1 .. Len(o) : n + k \in DOMAIN out /\ out[n + k] = o[k]
         /\ \A i \in 1 .. n : sent[i].pkt \in Nat /\ sent[i].flow = Null
         /\ \A k \in 1 .. Len(o) : o[k].pkt \in Nat
<1> DEFINE out == sent \o o
           n == Len(sent)
<1>1. \A e \in SentEntry : e \in Entry /\ e.pkt \in Nat /\ e.flow = Null
  BY DEF SentEntry, Entry, Ref
<1>2. n \in Nat /\ Len(o) \in Nat /\ sent \in Seq(Entry)
      /\ \A i \in 1 .. n : sent[i] \in SentEntry
  BY <1>1
<1>3. \A k \in 1 .. Len(o) : o[k] \in Entry
  OBVIOUS
<1>4. \A k \in 1 .. Len(o) : o[k].pkt \in Nat
  BY <1>3 DEF Entry
<1>5. /\ out \in Seq(Entry) /\ Len(out) = n + Len(o)
      /\ \A k \in 1 .. n : out[k] = sent[k]
      /\ \A k \in 1 .. Len(o) : out[n + k] = o[k]
  BY <1>2, ConcatFacts
<1>6. DOMAIN out = 1 .. Len(out)
  BY <1>5
<1> HIDE DEF out
<1>7. ASSUME NEW i \in 1 .. n + Len(o), i \notin 1 .. n
      PROVE  i - n \in 1 .. Len(o) /\ out[i] = o[i - n]
  <2> HIDE DEF n
  <2>1. i - n \in 1 .. Len(o) /\ i = n + (i - n)
    BY <1>2, <1>7
  <2> QED
    BY <1>5, <2>1
<1>8. \A k \in 1 .. Len(o) : n + k \in 1 .. n + Len(o)
  <2> HIDE DEF n
  <2> QED
    BY <1>2
<1> QED
  BY <1>1, <1>2, <1>4, <1>5, <1>6, <1>7, <1>8 DEF out

-----------------------------------------------------------------------------
(* At the end each packet was executed by the slow path, dropped, or       *)
(* executed in a batch.                                                    *)
LEMMA Partition ==
  ASSUME Inv, Placed, pc = "flush"
  PROVE  /\ ((1 .. Early) \cup Mappings) \cap Answered = {}
         /\ (1 .. Early) \cup Mappings \cup Answered = DOMAIN keys
         /\ DOMAIN keys \subseteq Nat
<1>1. /\ Early \in Nat /\ Early + Len(map) = Len(keys) /\ Len(map) \in Nat /\ Len(keys) \in Nat
      /\ \A i \in 1 .. Len(map) : map[i].pkt = Early + i
  BY PlacedFacts, InvTypes DEF Taken
<1>2. DOMAIN keys = 1 .. Len(keys)
  BY InvTypes
<1>3. Answered \subseteq Early + 1 .. Len(keys)
  BY DEF Placed, Answering
<1>4. \A i \in 1 .. Len(map) : map[i].flow = Null <=> map[i].pkt \in Answered
  <2>1. Len(missed) = 0
    BY DEF Inv, Staged
  <2> QED
    BY <2>1 DEF Placed, Waiting
<1>5. Mappings \subseteq Early + 1 .. Len(keys) /\ Mappings \cap Answered = {}
  BY <1>1, <1>4 DEF Mappings
<1>6. \A p \in 1 .. Early : p \notin Answered /\ p \in 1 .. Len(keys)
  BY <1>1, <1>3
<1>7. ASSUME NEW p \in 1 .. Len(keys), p \notin 1 .. Early, p \notin Answered
      PROVE  p \in Mappings
  <2> DEFINE i == p - Early
  <2>1. i \in 1 .. Len(map) /\ p = Early + i
    BY <1>1, <1>7
  <2> HIDE DEF i
  <2>2. map[i].pkt = p /\ map[i].flow # Null
    BY <1>1, <1>4, <1>7, <2>1
  <2> QED
    BY <2>1, <2>2 DEF Mappings
<1>8. Early + 1 .. Len(keys) \subseteq 1 .. Len(keys)
  BY <1>1
<1>9. Answered \subseteq 1 .. Len(keys) /\ Mappings \subseteq 1 .. Len(keys)
  BY <1>3, <1>5, <1>8
<1>10. ((1 .. Early) \cup Mappings) \cap Answered = {}
  BY <1>5, <1>6
<1>11. (1 .. Early) \cup Mappings \cup Answered = 1 .. Len(keys)
  BY <1>6, <1>7, <1>9
<1>12. 1 .. Len(keys) \subseteq Nat
  BY <1>1
<1> QED
  BY <1>2, <1>10, <1>11, <1>12

(* EachOnce, at the end and between two batches.                           *)
LEMMA InvEachOnce ==
  ASSUME Inv, Placed
  PROVE  EachOnce
<1>1. ASSUME pc = "flush"
      PROVE  LET out == Outcome IN
             /\ IsInjective([i \in DOMAIN out |-> out[i].pkt])
             /\ {out[i].pkt : i \in DOMAIN out} \cup lost = DOMAIN keys
             /\ {out[i].pkt : i \in DOMAIN out} \cap lost = {}
  <2> DEFINE n == Len(sent)
             P == (1 .. Early) \cup Mappings
  <2>1. PICK o \in Seq(Entry) : Outcome = sent \o o /\ ByFlow(o)
    BY Executed
  <2> DEFINE out == sent \o o
  <2>2. /\ sent \in Seq(SentEntry) /\ \A i, j \in 1 .. n : i < j => sent[i].pkt < sent[j].pkt
        /\ Slow \cap lost = {} /\ Slow = {sent[i].pkt : i \in 1 .. n}
    BY DEF Placed, Answering, Slow
  <2>3. /\ DOMAIN out = 1 .. n + Len(o) /\ n \in Nat /\ Len(o) \in Nat
        /\ \A i \in 1 .. n : out[i] = sent[i] /\ sent[i].pkt \in Nat
        /\ \A i \in DOMAIN out : i \notin 1 .. n => i - n \in 1 .. Len(o) /\ out[i] = o[i - n]
        /\ \A k \in 1 .. Len(o) : n + k \in DOMAIN out /\ out[n + k] = o[k]
    BY <2>2, Executions
  <2>4. P \cap Answered = {} /\ P \cup Answered = DOMAIN keys /\ Answered = Slow \cup lost
    BY <1>1, Partition DEF Answered
  <2>5. /\ \A k, l \in 1 .. Len(o) : k < l => o[k].pkt # o[l].pkt
        /\ {o[k].pkt : k \in 1 .. Len(o)} = P
    BY <2>1 DEF ByFlow
  <2> HIDE DEF out, n, P
  <2>6. {out[i].pkt : i \in DOMAIN out} = Slow \cup P
    <3>1. ASSUME NEW i \in DOMAIN out
          PROVE  out[i].pkt \in Slow \cup P
      <4>1. CASE i \in 1 .. n
        BY <2>2, <2>3, <4>1
      <4>2. CASE i \notin 1 .. n
        BY <2>3, <2>5, <4>2
      <4> QED
        BY <4>1, <4>2
    <3>2. ASSUME NEW p \in Slow
          PROVE  \E i \in DOMAIN out : out[i].pkt = p
      <4>1. PICK i \in 1 .. n : sent[i].pkt = p
        BY <2>2
      <4>2. i \in DOMAIN out
        BY <2>3
      <4> QED
        BY <2>3, <4>1, <4>2
    <3>3. ASSUME NEW p \in P
          PROVE  \E i \in DOMAIN out : out[i].pkt = p
      BY <2>3, <2>5
    <3> QED
      BY <3>1, <3>2, <3>3
  <2>7. ASSUME NEW i \in DOMAIN out, NEW j \in DOMAIN out, i < j
        PROVE  out[i].pkt # out[j].pkt
    <3>1. CASE j \in 1 .. n
      <4>1. i \in 1 .. n
        BY <2>3, <2>7, <3>1
      <4>2. sent[i].pkt < sent[j].pkt /\ sent[i].pkt \in Nat /\ sent[j].pkt \in Nat
        BY <2>2, <2>3, <2>7, <3>1, <4>1
      <4>3. \A x, y \in Nat : x < y => x # y
        OBVIOUS
      <4> QED
        BY <2>3, <3>1, <4>1, <4>2, <4>3
    <3>2. CASE i \in 1 .. n /\ j \notin 1 .. n
      <4>1. out[i].pkt \in Slow /\ out[j].pkt \in P
        BY <2>2, <2>3, <2>5, <3>2
      <4> QED
        BY <2>4, <4>1
    <3>3. CASE i \notin 1 .. n /\ j \notin 1 .. n
      <4>1. /\ i - n \in 1 .. Len(o) /\ j - n \in 1 .. Len(o)
            /\ out[i] = o[i - n] /\ out[j] = o[j - n]
        BY <2>3, <3>3
      <4>2. i - n < j - n
        BY <2>3, <2>7
      <4> QED
        BY <2>5, <4>1, <4>2
    <3> QED
      BY <3>1, <3>2, <3>3
  <2>8. IsInjective([i \in DOMAIN out |-> out[i].pkt])
    <3>1. \A i, j \in DOMAIN out : i < j \/ j < i \/ i = j
      BY <2>3
    <3> HIDE DEF out
    <3> DEFINE ps == [i \in DOMAIN out |-> out[i].pkt]
    <3> SUFFICES ASSUME NEW a \in DOMAIN out, NEW b \in DOMAIN out, ps[a] = ps[b]
                 PROVE  a = b
      BY DEF IsInjective
    <3>2. out[a].pkt = out[b].pkt
      OBVIOUS
    <3> HIDE DEF ps
    <3> QED
      BY <2>7, <3>1, <3>2
  <2>9. Outcome = out
    BY <2>1 DEF out
  <2>10. PICK W : W = {out[i].pkt : i \in DOMAIN out}
    OBVIOUS
  <2>11. W \cup lost = DOMAIN keys /\ W \cap lost = {}
    <3>1. W = Slow \cup P
      BY <2>6, <2>10
    <3>2. Slow \cap lost = {}
      BY <2>2
    <3> QED
      BY <2>4, <3>1, <3>2
  <2>12. /\ {out[i].pkt : i \in DOMAIN out} \cup lost = DOMAIN keys
         /\ {out[i].pkt : i \in DOMAIN out} \cap lost = {}
    BY <2>10, <2>11
  <2> QED
    BY <2>8, <2>9, <2>12
<1>2. ASSUME pc = "idle", NEW f \in Ids
      PROVE  flow[f].batch = Null
  <2>1. Len(batches) = 0
    BY <1>2 DEF Inv, Staged
  <2> QED
    BY <2>1 DEF Inv, Known
<1> QED
  BY <1>1, <1>2 DEF EachOnce

(* InOrder, at the end.                                                    *)
LEMMA InvInOrder ==
  ASSUME Inv, Placed
  PROVE  InOrder
<1> SUFFICES ASSUME pc = "flush"
             PROVE  LET out == Outcome IN
                    \A i, j \in DOMAIN out : i < j =>
                      \/ out[i].pkt < out[j].pkt
                      \/ out[i].flow # Null /\ out[i].flow # out[j].flow
                      \/ out[i].flow = Null /\ (removed \/ keys[out[i].pkt] # keys[out[j].pkt])
  BY DEF InOrder
<1> DEFINE n == Len(sent)
           P == (1 .. Early) \cup Mappings
<1>1. PICK o \in Seq(Entry) : Outcome = sent \o o /\ ByFlow(o)
  BY Executed
<1> DEFINE out == sent \o o
<1>2. sent \in Seq(SentEntry) /\ \A i, j \in 1 .. n : i < j => sent[i].pkt < sent[j].pkt
  BY DEF Placed, Answering
<1>3. /\ DOMAIN out = 1 .. n + Len(o) /\ n \in Nat /\ Len(o) \in Nat
      /\ \A i \in 1 .. n : out[i] = sent[i] /\ sent[i].pkt \in Nat /\ sent[i].flow = Null
      /\ \A i \in DOMAIN out : i \notin 1 .. n => i - n \in 1 .. Len(o) /\ out[i] = o[i - n]
      /\ \A k \in 1 .. Len(o) : o[k].pkt \in Nat
  BY <1>2, Executions
<1>4. P \cap Slow = {} /\ \A i \in 1 .. n : sent[i].pkt \in Slow
  BY Partition DEF Answered, Slow
<1>5. ASSUME ~removed, NEW p \in P
      PROVE  Apart(p)
  <2>1. Late /\ Queueing /\ pc # "idle"
    BY DEF Placed
  <2>2. CASE p \in 1 .. Early
    <3>1. PICK i \in 1 .. Len(batches) : \E j \in 1 .. Len(batches[i].pkts) : batches[i].pkts[j] = p
      BY <2>1, <2>2 DEF Queueing, Queues, Covers
    <3> QED
      BY <1>5, <2>1, <3>1 DEF Late
  <2>3. CASE p \in Mappings
    BY <1>5, <2>1, <2>3 DEF Late, Mappings
  <2> QED
    BY <2>2, <2>3
<1>6. /\ \A k, l \in 1 .. Len(o) : k < l => o[k].pkt < o[l].pkt \/ o[k].flow # o[l].flow
      /\ \A k \in 1 .. Len(o) : o[k].flow # Null /\ o[k].pkt \in P
  BY <1>1 DEF ByFlow
<1> HIDE DEF out, n, P
<1>7. ASSUME NEW i \in DOMAIN out, NEW j \in DOMAIN out, i < j
      PROVE  \/ out[i].pkt < out[j].pkt
             \/ out[i].flow # Null /\ out[i].flow # out[j].flow
             \/ out[i].flow = Null /\ (removed \/ keys[out[i].pkt] # keys[out[j].pkt])
  <2>1. CASE j \in 1 .. n
    <3>1. i \in 1 .. n
      BY <1>3, <1>7, <2>1
    <3> QED
      BY <1>2, <1>3, <1>7, <2>1, <3>1
  <2>2. CASE i \in 1 .. n /\ j \notin 1 .. n
    <3>1. PICK a, b : a = out[i].pkt /\ b = out[j].pkt
      OBVIOUS
    <3>2. /\ a = sent[i].pkt /\ a \in Nat /\ a \in Slow /\ out[i].flow = Null
          /\ b \in Nat /\ b \in P
      BY <1>3, <1>4, <1>6, <2>2, <3>1
    <3>3. a # b
      BY <1>4, <3>2
    <3>4. a < b \/ b < a
      BY <3>2, <3>3
    <3>5. CASE b < a /\ ~removed
      <4>1. keys[b] # keys[a]
        BY <1>5, <2>2, <3>2, <3>5 DEF Apart, n
      <4> QED
        BY <3>1, <3>2, <4>1
    <3> QED
      BY <3>1, <3>2, <3>4, <3>5
  <2>3. CASE i \notin 1 .. n /\ j \notin 1 .. n
    <3>1. /\ i - n \in 1 .. Len(o) /\ j - n \in 1 .. Len(o)
          /\ out[i] = o[i - n] /\ out[j] = o[j - n]
      BY <1>3, <2>3
    <3>2. i - n < j - n
      BY <1>3, <1>7
    <3> QED
      BY <1>6, <3>1, <3>2
  <2> QED
    BY <2>1, <2>2, <2>3
<1>8. Outcome = out
  BY <1>1 DEF out
<1> QED
  BY <1>7, <1>8

(* Each packet dp_netdev_input__ receives is executed or dropped, once,    *)
(* whichever way it takes: a batch (packet_batch_per_flow_update), the     *)
(* flow_map, or the slow path (handle_packet_upcall); and no flow          *)
(* remembers a batch between two calls (packet_batch_per_flow_init).       *)
THEOREM ExecutedOnce == Spec => []EachOnce
<1>1. Inv /\ Placed => EachOnce
  BY InvEachOnce
<1> QED
  BY <1>1, Placement, PTL

(* The packets of a flow are executed in the order received, because they  *)
(* join its batch in that order (packet_batch_per_flow_update).  The slow  *)
(* path (handle_packet_upcall) executes its packets before the batches: if *)
(* no flow is removed, a packet overtakes none of its microflow there, for *)
(* the flow of the earlier one would have been found for it too.           *)
THEOREM ExecutedInOrder == Spec => []InOrder
<1>1. Inv /\ Placed => InOrder
  BY InvInOrder
<1> QED
  BY <1>1, Placement, PTL

=============================================================================
