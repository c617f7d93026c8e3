----------------------------- MODULE FlowCache -----------------------------
(***************************************************************************)
(* How a PMD thread of dpif-netdev.c classifies a batch of packets         *)
(* (dp_netdev_input__): the simple match table, the exact match cache, the *)
(* signature match cache, the classifier, the upcall, and the batches of   *)
(* packets executed flow by flow; and how another thread puts and removes  *)
(* the flows of the PMD thread meanwhile.  A flow is freed after its last  *)
(* reference is gone and the PMD thread has been quiescent.                *)
(*                                                                         *)
(* The caches' own lookups (dpif-netdev-private-dfc.h), cmap, RCU and      *)
(* ofproto's answer to an upcall are outside the source.  Packets are of   *)
(* one port and not recirculated.  Flows found by a hardware mark are in   *)
(* FlowOffload.                                                            *)
(***************************************************************************)
EXTENDS Integers, FiniteSets, SequencesExt

CONSTANTS
  Key,            \* microflows of the port
  Mega,           \* matches, as sets of microflows
  Simple,         \* matches that dp_netdev_flow_is_simple_match accepts
  MaxFlows,       \* bound: struct dp_netdev_flow at one time
  Burst           \* sizes of the batches received, up to NETDEV_MAX_BURST

Null == 0
Ids == 1 .. MaxFlows
Slot == 1 .. 2              \* EM_FLOW_HASH_SEGS: the positions of a hash

ASSUME CacheAssumption ==
  /\ Mega \subseteq (SUBSET Key) \ {{}} /\ MaxFlows \in Nat /\ Burst \subseteq Nat \ {0}
  /\ Simple \subseteq Mega /\ \A s, t \in Simple : s = t \/ s \cap t = {}

VARIABLES
  flow,           \* the flows, by their place in memory
  emc,            \* EMC: a key and a flow, or Null, in each position
  sweep,          \* emc_cache.sweep_idx
  ctl,            \* [pc, flow]: a thread that puts or removes flows; it has
                  \* flow_mutex unless idle
  pc,             \* where the PMD thread is in dp_netdev_input__
  keys,           \* the microflow of each packet received
  next,           \* loop index of the stage
  simple,         \* simple_match_enabled
  missed,         \* packets missed so far: [pkt, at, rule], at is index_map
  map,            \* flow_map: [pkt, flow] in the order received
  batches,        \* packet_batch_per_flow: [flow, pkts]
  new,            \* netdev_flow of handle_packet_upcall
  sent, lost,     \* packets executed, as [pkt, flow], and dropped
  gone, removed   \* flows dead at the receipt; whether one is being removed
                  \* then or later

stage == <<keys, simple, new>>
result == <<sent, lost>>
watch == <<gone, removed>>
vars == <<flow, emc, sweep, ctl, pc, keys, next, simple, missed, map, batches,
          new, sent, lost, gone, removed>>

NoFlow == [used |-> FALSE, match |-> {}, inCls |-> FALSE, inTable |-> FALSE,
           inSimple |-> FALSE, dead |-> FALSE, ref |-> 0, batch |-> Null,
           postponed |-> FALSE]

Init ==
  /\ flow = [f \in Ids |-> NoFlow]
  /\ emc = [s \in Slot |-> [key |-> Null, flow |-> Null]] /\ sweep = 1
  /\ ctl = [pc |-> "idle", flow |-> Null]
  /\ pc = "idle" /\ keys = <<>> /\ next = 1 /\ simple = FALSE
  /\ missed = <<>> /\ map = <<>> /\ batches = <<>> /\ sent = <<>> /\ lost = {}
  /\ new = Null /\ gone = {} /\ removed = FALSE

-----------------------------------------------------------------------------
(* Flows and references.                                                   *)

(* dp_netdev_flow_unref: the last reference postpones the free.            *)
Unref(fl, f) == [fl EXCEPT ![f].ref = @ - 1, ![f].postponed = (fl[f].ref = 1)]

(* Mutant: a reference is taken whatever the count.                        *)
CanRefAlways(fl, f) == TRUE

(* dp_netdev_flow_ref is ovs_refcount_try_ref_rcu.                         *)
CanRef(fl, f) == fl[f].ref > 0

(* emc_entry_alive.                                                        *)
Alive(s) == emc[s].flow # Null /\ ~flow[emc[s].flow].dead

(* The position emc_insert takes, and whether the key is set in it.  The   *)
(* order of hashes is left open.                                           *)
Victims(k) ==
  IF \E s \in Slot : emc[s].key = k
  THEN {CHOOSE s \in Slot : emc[s].key = k /\ \A r \in 1 .. s - 1 : emc[r].key # k}
  ELSE {s \in Slot : ~(s = 1 /\ Alive(1) /\ ~Alive(2))}

(* emc_change_entry, as a pair of the flows and the cache.                 *)
Changed(s, k, f) ==
  LET old == emc[s].flow
      fl == IF old \in {Null, f} THEN flow ELSE Unref(flow, old)
      ok == CanRef(fl, f)
  IN IF old = f THEN <<flow, [emc EXCEPT ![s].key = k]>>
     ELSE <<IF ok THEN [fl EXCEPT ![f].ref = @ + 1] ELSE fl,
            [emc EXCEPT ![s] = [key |-> k, flow |-> IF ok THEN f ELSE Null]]>>

(* emc_probabilistic_insert.                                               *)
EmcInsert(k, f) ==
  \/ UNCHANGED <<flow, emc>>
  \/ \E s \in Victims(k) : LET c == Changed(s, k, f) IN flow' = c[1] /\ emc' = c[2]

(* Mutant: the flow found by a signature is not matched again.             *)
InSmcUnchecked(k) == {f \in Ids : flow[f].inTable}

(* Flows dpcls_lookup, and a lookup in the signature match cache, may find *)
(* for a packet: a signature gives a place in the flow table, and whatever *)
(* flow is there is matched again.                                         *)
InCls(k) == {f \in Ids : flow[f].inCls /\ k \in flow[f].match}
InSmc(k) == {f \in Ids : flow[f].inTable /\ k \in flow[f].match}
InSimple(k) == {f \in Ids : flow[f].inSimple /\ k \in flow[f].match}
InEmc(k) == {emc[s].flow : s \in {t \in Slot : emc[t].key = k /\ Alive(t)}}

Free == {f \in Ids : ~flow[f].used}

(* dp_netdev_flow_add, up to the insertion in the classifier and as a      *)
(* whole: one reference is the table's, one dp_netdev_simple_match_insert  *)
(* takes.                                                                  *)
New(m) == [NoFlow EXCEPT !.used = TRUE, !.match = m, !.inCls = TRUE, !.ref = 1]
Whole(m) == [New(m) EXCEPT !.inTable = TRUE, !.inSimple = (m \in Simple),
                           !.ref = IF m \in Simple THEN 2 ELSE 1]

-----------------------------------------------------------------------------
(* The thread that puts and removes flows, under flow_mutex.               *)

ctlFrame == <<emc, sweep, pc, next, map, missed, batches, stage, result, gone>>
Ctl(from, to) == ctl.pc = from /\ ctl' = [ctl EXCEPT !.pc = to]

(* dp_netdev_simple_match_enabled: n_flows = n_simple_flows of the port.   *)
SimpleOn == Cardinality({f \in Ids : flow[f].inTable})
              = Cardinality({f \in Ids : flow[f].inSimple})

(* flow_put_on_pmd, with the key of the match; a match that is covered is  *)
(* at most modified, which does not show here.                             *)
PutBegin(m) ==
  LET rep == CHOOSE k \in m : TRUE IN
  /\ ctl.pc = "idle" /\ InCls(rep) = {} /\ Cardinality(Free) > 1
  /\ \E f \in Free : \A g \in Free : f <= g
       /\ flow' = [flow EXCEPT ![f] = New(m)] /\ ctl' = [pc |-> "put", flow |-> f]
  /\ UNCHANGED <<ctlFrame, removed>>

PutTable ==
  /\ Ctl("put", IF flow[ctl.flow].match \in Simple THEN "putSimple" ELSE "idle")
  /\ flow' = [flow EXCEPT ![ctl.flow].inTable = TRUE]
  /\ UNCHANGED <<ctlFrame, removed>>

PutSimple ==
  /\ Ctl("putSimple", "idle")
  /\ flow' = [flow EXCEPT ![ctl.flow].inSimple = TRUE, ![ctl.flow].ref = @ + 1]
  /\ UNCHANGED <<ctlFrame, removed>>

(* dp_netdev_pmd_remove_flow, from flow_del_on_pmd.                        *)
RemoveCls(f) ==
  /\ ctl.pc = "idle" /\ flow[f].inTable
  /\ flow' = [flow EXCEPT ![f].inCls = FALSE]
  /\ ctl' = [pc |-> IF flow[f].inSimple THEN "simple" ELSE "table", flow |-> f]
  /\ removed' = TRUE /\ UNCHANGED ctlFrame

RemoveSimple ==
  /\ Ctl("simple", "table")
  /\ flow' = Unref([flow EXCEPT ![ctl.flow].inSimple = FALSE], ctl.flow)
  /\ removed' = TRUE /\ UNCHANGED ctlFrame

RemoveTable ==
  /\ Ctl("table", "dead") /\ flow' = [flow EXCEPT ![ctl.flow].inTable = FALSE]
  /\ removed' = TRUE /\ UNCHANGED ctlFrame

SetDead ==
  /\ Ctl("dead", "idle") /\ flow' = Unref([flow EXCEPT ![ctl.flow].dead = TRUE], ctl.flow)
  /\ UNCHANGED <<removed, ctlFrame>>

-----------------------------------------------------------------------------
(* The PMD thread: dp_netdev_input__.                                      *)

At(stg) == pc = stg
Goto(stg) == pc' = stg /\ next' = 1

(* The stage goes on at packet i of n, or is over.                         *)
Loop(i, n, to) == IF i <= n THEN pc' = pc /\ next' = i ELSE Goto(to)
Shared == <<flow, emc>>
pmdFrame == <<sweep, ctl, gone, removed>>

(* packet_batch_per_flow_init and _update: flow->batch of b.fl, or a new   *)
(* batch of the flow.                                                      *)
QueueBatch(b, p, f) ==
  IF b.fl[f].batch = Null
  THEN [fl |-> [b.fl EXCEPT ![f].batch = Len(b.batches) + 1],
        batches |-> Append(b.batches, [flow |-> f, pkts |-> <<p>>])]
  ELSE [b EXCEPT !.batches[b.fl[f].batch].pkts = Append(@, p)]

Receive ==
  /\ At("idle") /\ Goto("dfc") /\ simple' = SimpleOn
  /\ \E n \in Burst : keys' \in [1 .. n -> Key]
  /\ gone' = {f \in Ids : flow[f].dead} /\ removed' = (ctl.pc \in {"simple", "table", "dead"})
  /\ UNCHANGED <<flow, emc, sweep, ctl, missed, map, batches, new, result>>

(* Mutant: batching goes on after a miss.                                  *)
DfcHitBatched(f) ==
  /\ LET b == QueueBatch([fl |-> flow, batches |-> batches], next, f)
     IN flow' = b.fl /\ batches' = b.batches
  /\ UNCHANGED <<emc, missed, map>>

(* The loop of dfc_processing for a packet: a flow of the simple match     *)
(* table or of the EMC takes it, into the flow's batch as long as no       *)
(* packet has been missed, into flow_map after; or the packet is missed.   *)
DfcHit(f) ==
  /\ IF missed = <<>>
     THEN LET b == QueueBatch([fl |-> flow, batches |-> batches], next, f)
          IN flow' = b.fl /\ batches' = b.batches /\ map' = map
     ELSE map' = Append(map, [pkt |-> next, flow |-> f]) /\ UNCHANGED <<flow, batches>>
  /\ UNCHANGED <<emc, missed>>

DfcMiss ==
  /\ missed' = Append(missed, [pkt |-> next, at |-> Len(map) + 1, rule |-> Null])
  /\ map' = Append(map, [pkt |-> next, flow |-> Null])
  /\ UNCHANGED <<flow, emc, batches>>

(* With simple match on, the EMC is not looked up.                         *)
DfcFlows == IF simple THEN InSimple(keys[next]) ELSE InEmc(keys[next])

(* Fast path and SMC have nothing to do without misses; simple match turns *)
(* the SMC off.                                                            *)
Dfc ==
  /\ At("dfc")
  /\ \/ \E f \in DfcFlows : DfcHit(f)
     \/ DfcFlows = {} /\ DfcMiss
  /\ Loop(next + 1, Len(keys),
          IF missed' = <<>> THEN "flush" ELSE IF simple THEN "cls" ELSE "smc")
  /\ UNCHANGED <<stage, result, pmdFrame>>

Hit(e, f) == map' = [map EXCEPT ![e.at].flow = f]
Missed == missed[next]

(* smc_lookup_batch: next stays when the packet leaves the missed ones.    *)
Smc ==
  /\ At("smc")
  /\ \/ /\ \E f \in InSmc(keys[Missed.pkt]) :
             EmcInsert(keys[Missed.pkt], f) /\ Hit(Missed, f)
        /\ missed' = RemoveAt(missed, next)
        /\ Loop(next, Len(missed'), IF missed' = <<>> THEN "flush" ELSE "cls")
     \/ UNCHANGED <<Shared, map, missed>> /\ Loop(next + 1, Len(missed), "cls")
  /\ UNCHANGED <<batches, stage, result, pmdFrame>>

Rules(k) == IF InCls(k) = {} THEN {Null} ELSE InCls(k)

(* fast_path_processing: dpcls_lookup of the missed packets.               *)
Cls ==
  /\ At("cls")
  /\ \E f \in Rules(keys[Missed.pkt]) : missed' = [missed EXCEPT ![next].rule = f]
  /\ Loop(next + 1, Len(missed),
          IF \A i \in DOMAIN missed : missed'[i].rule # Null THEN "cache" ELSE "lock")
  /\ UNCHANGED <<Shared, map, batches, stage, result, pmdFrame>>

(* Without upcall_rwlock the packets that no rule matches are dropped.     *)
TryLock ==
  /\ At("lock")
  /\ \/ Goto("upcall") /\ lost' = lost
     \/ /\ Goto("cache")
        /\ lost' = lost \cup {missed[i].pkt : i \in {j \in DOMAIN missed : missed[j].rule = Null}}
  /\ UNCHANGED <<Shared, missed, map, batches, sent, stage, pmdFrame>>

(* The slow path: a second lookup, then handle_packet_upcall, which fails  *)
(* (the packet is dropped), installs nothing (ENOSPC) or goes on to        *)
(* install a flow; the packet is executed at once.                         *)
NextUpcall == Loop(next + 1, Len(missed), "cache")

Upcall ==
  /\ At("upcall")
  /\ LET e == Missed
         fs == InCls(keys[e.pkt]) IN
     \/ e.rule # Null /\ NextUpcall /\ UNCHANGED <<missed, result>>
     \/ /\ e.rule = Null /\ NextUpcall /\ UNCHANGED result
        /\ \E f \in fs : missed' = [missed EXCEPT ![next].rule = f]
     \/ /\ e.rule = Null /\ fs = {} /\ NextUpcall /\ UNCHANGED <<missed, sent>>
        /\ lost' = lost \cup {e.pkt}
     \/ /\ e.rule = Null /\ fs = {} /\ UNCHANGED <<missed, lost>>
        /\ sent' = Append(sent, [pkt |-> e.pkt, flow |-> Null])
        /\ \/ NextUpcall
           \/ Free # {} /\ pc' = "install" /\ next' = next
  /\ UNCHANGED <<Shared, map, batches, stage, pmdFrame>>

(* Mutant: no second lookup under flow_mutex.                              *)
InstallUnchecked ==
  /\ At("install") /\ ctl.pc = "idle" /\ pc' = "insert" /\ next' = next
  /\ \E m \in {x \in Mega : keys[Missed.pkt] \in x} : \E f \in Free :
       flow' = [flow EXCEPT ![f] = Whole(m)] /\ new' = f
  /\ UNCHANGED <<emc, keys, simple, missed, map, batches, result, pmdFrame>>

(* Under flow_mutex: the flow may be there by now, else it is added.       *)
Install ==
  /\ At("install") /\ ctl.pc = "idle" /\ pc' = "insert" /\ next' = next
  /\ LET k == keys[Missed.pkt] IN
     \/ flow' = flow /\ new' \in InCls(k)
     \/ /\ InCls(k) = {}
        /\ \E m \in {x \in Mega : k \in x} : \E f \in Free :
             /\ \A g \in Free : f <= g
             /\ flow' = [flow EXCEPT ![f] = Whole(m)] /\ new' = f
  /\ UNCHANGED <<emc, keys, simple, missed, map, batches, result, pmdFrame>>

(* The insertion in the EMC follows the unlock.                            *)
Insert ==
  /\ At("insert")
  /\ IF next < Len(missed) THEN pc' = "upcall" /\ next' = next + 1 ELSE Goto("cache")
  /\ EmcInsert(keys[Missed.pkt], new) /\ new' = Null
  /\ UNCHANGED <<keys, simple, missed, map, batches, result, pmdFrame>>

(* The last loop of fast_path_processing.                                  *)
Cache ==
  /\ At("cache") /\ missed' = Tail(missed) /\ Loop(1, Len(missed'), "flush")
  /\ IF Missed.rule = Null THEN UNCHANGED <<Shared, map>>
     ELSE EmcInsert(keys[Missed.pkt], Missed.rule) /\ Hit(Missed, Missed.rule)
  /\ UNCHANGED <<batches, stage, result, pmdFrame>>

(* The end of dp_netdev_input__: the packets of flow_map are batched, each *)
(* flow forgets its batch, and the batches are executed in turn.           *)
Batched ==
  FoldLeft(LAMBDA b, e : IF e.flow = Null THEN b ELSE QueueBatch(b, e.pkt, e.flow),
           [fl |-> flow, batches |-> batches], map)

(* The flows that have a batch then.                                       *)
Queued == {batches[i].flow : i \in DOMAIN batches} \cup {map[i].flow : i \in DOMAIN map}

(* Mutant: a flow remembers its batch.                                     *)
ResetNot(fs) == flow

Reset(fs) == [f \in Ids |-> IF f \in fs THEN [flow[f] EXCEPT !.batch = Null] ELSE flow[f]]

(* What was executed by the end of the call, the slow path first.          *)
Outcome ==
  LET bs == Batched.batches IN
  sent \o FlattenSeq([i \in DOMAIN bs |-> [j \in DOMAIN bs[i].pkts |->
                                             [pkt |-> bs[i].pkts[j], flow |-> bs[i].flow]]])

Flush ==
  /\ At("flush") /\ Goto("idle")
  /\ flow' = Reset(Queued)
  /\ map' = <<>> /\ batches' = <<>> /\ keys' = <<>> /\ simple' = FALSE
  /\ sent' = <<>> /\ lost' = {} /\ gone' = {} /\ removed' = FALSE
  /\ UNCHANGED <<emc, sweep, ctl, missed, new>>

-----------------------------------------------------------------------------
(* Between two batches, in pmd_thread_main: RCU lets the postponed frees   *)
(* happen, and one position of the EMC is swept.                           *)

Reclaimed(fl) == [f \in Ids |-> IF fl[f].postponed THEN NoFlow ELSE fl[f]]

Quiesce ==
  /\ At("idle") /\ \E f \in Ids : flow[f].postponed /\ flow' = Reclaimed(flow)
  /\ UNCHANGED <<emc, sweep, ctl, pc, next, missed, map, batches, stage, result, watch>>

(* Mutant: the EMC is not swept.                                           *)
HousekeepNoSweep ==
  At("idle") /\ flow' = Reclaimed(flow) /\ sweep' = (sweep % Cardinality(Slot)) + 1
    /\ UNCHANGED <<emc, ctl, pc, next, missed, map, batches, stage, result, watch>>

Housekeep ==
  /\ At("idle")
  /\ LET s == sweep
         out == emc[s].flow # Null /\ ~Alive(s) IN
     /\ flow' = IF out THEN Unref(Reclaimed(flow), emc[s].flow) ELSE Reclaimed(flow)
     /\ emc' = IF out THEN [emc EXCEPT ![s].flow = Null] ELSE emc
     /\ sweep' = (sweep % Cardinality(Slot)) + 1
  /\ UNCHANGED <<ctl, pc, next, missed, map, batches, stage, result, watch>>

-----------------------------------------------------------------------------
Pmd == Dfc \/ Smc \/ Cls \/ TryLock \/ Upcall \/ Install \/ Insert \/ Cache \/ Flush
Control == PutTable \/ PutSimple \/ RemoveSimple \/ RemoveTable \/ SetDead

Next == \/ Receive \/ Pmd \/ Quiesce \/ Housekeep \/ Control
        \/ \E m \in Mega : PutBegin(m)
        \/ \E f \in Ids : RemoveCls(f)

Spec == Init /\ [][Next]_vars

(* The PMD thread runs, the other thread ends what it began, and every     *)
(* 1024 iterations of the loop of pmd_thread_main the EMC is swept.        *)
FairSpec == Spec /\ WF_vars(Pmd) /\ WF_vars(Control) /\ SF_vars(Housekeep)

-----------------------------------------------------------------------------
(* Properties.                                                             *)

(* Types of the state.                                                     *)
TypeOK ==
  /\ \A f \in Ids : flow[f].match \in Mega \cup {{}} /\ flow[f].ref \in 0 .. Cardinality(Slot) + 2
  /\ \A s \in Slot : emc[s].key \in Key \cup {Null} /\ emc[s].flow \in Ids \cup {Null}
  /\ sweep \in Slot /\ new \in Ids \cup {Null} /\ simple \in BOOLEAN /\ removed \in BOOLEAN
  /\ ctl.pc \in {"idle", "put", "putSimple", "simple", "table", "dead"}
  /\ pc \in {"idle", "dfc", "smc", "cls", "lock", "upcall", "install", "insert", "cache", "flush"}
  /\ Len(missed) <= Len(map) /\ Len(map) <= Len(keys) /\ Len(batches) <= Len(keys)

Held ==
  {emc[s].flow : s \in Slot} \cup {map[i].flow : i \in DOMAIN map}
    \cup {missed[i].rule : i \in DOMAIN missed} \cup {batches[i].flow : i \in DOMAIN batches}
    \cup {new, ctl.flow * (IF ctl.pc = "idle" THEN 0 ELSE 1)}

(* No flow is freed while a cache, a batch or a thread still points to it, *)
(* and a flow's references are those of the flow table, of the simple      *)
(* match table and of the EMC.  The types come first.                      *)
NoUseAfterFree ==
  /\ TypeOK
  /\ \A f \in Held \ {Null} : flow[f].used
  /\ \A f \in Ids :
       LET n == Cardinality({s \in Slot : emc[s].flow = f}) IN
       /\ flow[f].used => flow[f].ref = n + (IF flow[f].dead THEN 0 ELSE 1)
                                          + (IF flow[f].inSimple THEN 1 ELSE 0)
       /\ flow[f].used => flow[f].postponed = (flow[f].ref = 0)

(* The classifier never has two flows of one match, although handlers and  *)
(* revalidators look up and add at different times.                        *)
NoDuplicate ==
  \A f, g \in Ids : f # g /\ flow[f].inCls /\ flow[g].inCls => flow[f].match # flow[g].match

Classified ==
  {<<map[i].pkt, map[i].flow>> : i \in {j \in DOMAIN map : map[j].flow # Null}}
    \cup UNION {{<<batches[i].pkts[j], batches[i].flow>> : j \in DOMAIN batches[i].pkts} :
                   i \in DOMAIN batches}

(* Whichever cache found it, the flow that takes a packet matches it, and  *)
(* is none that was removed before the packets were received.              *)
CoveredByFlow ==
  \A c \in Classified : keys[c[1]] \in flow[c[2]].match /\ c[2] \notin gone

(* Each packet of a batch is executed or dropped, once, and no batch       *)
(* outlives the call.                                                      *)
EachOnce ==
  /\ pc = "flush" =>
       LET out == Outcome IN
       /\ IsInjective([i \in DOMAIN out |-> out[i].pkt])
       /\ {out[i].pkt : i \in DOMAIN out} \cup lost = DOMAIN keys
       /\ {out[i].pkt : i \in DOMAIN out} \cap lost = {}
  /\ pc = "idle" => \A f \in Ids : flow[f].batch = Null

(* Packets one flow takes are executed in the order received; so are two   *)
(* packets of a microflow of which the later goes to the slow path, unless *)
(* a flow is being removed at the receipt or after it.                     *)
InOrder ==
  pc = "flush" =>
    LET out == Outcome IN
    \A i, j \in DOMAIN out : i < j =>
      \/ out[i].pkt < out[j].pkt
      \/ out[i].flow # Null /\ out[i].flow # out[j].flow
      \/ out[i].flow = Null /\ (removed \/ keys[out[i].pkt] # keys[out[j].pkt])

(* The memory of a removed flow is freed: batches and positions of the EMC *)
(* do not hold it for ever.                                                *)
DeadReclaimed == \A f \in Ids : flow[f].dead ~> ~flow[f].used

=============================================================================
