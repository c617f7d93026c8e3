# Repath: a TLA+ model of the path-switching control plane and its datapath

This directory is a verification project for the code in `src/`: TLA+ modules
translated from the source, TLC configurations that check them on small
instances, and theorems about them with proofs for TLAPS. File and line numbers
below refer to `src/`. `hopa_cp.c` without a directory is
`repath_cp/src/hopa_cp.c`; the files of Open vSwitch are those of
`openvswitch-2.17.2-cq-dpu`, from which the tree of `yy` differs in
addresses, logging and the send thread only.

## 1. The system

Two hosts, `cq` and `yy`, are joined by an underlay with four paths. The
underlay routes a packet by its UDP destination port, so a *path* is a port.
`cq` probes all paths; `yy` measures how long the probes take and knows which
path is best at present; when the data on the path in use degrades, a host asks
its peer by a `REPATH` packet to change over, and the peer confirms with a
`REPATH_ACK`. This control plane ("HOPA CP") exists twice: as a stand-alone DPDK
program (`repath_cp`) and as two threads inside a patched Open vSwitch 2.17.2
(`openvswitch-2.17.2-{cq,yy}-dpu`), one tree per host.

### Components

| component | source | state | operations |
|---|---|---|---|
| path ports | `hopa_cp.h:47-52`, encoders in `hopa_cp.c:209-279`, decoder `:293` | none | path number to port, port to path number |
| path probing and selection | `hopa_cp.c:4-9, 209-237, 281-314, 373-411` | `all_paths_delay_list`, `opt_path_id`, probes on their way | a round of probes, PROBE handler, first-minimum scan |
| along-path check | `hopa_cp.c:345-371`, `hopa_cp.h` record | `*cur_path_info` (from `malloc`) | `one_path_check` for each data packet |
| stand-alone process | `hopa_cp.c:316-343, 388-487, 540-575` | two rings, mbuf pool, descriptor queues, `send_mbuf`, `retran_timer` | main rx and tx, `lcore_probe`, `lcore_stats` with its handlers, timer callback, `rte_exit` |
| stand-alone start-up | `hopa_cp.c:12-190, 489-540` | options, header templates | EAL and port set-up, once |
| CP threads in OVS | `ovs-vswitchd.c` of both trees, from line 60 | the ring structure shared with the PMD threads, `best_path_id`, pool | `hopa_cp_init`, `hopa_cp_send`, `hopa_cp_progress` and handlers |
| CP injection and recirculation | `netdev-dpdk.c:2440-2535`, `dpif-netdev.c:8505-8575` | slots of the received batch, the array of CP headers | append CP packets to a received batch; take received CP packets out of the datapath |
| PMD threads and reconfiguration | `dpif-netdev.c:2060-2110, 5460-6060, 6230-6566, 6829-7000, 8598-8660` | `reload` flags, poll lists, tx queue ids, ports, the schedule | reload handshake, rxq scheduling, `reconfigure_datapath`, XPS |
| flow caches, upcalls | `dpif-netdev.c:3240-3420, 4040-4361, 7850-8506` | simple match table, EMC, SMC, classifier, flow table, batches | lookup, install, put, delete, sweep, upcall |
| hardware offload | `dpif-netdev.c:2430-3130` | queues of requests, marks, rules in the hardware | request, apply, flush a port |
| vhost user ports | `netdev-dpdk.c:1208-1223, 2300-2440, 2740-2860, 3895-4161, 5016-5166` | `vid`, `tx_q[].map`, `vhost_reconfigured`, enabled queues | library callbacks, reconfiguration, send, receive |
| meters | `dpif-netdev.c` | token buckets, time of last use | run, set, delete |
| bonds, connection tracking | `dpif-netdev.c` | bond members | hash |
| DPDK netdev | `netdev-dpdk.c` | memory pools and their reference counts, policers | get/put/sweep a pool, reconfigure |
| prototypes, notes, logging, build | `backup/`, `doc/`, `hopa_log.h`, makefiles | - | - |

### Interaction

In the stand-alone process the main lcore moves packets between the NIC and two
rings; the worker lcore takes packets from the in ring and puts packets into the
out ring. They share the rings, the mbuf pool and nothing else. The worker of a
process started with `-s 1` runs `lcore_probe`, otherwise it runs `lcore_stats`:
never both. Two processes interact by packets only. In Open vSwitch the place of
the main lcore is taken by the PMD threads of the datapath: the one that polls
`pf1hpf` (the port has one rx queue) appends what waits in the out ring to the batch
it received, and whichever executes a recirculation copies CP headers to the in ring.
The main thread of ovs-vswitchd and the PMD threads meet in the reload handshake; PMD
threads, handlers and revalidators in the flow table and its caches, under
`flow_mutex` and RCU; all of these and the offload threads in the request
queues, `port_rwlock` and a barrier; PMD threads, main thread and the vhost library's
thread in the atomic fields of a vhost port, under `dev->mutex` and RCU.

### What is hard about it

- two lcores and a network in any order: probes of several rounds overtake each
  other, and more arrive while one is handled;
- bounded rings whose enqueue result is ignored, and an allocator whose failure
  ends the process;
- a handshake over a network that loses packets, with a timer on one side;
- unsigned arithmetic on the difference of two unsynchronised clocks;
- a record that comes from `malloc` and is never initialised;
- in Open vSwitch: several PMD threads on data written for one thread, and start-up
  that publishes a pointer before what it points to exists;
- two-phase handovers: a queue or a port must be let go by every PMD thread before
  the next one gets it;
- flows that die while caches, batches, requests and marks refer to them;
- three kinds of threads and a lock around a barrier at the deletion of a port;
- guests that come and go, and enable queues, while threads send to them;
- token buckets whose users do not agree on the time.

`PROJECT.json` lists each of these hazards with its line and the properties
that would notice.

### What makes each component correct

- *Ports*: each path has one port, and decoding it gives the path back.
- *Selection*: between handlers the choice is the first least entry of the
  table; with clocks close enough it is the path measured fastest; after a change
  of latencies it settles on a path that is fastest.
- *Along-path check*: its answer depends on the delays of the packets it is called for.
  (It does not.)
- *Process*: no mbuf is freed twice or while something refers to it; mbufs get lost only
  where a ring is full; the process does not run dry otherwise; when traffic
  stops, every mbuf returns; an acknowledgement answers one REPATH; a REPATH is
  acknowledged.
- *CP in OVS*: no ring is used before it exists; what is dequeued fits the
  batch as long as the port is polled in time; each ring is a queue; what is sent leaves
  the datapath and what arrives is handled; an mbuf has one owner. (It has not.)
- *PMD reload*: no thread polls a queue of or sends to a port while it is reconfigured,
  whenever its device asked for that; no queue has two pollers; without a lock a thread sends
  on a tx queue that exists and is its own; a queue that is scheduled is polled in the end.
- *Flow caches*: a packet is executed or dropped once, by a flow that matches it and was
  not removed before it was received, in order; no flow is freed while it is
  referred to, and removed flows are freed.
- *Offload*: a megaflow has one mark, a mark one megaflow; references to flows are
  exact; a port that is gone has no rules; its deletion ends.
- *vhost*: the device of a guest is not used when it is gone; which queues are used is what the
  library said last; no two threads write to one
  queue of a guest; no packet is sent twice by a retry; a guest that attaches is served.
- *Meters*: no more than burst and rate passes; what stays below them passes.

## 2. The modules

| module | models | kind |
|---|---|---|
| `PathPorts` | port arithmetic | operators |
| `PathDelay` | 64-bit differences, offset, first minimum | operators |
| `BestPath` | what selection promises: table and choice change together | abstract specification |
| `PathSelection` | probing, network, PROBE handler | state machine, implements `BestPath` |
| `PathSelectionProofs` | | proofs |
| `OnePathCheck` | `one_path_check` on its record | state machine |
| `RepathCp` | two hosts: both lcores, rings, pool, NIC, network, timer | state machine |
| `RepathCpProofs` | | proofs about `RepathCp` and `OnePathCheck` |
| `CpChannel` | what a ring between control plane and datapath promises | abstract specification |
| `OvsCp` | start-up, both CP threads, rings, pools, `pf1hpf`, recirculation | state machine, implements `CpChannel` twice |
| `OvsCpProofs` | | proofs |
| `RxqSched` | the three rx queue assignment algorithms | operators |
| `PmdReload` | main thread, PMD threads, ports, tx queue ids, XPS | state machine |
| `PmdReloadProofs` | | proofs |
| `FlowOffload` | flows, requests, marks, offload threads, deletion of a port | state machine |
| `FlowOffloadProofs` | | proofs |
| `FlowCache` | one PMD thread's caches and batches, and a thread that puts and removes flows | state machine |
| `FlowCacheProofs` | | proofs |
| `VhostPort` | main thread, vhost library, PMD threads of one vhost port | state machine |
| `VhostPortProofs` | | proofs |
| `Meter` | threads that draw from one meter, and its settings | state machine |
| `MeterProofs` | | proofs |
| `MC...`, one for each state machine | values of the constants for TLC | instances |

`RepathCp` is the composition of the stand-alone program. It uses of `PathSelection` only that a PROBE may
change `opt_path_id` to any path, and of `OnePathCheck` only that the answer of
the check is the same at every call of a process (`VerdictNeverChanges`, the theorem `CheckedOnce`):
the constant `Verdicts` and the variable `verdict`, chosen in `Init`. `OvsCp` composes
the parts inside ovs-vswitchd in the same way. `PmdReload` extends `RxqSched`. The
others do not share state but for what section 6 names.

### PathSelection and the code

| in the model | in the code |
|---|---|
| `flight`, records of `port` and `age` | probes from `encode_probe_pkt` (:209) until the worker of the receiver takes them: out ring, wire, in ring |
| `age`, `Skew`, `lat` | the two `clock_gettime` readings; only their difference is used (:305) |
| `SendProbes` | one turn of the loop of `lcore_probe` (:388-411), ports 1 .. PATH_NB |
| `StoreDelay` | `hopa_cp_probe_pkt_progress` (:281-305): port to path, difference plus 1 s modulo 2^64, table entry |
| `ScanStep`, `ScanDone` | `get_min_delay_path_id` (:373-386), one iteration a step, and the assignment to `opt_path_id` (:311) |
| `InitTable` | the initialiser of `all_paths_delay_list` (:4-9) |
| `Tick`, `Lose`, `LatencyChanges`, `PathFails` | time, the network and the underlay (external) |

A probe that left on path p keeps `up` and `lat` of p; `lat` is the least age at
which it can be handled, so a probe that is handled later models queueing. The
ghost variables `diff` and `fresh` remember the signed clock difference and which
paths have been measured; no action reads them.

### OnePathCheck and the code

`info` holds the fields that nothing writes, any value in `CheckInit`, since
`hopa_cp.c:419` takes the record from `malloc` and does not clear it. `max_dt`
and `min_dt` are the two fields the function updates (:350-356). `Verdict` is the
rest: threshold, gradients, the conditions b2, b3, b4 and the hard switch
(:358-370). Division by zero is undefined in C; the variable `traps` covers the
two outcomes the build can give: SIGFPE on x86-64, 0 on aarch64. The three
gradients of line 364 are read for their sign only, so one Boolean stands for
them. `Thres` is the threshold of line 358, computed in `double`; its rounding is
left open as a constant operator and the proofs hold for each. `Check(d)` is the call for a data
packet of delay d, which leaves no trace but in the ghosts `delay` and `before`:
`hopa_dp_ts_pkt_progress` (:337) calls the function with 1, and the function has no parameter.

### RepathCp and the code

| in the model | in the code |
|---|---|
| `rxq`, `txq`, `free` | descriptors of the port and `mbuf_pool` (external) |
| `inRing`, `outRing`, `Enqueue`, `Burst` | `hopa_in_ring`, `hopa_out_ring` and the burst calls that take what fits |
| `MainRx` | :547-553 |
| `MainTxDequeue`, `MainTxSend`, `txHand` | :556-569, the `while (offset < nb_tx)` loop one call a step |
| `ProbeEncode`, `ProbeEnqueue`, `encoded` | :388-411 |
| `StatsDequeue`, `burst`, `handled`, `StatsFree` | :427-484, the dispatch loop one packet a step, then the loop that frees |
| `HandleProbe` .. `HandleOther` | the handlers, :281-343, and the packets no handler wants |
| `HandlerExit`, `Exit` | `rte_exit` of an encoder that finds the pool empty (:193-196) |
| `HandleTsTrap` | the division of `one_path_check` where it ends the process |
| `TimerCb`, `timer` | `retran_timer` and `timer_cb` |
| `wire`, `Arrive`, `NicReceive`, `NetLose`, `NicTransmit` | the network and both NICs (external) |

Three simplifications. An mbuf is counted, not named; `Held` counts the
references and the difference to the pool size is what is lost for good. DPDK
keeps spare mbufs in per-lcore caches; they are left out. A NIC takes the mbuf
for a received packet when it refills a descriptor; the model takes it when the
packet arrives, so that `free` counts the mbufs of idle rx descriptors too. The
condition `PoolCovers` reserves `RxDesc` mbufs for them.

### OvsCp and the code

| in the model | in the code |
|---|---|
| `role` | which of the two trees: `cq` sends PATH_NB probes a round, `yy` one REPATH |
| `InitPool`, `InitRings`, `InitRing`, `InitThreads` | `hopa_cp_init`, `ovs-vswitchd.c:374-416`, each with its failure, which is logged and passed over |
| `rings` | `m_hopa_cp_in_out_ring`: `NULL`, or which of the two rings exists |
| `Encode`, `Enqueue` | `hopa_cp_send`: a round begins after the pause of the last, polled or not |
| `Dequeue`, `Handle` | `hopa_cp_progress` and the handlers |
| `RxCount`, `RxBurst`, `RxDequeue`, `RxAppend` | `netdev_dpdk_rxq_recv` on `pf1hpf` (`netdev-dpdk.c:2470-2500`), one access to the ring or the NIC a step, and one turn of the copying loop a step |
| `slot`, `home`, `nic`, `cp` | `batch->packets[]`, the `pool` field of each mbuf, both pools |
| `Process` | everything the datapath does with a batch, which ends in freeing it |
| `RecircBegin`, `RecircCopy`, `RecircEnqueue` | `dp_netdev_recirculate` (`dpif-netdev.c:8546-8575`), one header a step |
| `heap` | headers for which `rte_malloc` still has memory; `Handle` gives one back |

Here mbufs have names, as `*a = *b` copies one structure over another. `crashed` is set, with
the reason, by a null pointer (`null`), a count beyond an array (`overrun`), an `rte_malloc` that
gives NULL (`heap`) and a slot that no batch has filled (`wild`). The last is possible at every turn of the
copying loop: `batch` is a local of `dp_netdev_process_rxq_port` that nothing initialises
(`dpif-netdev.c:5309`), so a slot beyond what the NIC filled holds what the stack did, a
pointer of an earlier batch or anything else. A stray write that does not end the process
is not followed. The DPDK heap hands out zeroed memory, so the `memset` after the publication
of the structure changes nothing.

Nothing makes the send thread wait for the polling one. If `pf1hpf` is not polled for more than eight
rounds on `cq` (16 s), because the port is added late, removed, or its thread is held up,
more than 32 pointers wait and `RxCount` overruns its arrays; later the out ring is full, what it
refuses is lost, and the pool runs dry, whose `NULL`s go into the ring. The model goes all that way. The ghost `late`
records that a round began though more than `MaxBehind` rounds would then wait; what holds for a
polling thread that keeps up is stated for `~late`, and
`PacedAssumption` is what `MaxBehind` means: so many rounds fit the arrays. `RoomAssumption` says
that the out ring has room for them and
`hopa_cp_mp` an mbuf for each of twice as many: what waits and what the PMD thread has taken.
In the code these are 32 packets at most, 1023 slots and 8191 mbufs. `HeapAssumption` says that the
heap has room for the headers in use; those a full in ring refused are in use for ever (ghost `leaked`).

### PmdReload and the code

| in the model | in the code |
|---|---|
| `pc` | the place of the main thread in `reconfigure_datapath` (`dpif-netdev.c:6384-6566`), with `reconfigure_pmd_threads` and `rxq_scheduling` |
| `sh[t]` | `reload`, `reload_seq` (as "differs from the last one seen"), `exit`, `wait_for_reload`, `reload_tx_qid`, `poll_list`, `tx_ports` of `struct dp_netdev_pmd_thread` |
| `th[t]` | locals of `pmd_thread_main`: the lists loaded, the cached tx ports, `static_tx_qid` |
| `BumpSeq`, `StoreReload`, `Await` | `dp_netdev_reload_pmd__` and `reload_affected_pmds`, with the reload between its two stores visible |
| `Start`, `WakeUp`, `Load`, `Acknowledge`, `FreeOldQid`, `AllocQid`, `Exit` | `pmd_thread_main`, `pmd_load_queues_and_ports` |
| `TakeTxq`, `GiveBackTxq` | `dpif_netdev_xps_get_tx_qid`, `dpif_netdev_xps_revalidate_pmd` |
| `SetCmask`, `AddPort`, `DelPort`, `Run` | `dpif_netdev_set_config`, `do_add_port`, `do_del_port`, `dpif_netdev_run` |
| `RequestReconf` | `netdev_request_reconfigure`, at any moment: by the main thread (an option), but also by the vhost thread (`netdev-dpdk.c:3976, 4146`) and the interrupt thread (`:1839`) while a reconfiguration runs |
| `need`, `Reconfigure` | `need_reconfigure`, cached in step 2 (`dpif-netdev.c:6409`); a request made later waits for the next reconfiguration |
| `FillRxqs`, `FillTxPorts` | step 6, its two passes over the threads (`:6527-6562`) |
| `RxqSched` | `sched_numa_list_*`, `sched_pmd_*` (`:5460-6060`) |

`InOrder` is what `qsort` returns: the members of a set in the order of a comparison. It and `Given` are
written out, as the provers can expand neither `SortSeq` nor `@@` of the `TLC` module. In static mode a
thread passes its bare `static_tx_qid` (`dpif-netdev.c:5248`), and `netdev_dpdk_eth_send` neither
reduces it nor locks (`netdev-dpdk.c:2873`): `StaticTxqOwn` is about that number.
`NumaAssumption` says that nodes are numbers and that the value for "no core" is not one of them.

### FlowOffload and the code

| in the model | in the code |
|---|---|
| `flow[i]` | `struct dp_netdev_flow`: in the table, dead, `mark`, `ref_cnt` |
| `AddFlow`, `ModFlow`, `RemoveFlow`, `SetDead` | `dp_netdev_flow_add`, `flow_put_on_pmd`, `dp_netdev_pmd_remove_flow`: the request is queued before the flow is dead |
| `cur[t]`, `TakeDel` .. `Done` | `dp_netdev_flow_offload_main` with `dp_netdev_flow_offload_put`, `mark_to_flow_disassociate`, one access to marks, hardware or lock a step, but for `GiveUpMark` (section 6) |
| `byMega`, `pool`, `hw` | `megaflow_to_mark`, `flow_mark_pool`, the rules of the NIC |
| `FlushEnqueue`, `Barrier1`, `Relock`, `Barrier2`, `Uninit`, `Unmap` | `do_del_port` with `dp_netdev_offload_flush` (`:3053-3130`) |
| `Flush` | `dp_offload_flush` between two waits at the barrier |

### FlowCache and the code

| in the model | in the code |
|---|---|
| `Dfc` | `dfc_processing`: simple match or EMC, one packet a step, batched when nothing was missed before it |
| `Smc`, `Cls` | `smc_lookup_batch`, `dpcls_lookup`, at most one flow a packet |
| `TryLock`, `Upcall`, `Install`, `Insert` | `fast_path_processing` and `handle_packet_upcall`: the second lookup and the addition are under `flow_mutex`, the upcall is not |
| `Cache`, `Flush` | insertion into the caches; the end of `dp_netdev_input__`, which batches the rest and executes flow by flow |
| `PutBegin` .. `PutSimple`, `RemoveCls` .. `SetDead` | `dpif_netdev_flow_put` and `_del` on another thread, one table a step, as a lookup takes no lock |
| `Quiesce`, `Housekeep` | RCU, and the sweep of one position of the EMC (`pmd_thread_main`) |

`gone` and `removed` are ghosts: the flows that were dead when the batch came, and
whether one is being removed.

### VhostPort and the code

Callbacks of the library and a reconfiguration hold `dpdk_mutex` and `dev->mutex`
throughout and are one step each, but for `destroy_device`, which waits for RCU
between two (`DestroyDevice`, `Destroyed`). A PMD thread holds no mutex:
`Send`, `SendCheck`, `TakeLock`, `Enqueue`, `Unlock` are the accesses of
`netdev_dpdk_vhost_send` (`netdev-dpdk.c:2780-2853`), `Enqueue` one turn of its
retry loop. The library calls `vring_state_changed` when it likes, and the function looks for the port by its
path alone: `VringTx` and `VringRx` come before `new_device`, after `destroy_device`, twice, and for
queues the port does not have. The ghost `told` records what was last said of a tx
queue since a device or a connection went (`on`, `off`, or `no` when nothing was); a queue that is
still mapped to itself then is `left`. `cb` is the set of threads RCU waits for. RCU ends a thread's grace
period at the earliest moment, the end of an operation: later would only make
`DestroyDevice` longer.

### Meter and the code

| in the model | in the code |
|---|---|
| `meter[m]`, `cur`, `setting` | each `struct dp_meter` made so far, the one in `dp->meters`, and the one between the two calls that replace the old one |
| `MeterSet`, `Attach`, `MeterDel` | `dpif_netdev_meter_set` (`dpif-netdev.c:7206`) with the gap a lookup without a lock can see, `dpif_netdev_meter_del` |
| `Receive`, `Lookup`, `RunMeter` | the time in `ctx.now`, the lookup, and everything `dp_netdev_run_meter` does under the lock of the meter |
| `Delta`, `MaxDelta`, `Refill`, `Drain` | `delta_t`, `max_delta_t`, the bucket of a band before and after each packet |

`ideal` and `level` are ghosts: a bucket that counts true time, and how much more than
the rate has passed since the call for which this is most, which stands for all windows at once.

## 3. What TLC checks

| run | instance | shows |
|---|---|---|
| `PathSelection_converges` | 3 paths, 5 probes in flight, receiver 3 ticks behind, offset 4, one change of latency, all paths may fail (427 518 states) | refinement of `BestPath`, choice = fastest of the measured paths, `Converges` under fairness |
| `OnePathCheck_packets` | words of 2 bits: every record, both processors, packets of any delay | violation: the check stays on the path when the slowest packet so far has come (section 4) |
| `RepathCp_receivers` | two receivers, one-slot rings, 3 mbufs, lossy reordering network, 3 foreign packets | mbufs conserved, acknowledgements match REPATHs, leaks only at full rings |
| `RepathCp_sender` | sender and receiver, one-slot rings, a pool that covers all queues | the process exits only after a leak |
| `RepathCp_live` | two receivers, nothing lost, rings and pool large enough, one tx descriptor | every REPATH is acknowledged, all mbufs return to the pool |
| `OvsCp_channels` | both roles, every failure, two rounds of two probes with or without a poll between them, 5 arriving headers, a heap for 4 (445 108 states) | both rings are `CpChannel`s, crashes have their causes, pointers conserved, everything delivered |
| `OvsCp_owner` | the same, two mbufs of the NIC, one header, nothing fails | violation: an mbuf gets two owners (section 4) |
| `PmdReload_safe` | 3 cores on 2 nodes, 2 ports of up to 2 rx queues, one pinned, 3 algorithms, 2 requests to the main thread, and from devices at any moment (840 511 states) | handover of queues and ports, tx queues, XPS counts, schedule and balance, every scheduled queue is polled |
| `FlowOffload_marks` | 2 PMD threads, 2 megaflows, 2 marks, 2 offload threads, a port that comes and goes (664 198 states) | references and marks exact, no rule left behind, removed flows freed, deletion ends |
| `FlowCache_classify` | batches of 2, 2 microflows, 2 matches, 2 flows at a time (918 522 states) | coverage, order, each packet once, no use after free, no duplicate, reclamation |
| `VhostPort_guest` | 2 queue pairs, 2 PMD threads, batches of 2, one retry (223 528 states) | mapping, one sender a queue, no use after destroy, no packet twice, guests are served, `destroy_device` returns |
| `Meter_rate` | 2 threads, 2 settings, two bands by packets or one by bits, 3 ms (310 658 states up to symmetry) | burst and rate kept, nothing below them dropped |

The type invariants of `OvsCp`, `PmdReload`, `FlowOffload`, `FlowCache` and `VhostPort` are the first conjunct of one of their
invariants (`PointersConserved`, `XpsCounts`, `RefsExact`, `NoUseAfterFree`,
`OneSender`). Those of `PathSelection`, `RepathCp` and `Meter`, and the inductive
invariant and `VerdictNeverChanges` of `OnePathCheck`, are proved (section 5).

### The bounds, and why they are enough

- *Three paths* are the least for which a scan has an inner iteration and ties of two
  among three; 2^64, 1 s and 0xFFFFFFFF become 32, 4 and 16, in the same order and
  with differences on both sides of the wrap.
- *MaxAge 2* lets a fast path deliver a probe two ticks before a slow one.
  *MaxFlight 5* with three paths lets a second round start while two probes of the first are on
  their way: more would only repeat the same overtaking.
- *One latency change* in `Converges`: it comes at any moment after any history,
  and each further change starts from a state that the first has reached.
- *Rings of one slot, bursts of two, one or two descriptors*: every queue is full and every
  burst is partly taken. `RingSize` counts usable slots (a ring made with 1024
  holds 1023).
- *Three mbufs* for two hosts' replies make the pool empty with and without leaks.
- *MaxArrive 3*, *MaxWire 2*: the number of foreign packets, and the number of packets
  on the way to a host; a host that could send more waits.

- *OvsCp*: `MaxBehind` is one round of two probes, which fills a burst of two; the second round,
  when the first has not been polled, makes a count beyond the arrays and an out ring of three
  full. Four CP mbufs let a round wait while another is in the batch, the least of
  `RoomAssumption`. An in ring of one refuses a header of each batch of two, and four headers,
  the least of `HeapAssumption`, are used up by five that arrive.
  One PMD thread does both the polling and the recirculating: with two, the global array
  of headers and the single-producer ring are shared without a lock
  (`NR_PMD_THREADS` is 1, `dpif-netdev.h`).
- *PmdReload*: three cores make a node with two and a node with one, so that queues
  cross nodes; a pinned queue isolates its core; two requests are the least in which
  one changes what the other has set up, and all pairs of them occur. `MaxRequests` lets the
  device of each port ask at any moment as long as fewer than 3 (port 1) or 2 (port 2)
  requests were made in all: so the first port may ask after any two, in any phase of the reconfiguration
  they lead to.
- *FlowOffload*: two flows of one megaflow share a mark, two of different megaflows compete;
  the second offload thread takes part in the flush only.
- *FlowCache*: two microflows, one match that covers one of them and one that covers both; two
  positions are all an EMC hash has; two flows let a removed one be replaced while a
  cache still holds it; a batch of two is the least with an order.
- *Meter*: 1000 becomes 3, so that a bucket of rate 2 has a fill time that is rounded and
  one of rate 1 a longer one that is not; 3 ms hold a long pause after a race. Two settings are
  the least with a replacement. The threads are symmetric.
- *VhostPort*: two threads and two queues are enough to share a queue; the safety
  properties also hold with `MaxQueues` 3 (6.8 million states), which takes too long for
  liveness.

`CHECK_DEADLOCK FALSE` is given where the system does stop: after the last
foreign packet nothing is left to do (`RepathCp`), a process that has trapped calls
nothing more (`OnePathCheck`), or the rounds, the packets and the requests are bounded
(`OvsCp`, `PmdReload`). In the other runs nobody ever waits for ever on everybody.

### Fairness

`FairSpec` of `PathSelection`: the threads are polling loops without a blocking
call, so the round of probes, each scan iteration and time have weak fairness. A
probe's handling has strong fairness for each path: a path that is up
does not lose every probe. `Prompt` (TRUE in the run) says the worker handles
a probe within the tick in which it arrives, a tick being the resolution at which
delays are compared; the proofs hold for both values. Without this the worker could delay the
probes of the best path for ever and convergence would not hold.

`FairSpec` of `RepathCp`: `main` alternates between its rx and its tx half, so
each half that has work infinitely often does it (strong fairness, as
work may come and go while the other half runs); the workers and the NIC keep going
(weak fairness). `NetLose` and `Arrive` have none. `Paced` says that the `sleep(2)` between
rounds of probes (:404) outlasts their sending; without it the out ring alone
could lose the probes.

`FairSpec` of `OvsCp`: each thread goes on (weak fairness), and the polling thread comes
back to `pf1hpf` although it recirculates in between (strong fairness of
`RxCount`). Nobody is fair to a round: that a round waits unpolled while the next one is
made is never excluded. `PmdReload`: as long as the main thread or a PMD thread has a step of the reconfiguration
to take, one of them does, which is weaker than fairness for each and enough, since none
of them goes on for ever without the others; requests are not made to arrive. `FlowOffload`: each
offload thread, the deletion of a port once begun, and the end of a removal. `FlowCache`: the
PMD thread within a batch, the other thread within what it began, and the sweep, which
comes every 1024 turns of the loop, between batches (strong, as batches come in between).
`VhostPort`: reconfiguration once wanted, the library once RCU lets it, and each
PMD thread within an operation; guests and packets do what they like.

## 4. Where documentation and code disagree

Two runs show a disagreement as a counterexample.

`OnePathCheck_packets`: README:13-18 has the time stamp of the data packets go to the along-path
check, which counts the one-way delay and examines whether to switch. The check reads fields of
`*cur_path_info` that nobody writes. `SlowestPacketSwitches` is a weak reading of the README: when a data
packet comes that is slower than all before it and no faster than the largest delay of the record,
line 368 must ask for another path, for it is past the threshold of line 358 for every R up to 1. In the
trace packets with delays 0 and 3 come, and the check stays on the path both times. That this is
so for every record and every sequence of packets is the theorem `CheckedOnce`: the first answer is repeated
for ever. In most builds the record is a fresh page: with zeros in it `delta_t` is 0, and the division of line 361 ends a receiver on x86-64 at its first data packet (`HandleTsTrap`).

`OvsCp_owner`: `netdev_dpdk_rxq_recv` appends a CP
packet by copying its `struct rte_mbuf` over whatever mbuf an earlier batch left in
the slot (`netdev-dpdk.c:2493`). The datapath owns the packets of a batch and gives them
away (`:2207` "Takes ownership of 'pkts', even in case of failure",
`dpif-netdev.c:8846`), so that mbuf is back in its pool or with the NIC. From then on
two places refer to it, and it is freed twice, into `hopa_cp_mp` too, while the
mbuf that was dequeued is in no pool. `PointersConserved` is what remains true: the
*number* of pointers is kept, so the pools do not run dry, and that is why the
program goes on working for a while.

The others have no run of their own.

- README:8 calls the choice the best path *at present*: an entry of the table is only
  overwritten by a probe that arrives, so a path that is down stays the choice.
- `hopa_cp.c:244` says a REPATH goes out on the best path: the encoder is 1-based, the
  table 0-based, so it takes the path before.
- README:25 has acknowledgements recover a lost REPATH: nobody keeps or resends one.
- `hopa_cp.c:331` has the ACK stop the timer: the timer is armed at the host that
  *sends* the ACK, and is never stopped.
- README:8 has probes sent every x ms: on a sender the in ring has no consumer, REPATHs
  fill it, the next ones keep their mbufs, the pool runs dry and the process exits.
- README:8 says that a time difference avoids clock synchronisation; the added second covers a
  receiver clock up to 1 s behind, and the initial entry 0xFFFFFFFF ns = 4.29 s leaves 3.29 s
  ahead: beyond that fast paths wrap to huge entries, or unmeasured paths win.
  `OffsetCovers` is this condition, and section 5 says where it is needed.
- A REPATH sent to a sender is never confirmed, because it never reads its in ring.
- The usage text (`hopa_cp.c:57`) calls `DEF_SENDER` = 1 the default, `hopa_param = {0}`
  (:501) makes it 0.
- `netdev-dpdk.c:4007` speaks of clearing all available tx queues: the loop ends at
  `n_txq`, so queues a guest enabled beyond it are found enabled by the next guest.
- `netdev-dpdk.c:5023` enables rx queue 0 by default and maps tx queue 0 to itself, but
  in a reconfiguration only: a guest that reconnects without one starts with both cleared.
- `dpif-netdev.c:5696`: the check for polling across NUMA nodes looks at `rxq->pmd`, not at the
  schedule it is given, so with an estimated schedule it judges the one in force.
- `dpif-netdev.c:7261` speaks of a time "that is enough to fill any bucket": it is rounded
  down, so a bucket of rate 600 and burst 1 gets 600 of its 1000 however long nobody sends, and
  if every band's rate is above 1000 times its burst none is refilled at all: once its burst is
  used such a meter drops everything. With `Promised(band) == Capacity(band)` TLC finds
  `WithinRatePasses` violated.
- `dpif-netdev.c:7091` has a thread with an earlier time count as one that received its
  packets at the same time, but sets `used` back to that time: the next call counts the
  time between again. Two threads that take turns get more than the rate, which is why
  `RateKept` counts time from call to call.
- `dpif-netdev.c:7271` frees the existing meter before it attaches the new one: packets between
  the two pass unmetered.
- `netdev-dpdk.c:826` takes `rte_errno == EEXIST` for "the pool exists", also when the pool was
  created and the value is left from an earlier call: such a pool is not entered in the list
  from which `dpdk_mp_sweep` frees unused ones (line 621), and stays for ever.

## 5. What is proved

All theorems hold for every value of the constants that satisfies the `ASSUME`s of
the module (`PathPortsAssumption`, `PathDelayAssumption`,
`PathSelectionAssumption`;
`TwoHostsAssumption`, `FlagsAssumption`, `SizesAssumption`, `KindsAssumption`;
`SetsAssumption`, `PacedAssumption`, `RoomAssumption`, `HeapAssumption`, `ArrivingAssumption`;
`CoreAssumption`, `NumaAssumption`, `ReloadAssumption`; `CacheAssumption`; `OffloadAssumption`;
`VhostAssumption`; `MeterAssumption`).
TLC evaluates these in every run.

*PathSelectionProofs.* `SpecTypeOK`, `SpecOptIsFirstMin`, `SpecOptIsFastest`,
`SpecImplementsBestPath`. The choice is a first minimum
only between handlers; to carry it through a scan `IInv` adds `ScanInv`, the loop
invariant of `get_min_delay_path_id`, and to relate table entries to clock
readings `TableTellsDiff` and `DiffRange`. `OptIsFastest`
needs one assumption on the clocks, `OffsetCovers`: every difference
plus the offset is non-negative and below the entry of an unmeasured path. It
cannot be dropped: with `Skew` = -5 in `PathSelection_converges` TLC finds `OptIsFastest`
violated. The refinement maps the table to `est`
and the choice, or during a scan the choice the scan will make, to `best`; only
`StoreDelay` is a step of `BestPath`, everything else stutters. A lemma shows that a first minimum
exists and is unique.

*RepathCpProofs.* `SpecIInv`, `SpecTypeOK`, `SpecMbufsConserved`,
`SpecLeakOnlyWhenRingFull`, `SpecExitOnlyAfterLeak`, `SpecAcksAnswerRepaths`. The inductive invariant is
`TypeOK /\ MbufsConserved`: neither is inductive alone, because `free` stays within the
pool only if what is held and what is free never exceed it, and lengths add up only for
sequences. The lemmas about `Enqueue`, `Burst` and `RemoveAt` give the lengths; for
each action one lemma states how `free + Held` changes. It does not grow, and it
shrinks only where an enqueue leaves a ring full, which is at once the
preservation of the invariant and the action property. `SpecExitOnlyAfterLeak`
assumes `PoolCovers`. For the numbers of the code (8191 mbufs; 1024 + 1024
descriptors, 2 rings of 1023, 2 bursts of 32, 4 probes: 4162) it holds.
`SpecAcksAnswerRepaths` assumes that no REPATH or acknowledgement comes from elsewhere
(`Arriving`): one of a third program would be answered, too. `CountKind` counts packets of a kind as the
size of a set of positions, so lemmas with a bijection say what concatenating, parting
and removing does to it. With them each action has an `Effect`: how many packets of each
kind its host takes and at most makes. `Balanced` is the core: a step keeps the property of both
hosts if it makes no acknowledgement without taking a REPATH, and counts what it makes and
takes. The invariant needs one conjunct more, `NoneEncoded`: what
`lcore_probe` has encoded asks for nothing, for it goes into the same out ring.

The last part of the module is about `OnePathCheck`: `CheckInvariance` and `CheckedOnce`
(`VerdictNeverChanges`), and needs no assumption on the constants. After one call the bounds enclose the current delay (`Bracket`), so
further calls leave them alone; hence the verdict on them stays (`SaidIsVerdict`).

*OvsCpProofs.* `Invariance`, `Types`, `CrashCauses` (`CrashHasCause`) and the refinement `Channels`, for
both roles, any number of paths, PMD threads and mbufs and any sizes that the assumptions
allow, also when the polling thread does not keep up. That no thread uses a ring before it is made is
the short part (`Made`). The long one is that no encoder gets `NULL` and no `NULL` reaches a batch
while the polling thread keeps up (`~late`): the
copying of mbuf structures makes it impossible to say of any mbuf where it is, which is why
`SingleOwner` is violated. What can be said is where pointers go. `Homed`: an mbuf made
for `hopa_cp_mp` keeps that pool in its `pool` field, because only mbufs that have it
are copied, so each slot the copying has filled gives a pointer back to `hopa_cp_mp` when the
batch ends, whatever mbuf it names. `Stocked`: pool, round, out ring and batch together never hold
fewer pointers than were made. With room for twice what may wait the pool is then never empty.
`Polls` says that what was counted before the receive is still there at the dequeue,
`Fits` that a round that was begun has room at the end, since only the poll takes from the ring
meanwhile. The parts of the invariant that rest on a round having room are about `~late`, the others,
`Types` among them, hold in every case: the ring takes what fits.
`Heaped` counts headers: the in ring, the progress thread, the array and what was refused are what the
heap is short of. Its proof is for one thread that recirculates, as `CrashHasCause` is: two threads that
write the shared array can lose a header there. That a slot no batch has filled is not written through
is not provable, and not claimed.
For `Channels`, what waits is the array from the copying loop's index on and then
the ring: the dequeue is a stutter, a turn of the loop gets one, and what a full ring
refuses, of headers or of a round, is the only loss.

`Conserved` (`PointersConserved`) makes the balance exact. The pool of the NIC says how many
pointers to each mbuf it has, so its size is a sum over all mbufs, and
`FoldTallies` shows by induction over finite sets that the fold behind it is the size of a set of
pairs (`Tally`). `BurstPointers` and `ProcessPointers` say what taking and freeing a batch does to that
set: one pointer less for each slot, and one more in whichever pool the `pool` field of the slot's
mbuf names. `Counted` says that pools, round, out ring and batch hold what was made, and needs
`Fresh`: before `hopa_cp_mp` is made nothing holds an mbuf of it. `SetsAssumption` has the mbufs finite.

*PmdReloadProofs.* `Invariance`, `NotUsed`, `OnePoller`, `OwnTxq`, `Counts`, for any cores, ports,
masks and numbers of queues. The invariant has one part for each question. `Signals`: which
threads have been asked and which still are to be, with the one between the two stores of its signal.
`Handover`: a thread's copies are within the lists the main thread has given it, or it has yet to
load them. `OneOwner`: a queue is in the lists or copies of one thread, which from the
schedule on is the one it gives the queue to. `PortsKept`: phase by phase, which
ports may still be in lists and copies; the ports to be reconfigured are in none once the
main thread has waited for the second reload. `NotUsed` is about the steps that touch a port; there are
three (`TouchCases`): one that adds it, the end of its deletion, and `Reconfigure`, which goes by
`need`, the set as it was in step 2. A request that came since does not enter it. `Counted`: the use count of a tx queue is the number
of threads that have picked it. `OwnIds`, `ThreadsWanted`, `IdsFit`, `TxqsEnough`: ids are distinct,
there are as many threads as the mask wants or fewer while threads go,
ids are below that number once every thread has answered, and a static port has a tx queue
for each, so that `StaticTxqOwn` needs no modulo. That a new id is below the number of threads is a counting argument about
`FreeQid`. The proof goes by kinds of steps (seven kinds of a PMD thread's) and what each leaves
alone, and then part by part.

`SchedInvariance`, `Sound` (`ScheduleSound`) and `Balanced` (`GroupBalanced`) are about the rx
queues, for any cores, nodes, pins and measured cycles. Neither property says enough of the steps
before: a schedule is made queue by queue while the walk and the loads move on. `SchedInv` says of
one in the making that the list is of its type (`ListType`, with the place of each walk on its circle),
the cycles of a thread are the sum of those of its queues (`Sums`), each placed queue is
where it should be (`AllRight`), and the others come later, each once (`Rest`); for group also
that they come in falling order of cycles, none above one already placed (`Falling`), and
that the threads are level (`Level`). Placing a queue keeps `Level` because it goes to the least loaded
thread, and each queue given earlier to that thread had no fewer cycles than the new one. Behind
it are: that a comparison that orders the queues sorts them (`SortExists`), that 2n places in a
row of the walk up and down show every one of n threads (`WalkFinds`), which `ShownOnce`,
the mutant, does not, and that the search over the nodes finds a free thread if there is one (`PickNumaIs`).

*FlowCacheProofs.* `Invariance`, `MatchesUnique`, `Covered`, `ReferencesHeld`, `Placement`, `ExecutedOnce`,
`ExecutedInOrder`, for any microflows, matches, numbers of flows and sizes of batches. The invariant of
the first four has two halves. That of flows and
EMC: `References` (a flow without a reference in the EMC, the tables or being alive is postponed, what
the EMC holds is used and matches its key) and `Controlled` (what the flow being put or removed is
still in). `NoUseAfterFree` is not inductive without the latter: the next step of a
removal gives up a reference that must be there. That of the PMD thread: `Staged` (where it is in
which sequence), `Mapped`, `Missing`, `Batching`, `Installing` (each flow it has found covers
its packet, is used and was not dead at the receipt) and `Known` (a flow that remembers a batch
remembers its own), without which a packet could join another flow's batch. The steps of the
other thread leave the second half alone, because a flow that is used stays used, with its match
(`Kept`), until the PMD thread is quiescent, and then it holds none (`IdleInv`). One
lemma states what an insertion in the EMC does, with the flow it evicts and the one that may have
died before it (`InsertEffect`); `MatchesUnique` rests on the lookup under `flow_mutex` before each
insertion (`Added`).

`EachOnce` and `InOrder` speak of the outcome of a receipt, which exists only once `Flush` has made it; the
second invariant, `Placed`, says where each packet is until then. `Numbered`: `flow_map` has, in order, the packets that
were not batched before the first miss. `Queueing`: the batches have those that were, each once,
in order, and a flow remembers the batch that points to it. `Answering`: the slow path has executed or
dropped each packet it has been through, once, but those for which it found a flow. `Waiting`:
the entries of `flow_map` without a flow are the ones still missed and the ones answered.
For the order, `Late` says that a packet that a flow takes is of another microflow than those
the slow path executed that were received after it, and rests on `Standing`: while no flow has been removed since the
receipt, a flow once found is found again. What `Flush` computes is a fold over `flow_map`, then the
batches flattened; both are unfolded to the sequence of their partial results, and the
induction is along it.

*FlowOffloadProofs.* `Invariance`, `References`, `Marks`, `GonePort`, for any flows, megaflows,
marks, PMD and offload threads and queues. All requests about a megaflow go to one offload
thread: `Sited` says that references to a flow are found only there, so `Counted` need
only look at one queue and one thread to say what a reference count is. `OnePlace`: a mark
is free, or of one megaflow, or in the hands of one thread. `MarksAgree` relates the marks of the
flows, the map and what a thread knows of them at each point of its work. `Flushes`: a
flush is asked for, served and waited for once per thread and stage of the barrier. `Rules`: the
rules of the port go thread by thread, and none comes back, because whoever could
install one finds the port unmapped or has been waited for. `RefStep` (what a step adds
to a count it adds to the references), `LocalMarks`, `NoFlushStep` and
`OneRuleStep` carry the parts over the steps that touch one flow, one mark or one rule.

*VhostPortProofs.* From `VhostAssumption` alone: any number of queues, PMD threads, packets
in a batch and retries. Four invariants are carried side by side. `Typed` adds to
`TypeOK` the types of what each PMD thread does, and that a port in use has a queue:
without that `t % n` means nothing. `Waited` says that a device that can be read is there
and no `destroy_device` waits, and that one that waits, waits for every thread in an
operation: `VidNotUsedAfterDestroy` is not inductive without the second part. `Sending`
says that whoever is between lock and unlock holds the lock of the queue it has looked up,
and not of the one it would look up now, which is why a change of the mapping does no
harm to `OneSender`; and that what it has sent is the batch up to `at`, from which
`SentOnce` follows. `MapSound` is inductive as it stands, given `Typed`: whether a queue is mapped to
itself changes only where the library is heard, where a device goes and, for queue 0, where
a reconfiguration finds nothing said of it (`Says`); the
work is in the lemmas about `Remap`, which leaves all that alone (`RemapSays`). `NthInSet`, that every
position below the size of a finite set of numbers is taken, has the map from a
member to its position as an injection into a set of the same size, and so onto it.

*MeterProofs.* `Invariance`, `Limited` (`RateKept`) and `Served` (`WithinRatePasses`), for any bands,
threads, packet sizes and batches, from `MeterAssumption`. `RateKept` compares a bucket with what has
passed since any call; it is not inductive, because how much may still pass depends on what
is in the bucket. `Sound` says of each band that its excess over the rate (`level`) and its bucket are
together no more than the capacity, so that each packet that passes takes from the one what
it adds to the other, and that the ideal bucket never has more than the real one. The latter is where
a thread that comes late and the cut of `delta_t` at `max_delta_t` matter: the ideal bucket counts time from
the latest call, the code from the last one, which is no later; and where the code cuts time, the
time left fills the bucket up to what is promised, which is the part that the division
in `max_delta_t` rounds down (`RoundedDown`). `wronged`, the ghost that a packet within
the promise was dropped, then stays FALSE.

*Recursion in proofs.* The provers take no induction theorem with an operator as parameter. Where an
induction over numbers or finite sets is needed, it is the lemma `AllNat` or `AllFinite`: a set
that has 0 and with each number the next one has all numbers, and likewise for finite sets. Each is
proved from the library's theorem on well-founded orders that a non-empty set has a least
member. A fold of the community modules is a recursive function chosen by CHOOSE; a lemma
(`FoldTallies`, `FoldExists`, `FlattenExists`) shows that such a function exists and gives its
equation.

### Model-checked only

`Converges`, `RepathAcked`, `AllReclaimed`, `AllDelivered`, `ScheduledIsPolled`,
`DeadFreed`, `DeletionEnds`, `DeadReclaimed`, `AttachedRuns` and `DestroyEnds` are liveness
properties and stay with TLC: fairness and ENABLED are out of the provers' reach. Every safety property that a
passing run checks is proved.

## 6. Not modelled, and why

*Stand-alone program.* EAL, port and option set-up run once and have no
interleaving. The per-lcore caches of the mempool change at what moment
`rte_pktmbuf_alloc` fails, not what is conserved. Logging, header layout and checksums carry no
control. `backup/` holds superseded prototypes.

*Control plane in OVS.* The caches of the pools, as above. Two PMD threads that
recirculate at once share one array without a lock and one single-producer ring: the runs have one
PMD thread (`NR_PMD_THREADS` is 1), the theorems take any set of them but know of the ring only as a whole
(no two enqueues within each other), and for an empty heap assume one. What a stray write through a slot that no batch
has filled does to the process, unless it ends it, is not modelled, and no property says that it does not
happen: it does.

*PMD threads.* PMD auto load balance (it only asks for a
reconfiguration), the choice of tx queues by hash, the switch of the EMC, changes of
`pmd-rxq-affinity` at run time, ports of threads that are not PMD threads but for
sending, failures of `netdev_reconfigure`.

*Flow caches.* Nested recirculation (a batch within a batch has its own frame), ranking of
subtables, statistics, `dpif_netdev_flow_put` on a flow that exists (its actions change
atomically), packets found by a hardware mark: they skip the caches and depend on
`mark_to_flow`, whose entries `FlowOffload` keeps exact. What the caches look up
themselves is in headers that are not in the repository. `Flush` is one step: it resets `flow->batch` of each
flow and executes the batches, so `EachOnce` says that no pointer is left behind, and not that all are
reset before the first batch is executed (`dpif-netdev.c:8490-8506`), which matters for nested
recirculation only.

*Offload.* Actions of a rule: a flow added by a second PMD thread shares the rule of the first
with the first one's actions (`dpif-netdev.c:2752`). Statistics. `GiveUpMark` frees the mark and lets go of the
megaflow in one step (`:2605`, `:2609`): the map of megaflows belongs to the offload thread, so no other
thread can see the time between.

*vhost.* That a guest gets no packet before its reconfiguration is the test of `SendCheck`, and not a
property of its own. The memory pool of the port, several NUMA nodes, statistics, zero copy.

*Meters.* Numbers do not wrap: the code counts the time to fill a bucket and `bytes * 8` in 32 bits. A band of rate 0
is left out. Statistics, and which of several exceeded bands counts a dropped packet (that of the
highest rate).

*Bonds, connection tracking, actions; physical ports, memory pools of ports, QoS.*
Sequential code under a lock or on one thread; `dpdk_mp` is planned.

## 7. Plan

1. `DpdkMp`: reuse, reference counts and sweep of memory pools under `dpdk_mp_mutex`,
   with mbufs in flight when a port goes.
2. `OvsCp` with two PMD threads as a counter-model of `NR_PMD_THREADS` 1.
