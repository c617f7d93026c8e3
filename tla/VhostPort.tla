----------------------------- MODULE VhostPort -----------------------------
(***************************************************************************)
(* A vhost user client port of netdev-dpdk.c.  The thread of the vhost     *)
(* library tells of guests that come and go and, at any time, of queues    *)
(* that are enabled or disabled; the main thread configures the port and   *)
(* fits it to the number of queues of the guest; PMD threads send to the   *)
(* guest and receive from it without a mutex, protected by RCU and by a    *)
(* lock for each transmit queue.                                           *)
(*                                                                         *)
(* dpdk_mutex and dev->mutex are held for the whole of a callback or a     *)
(* reconfiguration, which are therefore single steps.  Requested numbers   *)
(* of rx and tx queues always agree.  There is one NUMA node.  The vhost   *)
(* library, the guest, RCU and netdev.c are outside the source.  A         *)
(* reconfiguration that fails removes the port: the model ends before.     *)
(***************************************************************************)
EXTENDS Integers, FiniteSets, Sequences

CONSTANTS
  MaxQueues,      \* OVS_VHOST_MAX_QUEUE_NUM, and the most a guest has
  Pmd,            \* PMD threads, by their static tx queue id
  Batch,          \* packets in a batch
  MaxRetries      \* vhost_tx_retries_max

UNKNOWN == -1               \* OVS_VHOST_QUEUE_MAP_UNKNOWN
DISABLED == -2              \* OVS_VHOST_QUEUE_DISABLED
NR_QUEUE == 1
Queues == 0 .. MaxQueues - 1

ASSUME VhostAssumption ==
  /\ MaxQueues \in Nat \ {0} /\ Pmd \subseteq Nat /\ Batch \in Nat \ {0} /\ MaxRetries \in Nat

VARIABLES
  path,           \* "none", "set" (dev->vhost_id), "registered"
  up,             \* NETDEV_UP in dev->flags
  n, requested,   \* n_txq and n_rxq; requested_n_txq and requested_n_rxq
  vid,            \* whether dev->vid has a device
  fit,            \* dev->vhost_reconfigured
  map,            \* tx_q[].map
  rxEnabled,      \* vhost_rxq_enabled, as the set of queues
  wanted,         \* netdev_is_reconf_required
  paused,         \* the port is taken from the PMD threads
  guest,          \* whether the vhost library has a device it told of
  cb,             \* PMD threads destroy_device waits for, or Calm
  lock,           \* tx_q[].tx_lock: the PMD thread that has it
  pmd,            \* what each PMD thread does with the port
  told            \* ghost: what was last heard of a tx queue, see MapSound

devVars == <<path, up, n, requested, fit, wanted>>
vars == <<path, up, n, requested, vid, fit, map, rxEnabled, wanted, paused, guest, cb,
          lock, pmd, told>>

Free == -1                  \* a lock nobody has
Calm == {-1}                \* no destroy_device is waiting
Idle == [pc |-> "idle", qid |-> 0, left |-> 0, at |-> 1, retries |-> 0, got |-> <<>>]

Init ==
  /\ path = "none" /\ up = TRUE /\ n = 0 /\ requested = NR_QUEUE /\ vid = FALSE /\ fit = FALSE
  /\ map = [q \in Queues |-> UNKNOWN] /\ rxEnabled = {} /\ wanted = TRUE /\ paused = FALSE
  /\ guest = FALSE /\ cb = Calm /\ told = [q \in Queues |-> "no"]
  /\ lock = [q \in Queues |-> Free] /\ pmd = [t \in Pmd |-> Idle]

IsVhostRunning == vid /\ fit

-----------------------------------------------------------------------------
(* netdev_dpdk_remap_txqs: the queues that are not enabled use the enabled *)
(* ones in turn, or are disabled when there is none.                       *)
Enabled(mp, k) == {q \in 0 .. k - 1 : mp[q] = q}

Nth(s, i) == CHOOSE q \in s : Cardinality({r \in s : r < q}) = i

Remap(mp, k) ==
  LET on == Enabled(mp, k)
      Turn(q) == Cardinality({r \in 0 .. q - 1 : mp[r] # r}) IN
  [q \in Queues |->
     IF q >= k \/ mp[q] = q THEN mp[q]
     ELSE IF on = {} THEN DISABLED
     ELSE Nth(on, Turn(q) % Cardinality(on))]

-----------------------------------------------------------------------------
(* The main thread.                                                        *)

mainFrame == <<vid, guest, cb, lock, pmd, told>>

(* netdev_dpdk_vhost_client_set_config: the path, until it is registered.  *)
SetConfig ==
  /\ path # "registered" /\ path' \in {"none", "set"} \ {path} /\ wanted' = TRUE
  /\ UNCHANGED <<up, n, requested, fit, map, rxEnabled, paused, mainFrame>>

(* netdev_dpdk_update_flags.                                               *)
UpdateFlags ==
  /\ up' = ~up
  /\ UNCHANGED <<path, n, requested, fit, wanted, map, rxEnabled, paused, mainFrame>>

(* reconfigure_datapath takes the port from the PMD threads first.         *)
Pause ==
  /\ wanted /\ ~paused /\ paused' = TRUE
  /\ UNCHANGED <<devVars, map, rxEnabled, mainFrame>>

(* netdev_dpdk_vhost_client_reconfigure with dpdk_vhost_reconfigure_helper.*)
Reconfigure ==
  /\ paused /\ \A t \in Pmd : pmd[t].pc = "idle"
  /\ path' = IF path = "set" THEN "registered" ELSE path
  /\ n' = requested
  /\ rxEnabled' = rxEnabled \cup {0}
  /\ map' = Remap(IF map[0] = UNKNOWN THEN [map EXCEPT ![0] = 0] ELSE map, n')
  /\ fit' = (fit \/ vid)
  /\ wanted' = FALSE /\ paused' = FALSE /\ UNCHANGED <<up, requested, mainFrame>>

-----------------------------------------------------------------------------
(* The thread of the vhost library: one callback at a time.                *)

cbFrame == <<path, up, n, paused, lock, pmd>>

(* Mutant: the number of queues is noted, and nothing asked for.           *)
NewDeviceQuietly(pairs) ==
  /\ path = "registered" /\ cb = Calm /\ ~guest
  /\ IF requested < pairs THEN requested' = pairs /\ fit' = fit
     ELSE fit' = TRUE /\ UNCHANGED requested
  /\ vid' = TRUE /\ guest' = TRUE
  /\ UNCHANGED <<wanted, map, rxEnabled, cb, told, cbFrame>>

(* new_device.                                                             *)
NewDevice(pairs) ==
  /\ path = "registered" /\ cb = Calm /\ ~guest
  /\ IF requested < pairs
     THEN requested' = pairs /\ wanted' = TRUE /\ fit' = fit
     ELSE fit' = TRUE /\ UNCHANGED <<requested, wanted>>
  /\ vid' = TRUE /\ guest' = TRUE
  /\ UNCHANGED <<map, rxEnabled, cb, told, cbFrame>>

(* What an earlier guest, or the default, leaves of the ghost: the queues  *)
(* that stay mapped to themselves.                                         *)
Forgotten(mp) == [q \in Queues |-> IF mp[q] = q THEN "left" ELSE "no"]

(* Mutant: the other queues are not mapped again.                          *)
VringTxAlone(q, enable) ==
  /\ path = "registered" /\ cb = Calm
  /\ map' = [map EXCEPT ![q] = IF enable THEN q ELSE DISABLED]
  /\ told' = [told EXCEPT ![q] = IF enable THEN "on" ELSE "off"]
  /\ UNCHANGED <<requested, vid, fit, wanted, rxEnabled, guest, cb, cbFrame>>

(* vring_state_changed, for a queue the guest receives from.  It finds the *)
(* port by its path alone: it may come before new_device and after         *)
(* destroy_device, for a queue the port has or not, and more than once.    *)
VringTx(q, enable) ==
  /\ path = "registered" /\ cb = Calm
  /\ map' = Remap([map EXCEPT ![q] = IF enable THEN q ELSE DISABLED], n)
  /\ told' = [told EXCEPT ![q] = IF enable THEN "on" ELSE "off"]
  /\ UNCHANGED <<requested, vid, fit, wanted, rxEnabled, guest, cb, cbFrame>>

(* The same for a queue the guest sends to.                                *)
VringRx(q, enable) ==
  /\ path = "registered" /\ cb = Calm
  /\ rxEnabled' = IF enable THEN rxEnabled \cup {q} ELSE rxEnabled \ {q}
  /\ UNCHANGED <<requested, vid, fit, wanted, map, guest, cb, told, cbFrame>>

(* destroy_device: under the mutexes, then ovsrcu_synchronize, and only    *)
(* then does the library drop the device.  Only the queues below n_txq and *)
(* n_rxq are cleared.                                                      *)
DestroyDevice ==
  /\ cb = Calm /\ guest
  /\ vid' = FALSE /\ fit' = FALSE
  /\ rxEnabled' = rxEnabled \ (0 .. n - 1)
  /\ map' = [q \in Queues |-> IF q < n THEN UNKNOWN ELSE map[q]]
  /\ told' = Forgotten(map')
  /\ cb' = {t \in Pmd : pmd[t].pc # "idle"}
  /\ UNCHANGED <<requested, wanted, guest, cbFrame>>

(* Mutant: the library goes on without waiting.                            *)
DestroyedAtOnce ==
  /\ cb # Calm /\ cb' = Calm /\ guest' = FALSE
  /\ UNCHANGED <<requested, vid, fit, wanted, map, rxEnabled, told, cbFrame>>

Destroyed ==
  /\ cb = {} /\ cb' = Calm /\ guest' = FALSE
  /\ UNCHANGED <<requested, vid, fit, wanted, map, rxEnabled, told, cbFrame>>

(* destroy_connection, also of one that never had a device.                *)
DestroyConnection ==
  /\ path = "registered" /\ cb = Calm /\ ~guest
  /\ requested' = NR_QUEUE /\ wanted' = (wanted \/ requested # NR_QUEUE)
  /\ told' = Forgotten(map)
  /\ UNCHANGED <<vid, fit, map, rxEnabled, guest, cb, cbFrame>>

-----------------------------------------------------------------------------
(* A PMD thread.  What it has read of dev->vid it uses until it quiesces,  *)
(* here at the end of the operation.                                       *)

Goto(t, s) ==
  /\ pmd' = [pmd EXCEPT ![t] = s]
  /\ cb' = IF s = Idle THEN cb \ {t} ELSE cb
  /\ UNCHANGED <<devVars, vid, map, rxEnabled, paused, guest, told>>

At(t, pc) == pmd[t].pc = pc

(* netdev_dpdk_vhost_rxq_recv, and the burst taken from the guest.         *)
Recv(t) ==
  /\ At(t, "idle") /\ ~paused /\ t < n /\ vid
  /\ Goto(t, [Idle EXCEPT !.pc = "recv"]) /\ UNCHANGED lock

RecvBurst(t) ==
  /\ At(t, "recv") /\ Goto(t, Idle) /\ UNCHANGED lock

(* netdev_dpdk_vhost_send: the device is read, then the queue.             *)
Send(t) ==
  /\ At(t, "idle") /\ ~paused /\ n > 0 /\ vid
  /\ Goto(t, [Idle EXCEPT !.pc = "check"]) /\ UNCHANGED lock

SendCheck(t) ==
  /\ At(t, "check")
  /\ LET qid == map[t % n] IN
     IF fit /\ up /\ qid >= 0
     THEN Goto(t, [pmd[t] EXCEPT !.pc = "lock", !.qid = qid])
     ELSE Goto(t, Idle)
  /\ UNCHANGED lock

(* Mutant: the lock of the queue before it is mapped.                      *)
LockOfSlot(t) == t % n

LockOf(t) == pmd[t].qid

(* The lock; netdev_dpdk_common_send may drop packets of the batch.        *)
TakeLock(t) ==
  /\ At(t, "lock") /\ lock[LockOf(t)] = Free
  /\ lock' = [lock EXCEPT ![LockOf(t)] = t]
  /\ \E left \in 0 .. Batch : Goto(t, [pmd[t] EXCEPT !.pc = "enqueue", !.left = left])

(* Mutant: a retry starts from the first packet of the batch again.        *)
AdvanceNot(s, k) ==
  [s EXCEPT !.left = @ - k, !.got = @ \o [i \in 1 .. k |-> s.at + i - 1]]

(* The guest has taken k packets from pkts on.                             *)
Advance(s, k) ==
  [s EXCEPT !.left = @ - k, !.at = @ + k, !.got = @ \o [i \in 1 .. k |-> s.at + i - 1]]

(* One turn of the retry loop: what the queue takes is up to the library   *)
(* and the guest.                                                          *)
Enqueue(t) ==
  /\ At(t, "enqueue")
  /\ \E k \in 0 .. pmd[t].left :
       LET s == Advance(pmd[t], k) IN
       IF k > 0 /\ s.left > 0 /\ s.retries < MaxRetries
       THEN Goto(t, [s EXCEPT !.retries = @ + 1])
       ELSE Goto(t, [s EXCEPT !.pc = "unlock"])
  /\ UNCHANGED lock

(* Mutant: the lock is kept when not every packet went.                    *)
UnlockIfSent(t) ==
  /\ At(t, "unlock") /\ Goto(t, Idle)
  /\ lock' = IF pmd[t].left = 0 THEN [lock EXCEPT ![LockOf(t)] = Free] ELSE lock

Unlock(t) ==
  /\ At(t, "unlock") /\ Goto(t, Idle)
  /\ lock' = [lock EXCEPT ![LockOf(t)] = Free]

-----------------------------------------------------------------------------
Main == SetConfig \/ UpdateFlags \/ Pause \/ Reconfigure

Library ==
  \/ \E pairs \in 1 .. MaxQueues : NewDevice(pairs)
  \/ \E q \in Queues, enable \in BOOLEAN : VringRx(q, enable) \/ VringTx(q, enable)
  \/ DestroyDevice \/ Destroyed \/ DestroyConnection

InOp(t) == RecvBurst(t) \/ SendCheck(t) \/ TakeLock(t) \/ Enqueue(t) \/ Unlock(t)

Next == Main \/ Library \/ \E t \in Pmd : Recv(t) \/ Send(t) \/ InOp(t)

Spec == Init /\ [][Next]_vars

(* The main loop serves requests to reconfigure, the vhost thread returns  *)
(* once RCU lets it, and PMD threads do not stop in an operation.          *)
FairSpec ==
  /\ Spec
  /\ WF_vars(Pause) /\ WF_vars(Reconfigure) /\ WF_vars(Destroyed)
  /\ \A t \in Pmd : WF_vars(InOp(t))

-----------------------------------------------------------------------------
(* The state is what the code's types say, and a transmit queue that is    *)
(* used is one of the port's.                                              *)
TypeOK ==
  /\ path \in {"none", "set", "registered"} /\ up \in BOOLEAN /\ wanted \in BOOLEAN
  /\ n \in 0 .. MaxQueues /\ requested \in 1 .. MaxQueues
  /\ vid \in BOOLEAN /\ fit \in BOOLEAN /\ paused \in BOOLEAN /\ guest \in BOOLEAN
  /\ map \in [Queues -> Queues \cup {UNKNOWN, DISABLED}] /\ rxEnabled \subseteq Queues
  /\ told \in [Queues -> {"no", "on", "off", "left"}]
  /\ cb = Calm \/ cb \subseteq Pmd
  /\ lock \in [Queues -> Pmd \cup {Free}]
  /\ \A t \in Pmd : pmd[t].qid \in Queues

(* A PMD thread that has read the device of a guest uses it only while the *)
(* vhost library still has it: destroy_device waits for every thread.      *)
VidNotUsedAfterDestroy ==
  \A t \in Pmd : ~At(t, "idle") => guest

(* netdev_dpdk_remap_txqs after every change of a queue and of their       *)
(* number: a mapped queue leads to one that is enabled and within n_txq,   *)
(* and once a queue is enabled no queue of the port is without one.  What  *)
(* vring_state_changed last said of a queue, since the last guest went, is *)
(* what the map says, whether it came before new_device, between it and    *)
(* the reconfiguration that fits the port, or after destroy_device.  A     *)
(* queue it said nothing of is used only if it is queue 0, the default, or *)
(* if an earlier guest left it so, beyond n_txq or without a device.       *)
MapSound ==
  /\ \A i \in 0 .. n - 1 : map[i] >= 0 => map[i] \in Enabled(map, n)
  /\ Enabled(map, n) # {} => \A i \in 0 .. n - 1 : map[i] >= 0
  /\ \A q \in Queues :
       /\ told[q] = "on" => map[q] = q
       /\ told[q] = "off" => map[q] \notin {q, UNKNOWN}
       /\ told[q] = "no" /\ map[q] = q => q = 0

(* Several queues of the port may lead to one queue of the guest; only one *)
(* thread at a time puts packets on it.  The types come first.             *)
OneSender ==
  /\ TypeOK
  /\ \A t, u \in Pmd :
       t # u /\ At(t, "enqueue") /\ At(u, "enqueue") => pmd[t].qid # pmd[u].qid

(* Retries give the guest the packets of a batch in their order, and none  *)
(* twice.                                                                  *)
SentOnce ==
  \A t \in Pmd : \A i \in 1 .. Len(pmd[t].got) : pmd[t].got[i] = i

(* A guest that attaches while it needs a reconfiguration is served, or    *)
(* goes.                                                                   *)
AttachedRuns == guest ~> (IsVhostRunning \/ ~guest)

(* destroy_device returns: no thread keeps it waiting for a lock or in a   *)
(* retry.                                                                  *)
DestroyEnds == (cb # Calm) ~> (cb = Calm)
=============================================================================
