----------------------------- MODULE PmdReload -----------------------------
(***************************************************************************)
(* Reconfiguration of the datapath of dpif-netdev.c: the main thread       *)
(* creates and stops PMD threads, takes ports and rx queues away from      *)
(* them, reconfigures ports, schedules the queues and hands them out, each *)
(* time asking the threads to reload and waiting until they have; the PMD  *)
(* threads poll, notice the request, load their lists and acknowledge.     *)
(*                                                                         *)
(* A PMD thread is named by its core.  NonPmd is the pmd structure of the  *)
(* threads that are not PMD threads: it has tx ports and a tx queue id,    *)
(* and the main thread reloads it itself.                                  *)
(***************************************************************************)
EXTENDS RxqSched

CONSTANTS
  Port,           \* numbers
  NonPmd,         \* NON_PMD_CORE_ID
  MaxRxq,         \* rx queues a port may have
  HwTxq,          \* tx queues the device of a port can have
  Masks,          \* pmd-cpu-mask settings
  Iso,            \* pmd-rxq-isolate settings
  MaxCycles,      \* bound: measured cycles of each queue
  MaxChanges,     \* bound: requests up to which the main thread takes new ones
  MaxRequests     \* bound, for each port: requests up to which its device makes new ones

ASSUME ReloadAssumption ==
  /\ Port \subseteq Nat /\ MaxRxq \in Nat \ {0} /\ NonPmd \notin Core \cup {NoCore}
  /\ NoCore \notin Port                \* it stands for no port, too
  /\ \A m \in Masks : m \subseteq Core
  /\ HwTxq \in [Port -> Nat \ {0}]

Thread == Core \cup {NonPmd}
Rxq == Port \X (0 .. MaxRxq - 1)

VARIABLES
  pc,             \* where the main thread is in reconfigure_datapath
  cmask,          \* pmd_cmask
  algo,           \* pmd_rxq_assign_type and pmd_iso
  iso,
  requested,      \* dp_netdev_is_reconf_required
  reconf,         \* ports whose netdev_is_reconf_required
  changes,        \* bound
  ports,          \* dp->ports
  exists,         \* port structures not yet destroyed
  leaving,        \* the port do_del_port destroys when all is reconfigured
  need,           \* ports with need_reconfigure
  wanted,         \* wanted_txqs
  n_rxq, n_txq, txq_mode, txq_used,
  rxq_pmd,        \* rxq->pmd, the wanted thread
  sched,          \* struct sched_numa_list while the schedule is made
  isolated,
  threads,        \* dp->poll_threads
  todo,           \* threads the main thread has still to signal or to fill
  bumped,         \* thread whose reload_seq has changed and whose reload is not yet set
  sh,             \* per thread, shared with the main thread
  th              \* per thread, its locals

mainVars == <<pc, requested, leaving, need, wanted, todo, bumped>>
confVars == <<cmask, algo, iso, reconf, changes>>
portVars == <<ports, exists, n_rxq, n_txq, txq_mode>>
schedVars == <<rxq_pmd, sched, isolated>>
vars == <<mainVars, confVars, portVars, schedVars, txq_used, threads, sh, th>>

(* dp_netdev_configure_pmd.  seq says that reload_seq differs from         *)
(* last_reload_seq.                                                        *)
NewShared == [need_reload |-> FALSE, reload |-> FALSE, seq |-> FALSE, exit |-> FALSE,
              wait_for_reload |-> FALSE, reload_tx_qid |-> FALSE,
              poll_list |-> {}, tx_ports |-> {}]

NoQid == -1
NewThread == [pc |-> "none", polled |-> {}, sending |-> {}, xps |-> <<>>,
              waiting |-> FALSE, rtx |-> FALSE, exiting |-> FALSE, qid |-> NoQid]

Min2(a, b) == IF a < b THEN a ELSE b

(* id_pool_alloc_id: the least id that no thread holds.                    *)
FreeQid == CHOOSE i \in 0 .. Cardinality(Thread) :
             /\ \A t \in Thread : th[t].qid # i
             /\ \A j \in 0 .. i - 1 : \E t \in Thread : th[t].qid = j

-----------------------------------------------------------------------------
Init ==
  /\ pc = "idle" /\ cmask \in Masks /\ requested = FALSE
  /\ algo \in Algos /\ iso \in Iso
  /\ iso \/ algo = "group"              \* dpif_netdev_set_config
  /\ reconf = {} /\ changes = 0
  /\ ports = {} /\ exists = {} /\ leaving = NoCore /\ need = {} /\ wanted = 1
  /\ n_rxq = [p \in Port |-> 0] /\ n_txq = [p \in Port |-> 1]
  /\ txq_mode = [p \in Port |-> "static"]
  /\ txq_used = [p \in Port |-> [i \in 0 .. Cardinality(Core) |-> 0]]
  /\ rxq_pmd = [q \in Rxq |-> NoCore] /\ sched = <<>> /\ isolated = {}
  /\ threads = {NonPmd} /\ todo = {} /\ bumped = NoCore
  /\ sh = [t \in Thread |-> NewShared]
  /\ th = [t \in Thread |-> IF t = NonPmd THEN [NewThread EXCEPT !.pc = "main", !.qid = 0]
                                          ELSE NewThread]

-----------------------------------------------------------------------------
(* Requests.  The main thread serves them one at a time.                   *)

Request ==
  /\ pc = "idle" /\ changes < MaxChanges
  /\ changes' = changes + 1
  /\ UNCHANGED <<algo, iso, portVars, n_rxq, schedVars, txq_used, threads, sh, th,
                 wanted, todo, bumped>>

(* dpif_netdev_set_config with another pmd-cpu-mask.                       *)
SetCmask ==
  /\ Request
  /\ cmask' \in Masks \ {cmask} /\ requested' = TRUE
  /\ UNCHANGED <<pc, reconf, leaving, need>>

(* A device asks for reconfiguration (netdev_request_reconfigure): the     *)
(* main thread at an option, but also the vhost thread when a guest comes  *)
(* or enables queues, whatever the main thread is doing.                   *)
RequestReconf(p) ==
  /\ p \in ports /\ changes < MaxRequests[p]
  /\ reconf' = reconf \cup {p}
  /\ changes' = changes + 1
  /\ UNCHANGED <<mainVars, cmask, algo, iso, portVars, schedVars, txq_used, threads, sh, th>>

(* do_add_port up to reconfigure_datapath.                                 *)
AddPort(p) ==
  /\ pc = "idle" /\ changes < MaxChanges /\ p \notin ports
  /\ changes' = changes + 1
  /\ ports' = ports \cup {p} /\ exists' = exists \cup {p}
  /\ need' = need \cup {p}
  /\ n_rxq' = [n_rxq EXCEPT ![p] = 0]
  /\ txq_mode' = [txq_mode EXCEPT ![p] = "static"]
  /\ pc' = "threads"
  /\ UNCHANGED <<cmask, algo, iso, reconf, requested, leaving, wanted, todo, bumped,
                 n_txq, schedVars, txq_used, threads, sh, th>>

(* do_del_port up to reconfigure_datapath.                                 *)
DelPort(p) ==
  /\ pc = "idle" /\ changes < MaxChanges /\ p \in ports
  /\ changes' = changes + 1
  /\ ports' = ports \ {p} /\ leaving' = p
  /\ pc' = "threads"
  /\ UNCHANGED <<cmask, algo, iso, reconf, requested, need, wanted, todo, bumped, exists,
                 n_rxq, n_txq, txq_mode, schedVars, txq_used, threads, sh, th>>

(* dpif_netdev_run.                                                        *)
Run ==
  /\ pc = "idle" /\ (requested \/ reconf \cap ports # {})
  /\ pc' = "threads"
  /\ UNCHANGED <<requested, leaving, need, wanted, todo, bumped, confVars, portVars,
                 schedVars, txq_used, threads, sh, th>>

-----------------------------------------------------------------------------
(* reload_affected_pmds.  In a phase of name r the threads of todo are     *)
(* signalled, one by one; then it waits for all of them.                   *)

NeedReload == {t \in threads : sh[t].need_reload}

(* Mutant: a thread that sleeps is not woken.                              *)
BumpSeqNoWake(t) ==
  /\ pc \in {"reload1", "reload2", "reload3", "reload4"}
  /\ t \in todo \ {NonPmd} /\ bumped = NoCore
  /\ sh' = sh
  /\ bumped' = t
  /\ UNCHANGED <<pc, requested, leaving, need, wanted, todo, confVars, portVars, schedVars,
                 txq_used, threads, th>>

(* dp_netdev_reload_pmd__ on a PMD thread, in its two steps; the first     *)
(* wakes a thread that sleeps.                                             *)
BumpSeq(t) ==
  /\ pc \in {"reload1", "reload2", "reload3", "reload4"}
  /\ t \in todo \ {NonPmd} /\ bumped = NoCore
  /\ sh' = [sh EXCEPT ![t].seq = TRUE]
  /\ bumped' = t
  /\ UNCHANGED <<pc, requested, leaving, need, wanted, todo, confVars, portVars, schedVars,
                 txq_used, threads, th>>

StoreReload ==
  /\ bumped # NoCore
  /\ sh' = [sh EXCEPT ![bumped].reload = TRUE]
  /\ todo' = todo \ {bumped} /\ bumped' = NoCore
  /\ UNCHANGED <<pc, requested, leaving, need, wanted, confVars, portVars, schedVars,
                 txq_used, threads, th>>

(* dpif_netdev_xps_revalidate_pmd: thread t gives back its queue of each   *)
(* port in ps.                                                             *)
Purge(t, ps) ==
  [p \in Port |->
     IF p \in ps \cap DOMAIN th[t].xps
     THEN [txq_used[p] EXCEPT ![th[t].xps[p]] = @ - 1] ELSE txq_used[p]]

(* The structure of the main thread is reloaded on the spot.               *)
ReloadNonPmd ==
  /\ pc \in {"reload1", "reload2", "reload3", "reload4"}
  /\ NonPmd \in todo /\ bumped = NoCore
  /\ th' = [th EXCEPT ![NonPmd].sending = sh[NonPmd].tx_ports, ![NonPmd].xps = <<>>]
  /\ txq_used' = Purge(NonPmd, Port)
  /\ todo' = todo \ {NonPmd}
  /\ UNCHANGED <<pc, requested, leaving, need, wanted, bumped, confVars, portVars,
                 schedVars, threads, sh>>

(* It waits until every thread has acknowledged.                           *)
Await(r, next) ==
  /\ pc = r /\ todo = {} /\ bumped = NoCore
  /\ \A t \in NeedReload : ~sh[t].reload
  /\ sh' = [t \in Thread |-> [sh[t] EXCEPT !.need_reload = FALSE]]
  /\ pc' = next
  /\ UNCHANGED <<requested, leaving, need, wanted, todo, bumped, confVars, portVars,
                 schedVars, txq_used, threads, th>>

-----------------------------------------------------------------------------
(* Step 1: reconfigure_pmd_threads.                                        *)

Wanted == IF ports = {} THEN {} ELSE cmask
Live == threads \ {NonPmd}
Unwanted == Live \ Wanted
Adjust == Cardinality(Wanted) < Cardinality(Live)

(* Mutant: the ids of the tx queues are left as they are.                  *)
CheckThreadsKeepQids ==
  /\ pc = "threads"
  /\ requested' = FALSE
  /\ todo' = Unwanted /\ pc' = "delete"
  /\ UNCHANGED <<sh, leaving, need, wanted, bumped, confVars, portVars, schedVars, txq_used,
                 threads, th>>

CheckThreads ==
  /\ pc = "threads"
  /\ requested' = FALSE                 \* last_reconfigure_seq is read first
  /\ sh' = [t \in Thread |->
              IF t \in Live \cap Wanted /\ Adjust
              THEN [sh[t] EXCEPT !.reload_tx_qid = TRUE, !.need_reload = TRUE] ELSE sh[t]]
  /\ todo' = Unwanted /\ pc' = "delete"
  /\ UNCHANGED <<leaving, need, wanted, bumped, confVars, portVars, schedVars, txq_used,
                 threads, th>>

(* dp_netdev_del_pmd: exit is set, then the reload.                        *)
DelPmd(t) ==
  /\ pc = "delete" /\ t \in todo /\ bumped = NoCore
  /\ sh' = [sh EXCEPT ![t].exit = TRUE, ![t].seq = TRUE]
  /\ bumped' = t /\ pc' = "join"
  /\ UNCHANGED <<requested, leaving, need, wanted, todo, confVars, portVars, schedVars,
                 txq_used, threads, th>>

(* xpthread_join, dp_netdev_pmd_clear_ports, and the structure goes.       *)
JoinPmd(t) ==
  /\ pc = "join" /\ bumped = NoCore /\ t \in threads /\ th[t].pc = "gone"
  /\ threads' = threads \ {t}
  /\ sh' = [sh EXCEPT ![t] = NewShared] /\ th' = [th EXCEPT ![t] = NewThread]
  /\ pc' = "delete"
  /\ UNCHANGED <<requested, leaving, need, wanted, todo, bumped, confVars, portVars,
                 schedVars, txq_used>>

DeleteDone ==
  /\ pc = "delete" /\ todo = {}
  /\ pc' = "reload1" /\ todo' = NeedReload
  /\ UNCHANGED <<requested, leaving, need, wanted, bumped, confVars, portVars, schedVars,
                 txq_used, threads, sh, th>>

(* New threads, and the number of tx queues each port should have.         *)
CreatePmds ==
  /\ pc = "create"
  /\ threads' = threads \cup Wanted
  /\ th' = [t \in Thread |-> IF t \in Wanted \ threads
                             THEN [NewThread EXCEPT !.pc = "start"] ELSE th[t]]
  /\ wanted' = Cardinality(threads')
  /\ reconf' = IF wanted' = wanted THEN reconf ELSE reconf \cup ports
  /\ pc' = "stale"
  /\ UNCHANGED <<cmask, algo, iso, changes, requested, leaving, need, todo, bumped,
                 portVars, schedVars, txq_used, sh>>

-----------------------------------------------------------------------------
(* Step 2: ports that are gone, or need reconfiguration, or whose sharing  *)
(* of tx queues will change, are taken from all threads                    *)
(* (pmd_remove_stale_ports).                                               *)

Needing == need \cup {p \in ports : \/ p \in reconf
                                    \/ (txq_mode[p] = "xps") # (n_txq[p] < wanted)}

Without(s, ps) ==
  LET r == [s EXCEPT !.poll_list = {q \in @ : q[1] \notin ps},
                     !.tx_ports = @ \ ps]
  IN  [r EXCEPT !.need_reload = @ \/ r # s]

(* Mutant: a port that was deleted is left in the lists.                   *)
RemoveStaleNeeding ==
  /\ pc = "stale"
  /\ need' = Needing
  /\ sh' = [t \in Thread |-> Without(sh[t], need')]
  /\ pc' = "reload2" /\ todo' = {t \in threads : sh'[t].need_reload}
  /\ UNCHANGED <<requested, leaving, wanted, bumped, confVars, portVars, schedVars,
                 txq_used, threads, th>>

RemoveStale ==
  /\ pc = "stale"
  /\ need' = Needing
  /\ sh' = [t \in Thread |-> Without(sh[t], need' \cup (Port \ ports))]
  /\ pc' = "reload2" /\ todo' = {t \in threads : sh'[t].need_reload}
  /\ UNCHANGED <<requested, leaving, wanted, bumped, confVars, portVars, schedVars,
                 txq_used, threads, th>>

(* Mutant: the port is asked again instead of need_reconfigure.            *)
ReconfigureAskAgain(p) ==
  /\ pc = "ports" /\ p \in (need \cup reconf) \cap ports
  /\ need' = need \ {p} /\ reconf' = reconf \ {p}
  /\ \E n \in 1 .. MaxRxq : n_rxq' = [n_rxq EXCEPT ![p] = n]
  /\ n_txq' = [n_txq EXCEPT ![p] = Min2(wanted, HwTxq[p])]
  /\ txq_used' = [txq_used EXCEPT ![p] = [i \in DOMAIN @ |-> 0]]
  /\ txq_mode' = [txq_mode EXCEPT ![p] = IF n_txq'[p] < wanted THEN "xps" ELSE "static"]
  /\ UNCHANGED <<ports, exists>>
  /\ UNCHANGED <<pc, requested, leaving, wanted, todo, bumped, cmask, algo, iso, changes,
                 schedVars, threads, sh, th>>

(* Step 3: port_reconfigure, for the ports that needed it in step 2: a     *)
(* request made since then waits.  A port that fails is destroyed.         *)
Reconfigure(p) ==
  /\ pc = "ports" /\ p \in need \cap ports
  /\ need' = need \ {p} /\ reconf' = reconf \ {p}
  /\ \/ \E n \in 1 .. MaxRxq :
          /\ n_rxq' = [n_rxq EXCEPT ![p] = n]
          /\ n_txq' = [n_txq EXCEPT ![p] = Min2(wanted, HwTxq[p])]
          /\ txq_used' = [txq_used EXCEPT ![p] = [i \in DOMAIN @ |-> 0]]
          /\ txq_mode' = [txq_mode EXCEPT ![p] = IF n_txq'[p] < wanted THEN "xps"
                                                  ELSE "static"]
          /\ UNCHANGED <<ports, exists>>
     \/ /\ ports' = ports \ {p} /\ exists' = exists \ {p}
        /\ n_rxq' = [n_rxq EXCEPT ![p] = 0]
        /\ UNCHANGED <<n_txq, txq_mode, txq_used>>
  /\ UNCHANGED <<pc, requested, leaving, wanted, todo, bumped, cmask, algo, iso, changes,
                 schedVars, threads, sh, th>>

ReconfigureDone ==
  /\ pc = "ports" /\ need \cap ports = {}
  /\ pc' = "schedule" /\ need' = {}
  /\ UNCHANGED <<requested, leaving, wanted, todo, bumped, confVars, portVars, schedVars,
                 txq_used, threads, sh, th>>

-----------------------------------------------------------------------------
(* Step 4: the schedule, from whatever cycles the queues have used.        *)
RxqOf(ps) == {q \in Rxq : q[1] \in ps /\ q[2] < n_rxq[q[1]]}

ScheduleStep == UNCHANGED <<requested, leaving, need, wanted, todo, bumped, confVars,
                            portVars, txq_used, threads, sh, th>>

(* Pinned queues first.  cycles are what the queues happen to have used;   *)
(* round robin does not look at them.                                      *)
SchedulePinned ==
  /\ pc = "schedule"
  /\ \E h \in [RxqOf(ports) -> 0 .. Max(Range(MaxCycles))] :
       /\ \A q \in DOMAIN h : h[q] <= IF algo = "roundrobin" THEN 0 ELSE MaxCycles[q]
       /\ LET pinned == Pinned(Live, DOMAIN h)
          IN  sched' = [list |-> PlacePinned(Populate(Live), pinned, h, iso), cycles |-> h,
                        rest |-> Sorted(DOMAIN h \ pinned, h, algo)]
  /\ pc' = "place"
  /\ UNCHANGED <<rxq_pmd, isolated>> /\ ScheduleStep

(* Then the others, one by one.                                            *)
ScheduleNext ==
  /\ pc = "place" /\ sched.rest # <<>>
  /\ sched' = [sched EXCEPT
                 !.list = PlaceOne(sched.list, Head(sched.rest), sched.cycles, algo),
                 !.rest = Tail(@)]
  /\ UNCHANGED <<pc, rxq_pmd, isolated>> /\ ScheduleStep

(* sched_numa_list_put_in_place.                                           *)
PutInPlace ==
  /\ pc = "place" /\ sched.rest = <<>>
  /\ rxq_pmd' = [q \in Rxq |-> IF q \in DOMAIN sched.list.pmd THEN sched.list.pmd[q]
                               ELSE NoCore]
  /\ isolated' = sched.list.isolated
  /\ sched' = <<>>
  /\ pc' = "comply"
  /\ ScheduleStep

Busy == {rxq_pmd[q] : q \in RxqOf(ports)}

(* Mutant: queues go straight to their new thread.                         *)
ComplyNot ==
  /\ pc = "comply"
  /\ sh' = sh
  /\ pc' = "reload3" /\ todo' = {t \in threads : sh'[t].need_reload}
  /\ UNCHANGED <<requested, leaving, need, wanted, bumped, confVars, portVars, schedVars,
                 txq_used, threads, th>>

(* Step 5: a queue that moves is first taken from the thread that has it.  *)
Comply ==
  /\ pc = "comply"
  /\ sh' = [t \in Thread |->
              LET keep == {q \in sh[t].poll_list : rxq_pmd[q] = t}
              IN  IF keep = sh[t].poll_list THEN sh[t]
                  ELSE [sh[t] EXCEPT !.poll_list = keep, !.need_reload = TRUE,
                                     !.wait_for_reload = @ \/ (keep = {} /\ t \in Busy)]]
  /\ pc' = "reload3" /\ todo' = {t \in threads : sh'[t].need_reload}
  /\ UNCHANGED <<requested, leaving, need, wanted, bumped, confVars, portVars, schedVars,
                 txq_used, threads, th>>

(* Step 6: each thread gets the queues it should have, and then, if it has *)
(* any, all ports to send to.                                              *)
FillRxqs(t) ==
  /\ pc = "fill"
  /\ LET qs == {q \in RxqOf(ports) : rxq_pmd[q] = t}
         r == [sh[t] EXCEPT !.poll_list = @ \cup qs]
     IN  sh' = [sh EXCEPT ![t] = [r EXCEPT !.need_reload = @ \/ r # sh[t]]]

FillTxPorts(t) ==
  /\ pc = "filltx"
  /\ LET ps == IF sh[t].poll_list # {} \/ t = NonPmd THEN ports ELSE {}
         r == [sh[t] EXCEPT !.tx_ports = @ \cup ps]
     IN  sh' = [sh EXCEPT ![t] = [r EXCEPT !.need_reload = @ \/ r # sh[t]]]

Fill(t) ==
  /\ t \in todo /\ (FillRxqs(t) \/ FillTxPorts(t))
  /\ todo' = todo \ {t}
  /\ UNCHANGED <<pc, requested, leaving, need, wanted, bumped, confVars, portVars, schedVars,
                 txq_used, threads, th>>

FillStart ==
  /\ pc = "add" /\ pc' = "fill" /\ todo' = threads
  /\ UNCHANGED <<requested, leaving, need, wanted, bumped, confVars, portVars, schedVars,
                 txq_used, threads, sh, th>>

FillTxStart ==
  /\ pc = "fill" /\ todo = {} /\ pc' = "filltx" /\ todo' = threads
  /\ UNCHANGED <<requested, leaving, need, wanted, bumped, confVars, portVars, schedVars,
                 txq_used, threads, sh, th>>

FillDone ==
  /\ pc = "filltx" /\ todo = {}
  /\ pc' = "reload4" /\ todo' = NeedReload
  /\ UNCHANGED <<requested, leaving, need, wanted, bumped, confVars, portVars, schedVars,
                 txq_used, threads, sh, th>>

(* Back in do_del_port: port_destroy.                                      *)
Finish ==
  /\ pc = "finish"
  /\ exists' = exists \ {leaving}
  /\ leaving' = NoCore
  /\ pc' = "idle"
  /\ UNCHANGED <<requested, need, wanted, todo, bumped, confVars, ports, n_rxq, n_txq,
                 txq_mode, schedVars, txq_used, threads, sh, th>>

-----------------------------------------------------------------------------
(* pmd_thread_main.                                                        *)

ByThread == UNCHANGED <<mainVars, confVars, portVars, schedVars, threads>>

(* Where the thread goes from the label reload: it polls, or without a     *)
(* queue sleeps on reload_seq, or spins on reload.                         *)
Top(r) == IF r.polled # {} THEN "poll" ELSE IF r.waiting THEN "spin" ELSE "sleep"

Loaded(t) == [th[t] EXCEPT !.polled = sh[t].poll_list, !.sending = sh[t].tx_ports,
                           !.xps = <<>>]

(* The first load, and a tx queue id.                                      *)
Start(t) ==
  /\ th[t].pc = "start"
  /\ th' = [th EXCEPT ![t] = [Loaded(t) EXCEPT !.pc = "first"]]
  /\ ByThread /\ UNCHANGED <<txq_used, sh>>

FirstQid(t) ==
  /\ th[t].pc = "first"
  /\ th' = [th EXCEPT ![t] = [@ EXCEPT !.qid = FreeQid, !.pc = Top(th[t])]]
  /\ ByThread /\ UNCHANGED <<txq_used, sh>>

WakeUp(t) ==
  /\ \/ th[t].pc = "spin" /\ sh[t].reload
     \/ th[t].pc = "sleep" /\ sh[t].seq
  /\ th' = [th EXCEPT ![t].pc = "poll"]
  /\ ByThread /\ UNCHANGED <<txq_used, sh>>

(* A packet goes out on p.  In XPS mode the thread first takes the least   *)
(* used tx queue (dpif_netdev_xps_get_tx_qid).  NonPmd sends too.          *)
TakeTxq(t, p) ==
  /\ th[t].pc \in {"poll", "main"} /\ p \in th[t].sending
  /\ txq_mode[p] = "xps" /\ p \notin DOMAIN th[t].xps
  /\ LET i == CHOOSE i \in 0 .. n_txq[p] - 1 : \A j \in 0 .. n_txq[p] - 1 :
                txq_used[p][i] <= txq_used[p][j] /\ (j < i => txq_used[p][i] < txq_used[p][j])
     IN  /\ txq_used' = [txq_used EXCEPT ![p][i] = @ + 1]
         /\ th' = [th EXCEPT ![t].xps = [o \in DOMAIN @ \cup {p} |-> IF o = p THEN i ELSE @[o]]]
  /\ ByThread /\ UNCHANGED sh

(* Not used for long (XPS_TIMEOUT): given back.                            *)
GiveBackTxq(t, p) ==
  /\ th[t].pc \in {"poll", "main"} /\ p \in DOMAIN th[t].xps
  /\ txq_used' = Purge(t, {p})
  /\ th' = [th EXCEPT ![t].xps = [o \in DOMAIN @ \ {p} |-> @[o]]]
  /\ ByThread /\ UNCHANGED sh

(* Mutant: the tx queues in use are not given back.                        *)
LoadKeepTxq(t) ==
  /\ th[t].pc = "poll" /\ sh[t].reload
  /\ th' = [th EXCEPT ![t] = [Loaded(t) EXCEPT !.pc = "loaded"]]
  /\ ByThread /\ UNCHANGED <<sh, txq_used>>

(* After an iteration that saw reload: pmd_load_queues_and_ports.          *)
Load(t) ==
  /\ th[t].pc = "poll" /\ sh[t].reload
  /\ txq_used' = Purge(t, Port)
  /\ th' = [th EXCEPT ![t] = [Loaded(t) EXCEPT !.pc = "loaded"]]
  /\ ByThread /\ UNCHANGED sh

(* dp_netdev_pmd_reload_done.                                              *)
Done(t) ==
  sh' = [sh EXCEPT ![t].wait_for_reload = FALSE, ![t].reload_tx_qid = FALSE,
                   ![t].seq = FALSE, ![t].reload = FALSE]

(* The flags are read before they are cleared.                             *)
Acknowledge(t) ==
  /\ th[t].pc = "loaded"
  /\ LET r == [th[t] EXCEPT !.waiting = sh[t].wait_for_reload, !.exiting = sh[t].exit,
                            !.rtx = sh[t].reload_tx_qid]
     IN  th' = [th EXCEPT ![t] = [r EXCEPT !.pc = IF r.rtx THEN "freeqid"
                                                  ELSE IF r.exiting THEN "exit" ELSE Top(r)]]
  /\ Done(t)
  /\ ByThread /\ UNCHANGED txq_used

FreeOldQid(t) ==
  /\ th[t].pc = "freeqid"
  /\ th' = [th EXCEPT ![t].qid = NoQid, ![t].pc = "allocqid"]
  /\ ByThread /\ UNCHANGED <<txq_used, sh>>

AllocQid(t) ==
  /\ th[t].pc = "allocqid"
  /\ th' = [th EXCEPT ![t] = [@ EXCEPT !.qid = FreeQid,
                                       !.pc = IF th[t].exiting THEN "exit" ELSE Top(th[t])]]
  /\ ByThread /\ UNCHANGED <<txq_used, sh>>

(* pmd_free_static_tx_qid, pmd_free_cached_ports, and the thread ends.     *)
Exit(t) ==
  /\ th[t].pc = "exit"
  /\ th' = [th EXCEPT ![t] = [NewThread EXCEPT !.pc = "gone"]]
  /\ ByThread /\ UNCHANGED <<txq_used, sh>>

-----------------------------------------------------------------------------
PmdStep(t) == Start(t) \/ FirstQid(t) \/ WakeUp(t) \/ Load(t) \/ Acknowledge(t)
              \/ FreeOldQid(t) \/ AllocQid(t) \/ Exit(t)

Reloading == (\E t \in Thread : BumpSeq(t)) \/ StoreReload \/ ReloadNonPmd
             \/ Await("reload1", "create") \/ Await("reload2", "ports")
             \/ Await("reload3", "add") \/ Await("reload4", "finish")

Steps == CheckThreads \/ (\E t \in Core : DelPmd(t) \/ JoinPmd(t)) \/ DeleteDone
         \/ CreatePmds \/ RemoveStale \/ (\E p \in Port : Reconfigure(p)) \/ ReconfigureDone
         \/ SchedulePinned \/ ScheduleNext \/ PutInPlace
         \/ Comply \/ FillStart \/ (\E t \in Thread : Fill(t)) \/ FillTxStart \/ FillDone
         \/ Finish

MainStep == Run \/ Reloading \/ Steps

Requests == SetCmask \/ \E p \in Port : RequestReconf(p) \/ AddPort(p) \/ DelPort(p)

Next ==
  \/ Requests
  \/ MainStep
  \/ \E t \in Thread : PmdStep(t) \/ \E p \in Port : TakeTxq(t, p) \/ GiveBackTxq(t, p)

Spec == Init /\ [][Next]_vars

(* As long as the main thread or a PMD thread can take a step of a         *)
(* reconfiguration, one of them does: neither blocks other than where the  *)
(* model waits.  Nothing makes requests or packets arrive.                 *)
FairSpec == Spec /\ WF_vars(MainStep \/ \E t \in Core : PmdStep(t))

-----------------------------------------------------------------------------
(* Types; a tx queue is never counted below zero or above the number of    *)
(* threads.                                                                *)
TypeOK ==
  /\ threads \subseteq Thread /\ ports \subseteq exists /\ exists \subseteq Port
  /\ need \subseteq Port /\ todo \subseteq Thread /\ bumped \in Core \cup {NoCore}
  /\ \A t \in Thread : /\ sh[t].poll_list \subseteq Rxq /\ sh[t].tx_ports \subseteq Port
                       /\ th[t].polled \subseteq Rxq /\ th[t].sending \subseteq Port
                       /\ th[t].qid \in NoQid .. Cardinality(Core)
                       /\ DOMAIN th[t].xps \subseteq Port
  /\ \A p \in Port : \A i \in DOMAIN txq_used[p] : txq_used[p][i] \in 0 .. Cardinality(Thread)

(* What a thread may touch at any moment: the queues it polls and the      *)
(* ports it sends to.                                                      *)
Uses(t) == {q[1] : q \in th[t].polled} \cup th[t].sending

(* A step that reconfigures or destroys p: it changes its queues or the    *)
(* sharing of its tx queues, serves its request, or frees it.              *)
Touched(p) ==
  \/ p \in exists \ exists' \/ p \in reconf \ reconf'
  \/ n_rxq'[p] # n_rxq[p] \/ n_txq'[p] # n_txq[p] \/ txq_mode'[p] # txq_mode[p]

(* "a port cannot be reconfigured while it's being used"                   *)
(* (dpif-netdev.c:6437), although netdev_is_reconf_required() "can change  *)
(* at any time" (6410): no thread uses a port that a step reconfigures or  *)
(* destroys, and none ever uses a port that has been destroyed.            *)
UnusedWhenReconfigured ==
  /\ [](\A t \in Thread : Uses(t) \subseteq exists)
  /\ [][\A p \in exists : Touched(p) => \A t \in Thread : p \notin Uses(t)]_vars

(* "otherwise a queue can be polled by two threads at the same time"       *)
(* (dpif-netdev.c:6516).                                                   *)
OnePollerPerRxq ==
  \A t, u \in Core : t # u => th[t].polled \cap th[u].polled = {}

(* In static mode a thread sends on the tx queue of its static_tx_qid, and *)
(* netdev_dpdk_eth_send takes neither the modulo nor the lock: the port    *)
(* has that queue, and no other thread sends on it, also while others are  *)
(* still changing their ids.                                               *)
Sends(t, p) == th[t].pc \in {"poll", "main"} /\ p \in th[t].sending /\ txq_mode[p] = "static"
StaticTxqOwn ==
  \A p \in Port : \A t \in Thread : Sends(t, p) =>
    /\ th[t].qid \in 0 .. n_txq[p] - 1
    /\ \A u \in Thread : t # u /\ Sends(u, p) => th[t].qid # th[u].qid

(* txq_used counts the threads on a tx queue in XPS mode: what is taken is *)
(* given back before the port is reconfigured and the counters are made    *)
(* anew.  The types come first.                                            *)
XpsCounts ==
  /\ TypeOK
  /\ \A p \in Port : \A i \in DOMAIN txq_used[p] :
       p \in exists =>
         txq_used[p][i] = Cardinality({t \in Thread : p \in DOMAIN th[t].xps /\ th[t].xps[p] = i})

(* The schedule.  A queue goes to a core or to none.  It is left out only  *)
(* when every thread is isolated; an isolated thread gets pinned queues    *)
(* only; a queue that is not pinned leaves its NUMA node only when no      *)
(* thread there is free for it.                                            *)
ScheduleSound ==
  /\ rxq_pmd \in [Rxq -> Core \cup {NoCore}]
  /\ pc \in {"comply", "reload3", "add", "fill", "filltx"} =>
       \A q \in RxqOf(ports) :
         LET c == rxq_pmd[q]
             free == Live \ isolated
         IN  IF Pin[q] \in Live THEN c = Pin[q]
             ELSE IF free = {} THEN c = NoCore
             ELSE /\ c \in free
                  /\ (\E d \in free : NumaOf[d] = PortNuma[q[1]]) =>
                        NumaOf[c] = PortNuma[q[1]]

(* The group algorithm balances: taking away any one of the queues it gave *)
(* to a thread would leave that thread no busier than the others of its    *)
(* node.  It holds at every moment because the queues come in order of     *)
(* their cycles.                                                           *)
LoadOn(c) == MapThenSumSet(LAMBDA q : sched.cycles[q],
                           {q \in DOMAIN sched.list.pmd : sched.list.pmd[q] = c})
GroupBalanced ==
  pc = "place" /\ algo = "group" =>
    \A q \in DOMAIN sched.list.pmd \ Pinned(Live, RxqOf(ports)) :
    \A d \in Live \ sched.list.isolated :
      LET c == sched.list.pmd[q]
      IN  c # NoCore /\ sched.cycles[q] > 0 /\ NumaOf[d] = NumaOf[c] =>
            LoadOn(c) - sched.cycles[q] <= LoadOn(d)

(* Every reconfiguration ends: no wake-up is lost between reload_seq and   *)
(* reload, and no thread told to wait for another reload waits in vain.    *)
(* When requests stop, every scheduled queue is polled by its thread.      *)
ScheduledIsPolled ==
  <>[](pc = "idle" /\ \A q \in RxqOf(ports) : rxq_pmd[q] # NoCore =>
         th[rxq_pmd[q]].pc = "poll" /\ q \in th[rxq_pmd[q]].polled)
=============================================================================
