---------------------------- MODULE FlowOffload ----------------------------
(***************************************************************************)
(* Hardware offload of megaflows in dpif-netdev.c.  PMD threads and        *)
(* revalidators add, modify and remove the flows of PMD threads and queue  *)
(* a request for each; offload threads serve the requests with marks, one  *)
(* for a megaflow whichever PMD threads have a flow of it; the main thread *)
(* deletes a port and meets the offload threads at a barrier, twice, so    *)
(* that nothing is offloaded to the port behind the flush.                 *)
(*                                                                         *)
(* netdev-offload (the port map, the flow API of a netdev, the hardware)   *)
(* and the id pool are outside the source.                                 *)
(***************************************************************************)
EXTENDS Integers, FiniteSets, Sequences

CONSTANTS
  Pmd, Mega,      \* PMD threads; megaflows, as mega_ufid names them
  Thread,         \* offload threads
  ThreadOf,       \* netdev_offload_ufid_to_thread_id, of a megaflow
  Port, InPort,   \* ports, and the in_port of a megaflow
  Mark,           \* marks of the pool, MAX_FLOW_MARK of them
  MaxFlows,       \* bound: struct dp_netdev_flow at one time
  MaxQueue        \* bound: requests in a queue, flushes aside

NoMark == 0                 \* INVALID_FLOW_MARK
Ids == 1 .. MaxFlows

ASSUME OffloadAssumption ==
  /\ NoMark \notin Mark /\ IsFiniteSet(Thread) /\ MaxFlows \in Nat /\ MaxQueue \in Nat
  /\ ThreadOf \in [Mega -> Thread] /\ InPort \in [Mega -> Port]

VARIABLES
  flow,           \* the flows, by their place in memory
  queue,          \* dp_offload_threads[tid].queue
  cur,            \* what each offload thread is doing
  byMega,         \* megaflow_to_mark
  pool,           \* flow_mark_pool: the marks that are free
  hw,             \* mark of the rule the hardware has for a megaflow
  polled,         \* ports PMD threads receive from
  mapped,         \* ports netdev_ports_get finds
  api,            \* ports whose netdev has a flow API
  main,           \* [pc, port]: the main thread
  wr              \* whether the main thread has port_rwlock for writing

flowVars == <<flow, queue>>
portVars == <<polled, mapped, api, main, wr>>
vars == <<flow, queue, cur, byMega, pool, hw, polled, mapped, api, main, wr>>

(* mark stands for the membership in mark_to_flow too: both change at once *)
(* in mark_to_flow_associate and mark_to_flow_disassociate.                *)
NoFlow == [used |-> FALSE, pmd |-> 0, mega |-> 0, listed |-> FALSE, dead |-> FALSE,
           mark |-> NoMark, ref |-> 0]
Idle == [pc |-> "idle", flow |-> 0, mark |-> NoMark, mod |-> FALSE]

Init ==
  /\ flow = [i \in Ids |-> NoFlow] /\ queue = [t \in Thread |-> <<>>]
  /\ cur = [t \in Thread |-> Idle]
  /\ byMega = [m \in Mega |-> NoMark] /\ pool = Mark /\ hw = [m \in Mega |-> NoMark]
  /\ polled = {} /\ mapped = {} /\ api = {}
  /\ main = [pc |-> "idle", port |-> 0] /\ wr = FALSE

(* dp_netdev_flow_unref: the last reference frees the flow.                *)
Unref(f) == IF f.ref = 1 THEN NoFlow ELSE [f EXCEPT !.ref = @ - 1]
Ref(f) == [f EXCEPT !.ref = @ + 1]

Queue(i) == ThreadOf[flow[i].mega]

-----------------------------------------------------------------------------
(* PMD threads and revalidators, under the flow_mutex of a PMD thread.     *)

(* dp_netdev_flow_add, with queue_netdev_flow_put: a packet of a port that *)
(* is polled made it.  One reference is the table's, one the request's.    *)
AddFlow(p, m) ==
  /\ InPort[m] \in polled
  /\ \A i \in Ids : ~(flow[i].listed /\ flow[i].pmd = p /\ flow[i].mega = m)
  /\ Len(queue[ThreadOf[m]]) < MaxQueue
  /\ \E i \in Ids :
       /\ ~flow[i].used /\ \A j \in 1 .. i - 1 : flow[j].used
       /\ flow' = [flow EXCEPT ![i] = [NoFlow EXCEPT !.used = TRUE, !.pmd = p, !.mega = m,
                                                     !.listed = TRUE, !.ref = 2]]
       /\ queue' = [queue EXCEPT ![ThreadOf[m]] = Append(@, [op |-> "add", flow |-> i])]
  /\ UNCHANGED <<cur, byMega, pool, hw, portVars>>

(* flow_put_on_pmd on a flow that is there.                                *)
ModFlow(i) ==
  /\ flow[i].listed /\ Len(queue[Queue(i)]) < MaxQueue
  /\ flow' = [flow EXCEPT ![i] = Ref(@)]
  /\ queue' = [queue EXCEPT ![Queue(i)] = Append(@, [op |-> "mod", flow |-> i])]
  /\ UNCHANGED <<cur, byMega, pool, hw, portVars>>

(* dp_netdev_pmd_remove_flow: the request is in the queue before the flow  *)
(* is dead.                                                                *)
RemoveFlow(i) ==
  /\ flow[i].listed /\ Len(queue[Queue(i)]) < MaxQueue
  /\ flow' = [flow EXCEPT ![i] = [Ref(@) EXCEPT !.listed = FALSE]]
  /\ queue' = [queue EXCEPT ![Queue(i)] = Append(@, [op |-> "del", flow |-> i])]
  /\ UNCHANGED <<cur, byMega, pool, hw, portVars>>

SetDead(i) ==
  /\ flow[i].used /\ ~flow[i].listed /\ ~flow[i].dead
  /\ flow' = [flow EXCEPT ![i] = Unref([@ EXCEPT !.dead = TRUE])]
  /\ UNCHANGED <<queue, cur, byMega, pool, hw, portVars>>

-----------------------------------------------------------------------------
(* dp_netdev_flow_offload_main.                                            *)

At(t, step) == cur[t].pc = step
Goto(t, step) == cur' = [cur EXCEPT ![t].pc = step]
Its(t) == flow[cur[t].flow]

(* The next request, if it is one of these, is taken, and what becomes of  *)
(* it next.                                                                *)
Take(t, ops) ==
  /\ At(t, "idle") /\ queue[t] # <<>> /\ Head(queue[t]).op \in ops
  /\ queue' = [queue EXCEPT ![t] = Tail(@)]
Serve(t, step, mark, mod) ==
  cur' = [cur EXCEPT ![t] = [pc |-> step, flow |-> Head(queue[t]).flow, mark |-> mark,
                             mod |-> mod]]

(* Mutant: a removed flow keeps its mark.                                  *)
TakeDelIgnore(t) ==
  /\ Take(t, {"del"}) /\ Serve(t, "done", NoMark, FALSE)
  /\ UNCHANGED <<flow, byMega, pool, hw, portVars>>

TakeDel(t) ==
  /\ Take(t, {"del"}) /\ Serve(t, "dis", NoMark, FALSE)
  /\ UNCHANGED <<flow, byMega, pool, hw, portVars>>

(* Mutant: put back for as long as the port is mapped.                     *)
TakeFlushLater(t) ==
  /\ \/ /\ main.port \notin mapped
        /\ Take(t, {"flush"}) /\ Serve(t, "flush", NoMark, FALSE)
     \/ /\ At(t, "idle") /\ queue[t] # <<>> /\ Head(queue[t]).op = "flush"
        /\ main.port \in mapped
        /\ queue' = [queue EXCEPT ![t] = Append(Tail(@), Head(@))] /\ UNCHANGED cur
  /\ UNCHANGED <<flow, byMega, pool, hw, portVars>>

TakeFlush(t) ==
  /\ Take(t, {"flush"}) /\ Serve(t, "flush", NoMark, FALSE)
  /\ UNCHANGED <<flow, byMega, pool, hw, portVars>>

(* dp_netdev_flow_offload_put up to netdev_ports_get.  A flow that died    *)
(* needs nothing.                                                          *)
PutDead(t) ==
  /\ Take(t, {"add", "mod"}) /\ flow[Head(queue[t]).flow].dead
  /\ Serve(t, "done", NoMark, FALSE)
  /\ UNCHANGED <<flow, byMega, pool, hw, portVars>>

(* A modification of a flow that has a mark.                               *)
PutMod(t) ==
  /\ Take(t, {"mod"})
  /\ LET f == flow[Head(queue[t]).flow]
     IN  /\ ~f.dead /\ f.mark # NoMark
         /\ Serve(t, IF InPort[f.mega] \in mapped THEN "put" ELSE "dis", f.mark, TRUE)
  /\ UNCHANGED <<flow, byMega, pool, hw, portVars>>

IsAddition(o) == ~flow[o.flow].dead /\ (o.op = "mod" => flow[o.flow].mark = NoMark)

(* The megaflow has a mark from another PMD thread: it is shared.          *)
PutShared(t) ==
  /\ Take(t, {"add", "mod"}) /\ IsAddition(Head(queue[t]))
  /\ LET i == Head(queue[t]).flow
     IN  /\ byMega[flow[i].mega] # NoMark
         /\ flow' = IF flow[i].mark # NoMark THEN flow
                    ELSE [flow EXCEPT ![i] = [Ref(@) EXCEPT !.mark = byMega[flow[i].mega]]]
  /\ Serve(t, "done", NoMark, FALSE)
  /\ UNCHANGED <<byMega, pool, hw, portVars>>

(* A new mark; none, or no port, and it fails.                             *)
PutNew(t) ==
  /\ Take(t, {"add", "mod"}) /\ IsAddition(Head(queue[t]))
  /\ LET m == flow[Head(queue[t]).flow].mega
     IN  /\ byMega[m] = NoMark
         /\ IF pool = {} \/ InPort[m] \notin mapped
            THEN Serve(t, "done", NoMark, FALSE) /\ UNCHANGED pool
            ELSE \E k \in pool : pool' = pool \ {k} /\ Serve(t, "put", k, FALSE)
  /\ UNCHANGED <<flow, byMega, hw, portVars>>

(* netdev_flow_put, under port_rwlock, and what follows.                   *)
PutDone(t) ==
  /\ At(t, "put") /\ ~wr /\ InPort[Its(t).mega] \in api
  /\ hw' = [hw EXCEPT ![Its(t).mega] = cur[t].mark]
  /\ IF cur[t].mod THEN UNCHANGED <<flow, byMega>>
     ELSE /\ byMega' = [byMega EXCEPT ![Its(t).mega] = cur[t].mark]
          /\ flow' = [flow EXCEPT ![cur[t].flow] = [Ref(@) EXCEPT !.mark = cur[t].mark]]
  /\ Goto(t, "done")
  /\ UNCHANGED <<queue, pool, portVars>>

(* It fails: the netdev has no flow API, or the hardware refuses.  A rule  *)
(* that was to be changed may be gone or not.                              *)
PutFailed(t) ==
  /\ At(t, "put") /\ ~wr
  /\ IF cur[t].mod THEN \E h \in {hw[Its(t).mega], NoMark} : hw' = [hw EXCEPT ![Its(t).mega] = h]
     ELSE UNCHANGED hw
  /\ pool' = IF cur[t].mod THEN pool ELSE pool \cup {cur[t].mark}
  /\ Goto(t, IF cur[t].mod THEN "dis" ELSE "done")
  /\ UNCHANGED <<flowVars, byMega, portVars>>

(* mark_to_flow_disassociate: nothing for a flow without a mark.           *)
DisNone(t) ==
  /\ At(t, "dis") /\ Its(t).mark = NoMark
  /\ Goto(t, "done")
  /\ UNCHANGED <<flowVars, byMega, pool, hw, portVars>>

(* Other flows have the mark.                                              *)
Shared(t) == \E i \in Ids \ {cur[t].flow} : flow[i].mark = Its(t).mark
DisShared(t) ==
  /\ At(t, "dis") /\ Its(t).mark # NoMark /\ Shared(t)
  /\ flow' = [flow EXCEPT ![cur[t].flow] = Unref([@ EXCEPT !.mark = NoMark])]
  /\ Goto(t, "done")
  /\ UNCHANGED <<queue, byMega, pool, hw, portVars>>

(* Mutant: the mark goes while other flows have it.                        *)
DisLastAny(t) ==
  /\ At(t, "dis") /\ Its(t).mark # NoMark
  /\ flow' = [flow EXCEPT ![cur[t].flow].mark = NoMark]
  /\ cur' = [cur EXCEPT ![t].mark = Its(t).mark,
                        ![t].pc = IF InPort[Its(t).mega] \in mapped THEN "del" ELSE "drop"]
  /\ UNCHANGED <<queue, byMega, pool, hw, portVars>>

(* No other has it: out of the hardware, and the mark is free again.       *)
DisLast(t) ==
  /\ At(t, "dis") /\ Its(t).mark # NoMark /\ ~Shared(t)
  /\ flow' = [flow EXCEPT ![cur[t].flow].mark = NoMark]
  /\ cur' = [cur EXCEPT ![t].mark = Its(t).mark,
                        ![t].pc = IF InPort[Its(t).mega] \in mapped THEN "del" ELSE "drop"]
  /\ UNCHANGED <<queue, byMega, pool, hw, portVars>>

GiveUpMark(t) ==
  /\ pool' = pool \cup {cur[t].mark}
  /\ byMega' = [byMega EXCEPT ![Its(t).mega] = NoMark]
  /\ flow' = [flow EXCEPT ![cur[t].flow] = Unref(@)]
  /\ Goto(t, "done")

HwDel(t) ==
  /\ At(t, "del") /\ ~wr
  /\ hw' = IF InPort[Its(t).mega] \in api THEN [hw EXCEPT ![Its(t).mega] = NoMark] ELSE hw
  /\ GiveUpMark(t)
  /\ UNCHANGED <<queue, portVars>>

(* The port is no longer there.                                            *)
DropMark(t) ==
  /\ At(t, "drop") /\ GiveUpMark(t)
  /\ UNCHANGED <<queue, hw, portVars>>

(* Mutant: the reference of the request stays.                             *)
DoneKeep(t) ==
  /\ At(t, "done")
  /\ flow' = flow
  /\ cur' = [cur EXCEPT ![t] = Idle]
  /\ UNCHANGED <<queue, byMega, pool, hw, portVars>>

(* dp_netdev_free_flow_offload.                                            *)
Done(t) ==
  /\ At(t, "done")
  /\ flow' = [flow EXCEPT ![cur[t].flow] = Unref(@)]
  /\ cur' = [cur EXCEPT ![t] = Idle]
  /\ UNCHANGED <<queue, byMega, pool, hw, portVars>>

(* dp_offload_flush: its own rules of the port, then the barrier.          *)
Flush(t) ==
  /\ At(t, "flush") /\ ~wr
  /\ hw' = [m \in Mega |-> IF InPort[m] = main.port /\ ThreadOf[m] = t THEN NoMark ELSE hw[m]]
  /\ Goto(t, "barrier1")
  /\ UNCHANGED <<flowVars, byMega, pool, portVars>>

-----------------------------------------------------------------------------
(* The main thread.                                                        *)

ByMain == UNCHANGED <<flow, byMega, pool, hw>>
GotoMain(step) == main' = [main EXCEPT !.pc = step]

(* do_add_port; dpif_port_add then maps the port.                          *)
AddPort(p) ==
  /\ main.pc = "idle" /\ p \notin polled \cup mapped
  /\ polled' = polled \cup {p} /\ main' = [pc |-> "map", port |-> p]
  /\ ByMain /\ UNCHANGED <<queue, cur, mapped, api, wr>>

MapPort ==
  /\ main.pc = "map"
  /\ mapped' = mapped \cup {main.port} /\ api' = api \cup {main.port}
  /\ GotoMain("idle")
  /\ ByMain /\ UNCHANGED <<queue, cur, polled, wr>>

(* do_del_port, with port_rwlock, up to the flush.                         *)
DelPort(p) ==
  /\ main.pc = "idle" /\ p \in polled
  /\ polled' = polled \ {p} /\ wr' = TRUE /\ main' = [pc |-> "flush", port |-> p]
  /\ ByMain /\ UNCHANGED <<queue, cur, mapped, api>>

(* dp_netdev_offload_flush.                                                *)
FlushEnqueue ==
  /\ main.pc = "flush"
  /\ wr' = FALSE
  /\ queue' = [t \in Thread |-> Append(queue[t], [op |-> "flush", flow |-> 0])]
  /\ GotoMain("barrier1")
  /\ ByMain /\ UNCHANGED <<cur, polled, mapped, api>>

(* ovs_barrier_block: all are there, all go on.                            *)
Barrier1 ==
  /\ main.pc = "barrier1" /\ \A t \in Thread : At(t, "barrier1")
  /\ cur' = [t \in Thread |-> [cur[t] EXCEPT !.pc = "barrier2"]]
  /\ GotoMain("relock")
  /\ ByMain /\ UNCHANGED <<queue, polled, mapped, api, wr>>

(* Mutant: the lock is not taken back.                                     *)
RelockNot ==
  /\ main.pc = "relock"
  /\ wr' = FALSE /\ GotoMain("barrier2")
  /\ ByMain /\ UNCHANGED <<queue, cur, polled, mapped, api>>

Relock ==
  /\ main.pc = "relock"
  /\ wr' = TRUE /\ GotoMain("barrier2")
  /\ ByMain /\ UNCHANGED <<queue, cur, polled, mapped, api>>

Barrier2 ==
  /\ main.pc = "barrier2" /\ \A t \in Thread : At(t, "barrier2")
  /\ cur' = [t \in Thread |-> Idle]
  /\ GotoMain("uninit")
  /\ ByMain /\ UNCHANGED <<queue, polled, mapped, api, wr>>

(* netdev_uninit_flow_api and port_destroy; dpif_port_del then takes the   *)
(* port out of the map.                                                    *)
Uninit ==
  /\ main.pc = "uninit"
  /\ api' = api \ {main.port} /\ wr' = FALSE /\ GotoMain("unmap")
  /\ ByMain /\ UNCHANGED <<queue, cur, polled, mapped>>

Unmap ==
  /\ main.pc = "unmap"
  /\ mapped' = mapped \ {main.port} /\ GotoMain("idle")
  /\ ByMain /\ UNCHANGED <<queue, cur, polled, api, wr>>

-----------------------------------------------------------------------------
ThreadStep(t) ==
  \/ TakeDel(t) \/ TakeFlush(t) \/ PutDead(t) \/ PutMod(t) \/ PutShared(t) \/ PutNew(t)
  \/ PutDone(t) \/ PutFailed(t)
  \/ DisNone(t) \/ DisShared(t) \/ DisLast(t) \/ HwDel(t) \/ DropMark(t)
  \/ Done(t) \/ Flush(t)

Deletion == FlushEnqueue \/ Barrier1 \/ Relock \/ Barrier2 \/ Uninit \/ Unmap

Next ==
  \/ \E p \in Pmd, m \in Mega : AddFlow(p, m)
  \/ \E i \in Ids : ModFlow(i) \/ RemoveFlow(i) \/ SetDead(i)
  \/ \E t \in Thread : ThreadStep(t)
  \/ \E p \in Port : AddPort(p) \/ DelPort(p)
  \/ MapPort \/ Deletion

Spec == Init /\ [][Next]_vars

(* The threads run.  Nobody is made to add or remove a flow or a port.     *)
FairSpec == /\ Spec /\ WF_vars(Deletion) /\ \A t \in Thread : WF_vars(ThreadStep(t))
            /\ \A i \in Ids : WF_vars(SetDead(i))

-----------------------------------------------------------------------------
(* Types, and the bound on the references of a flow: its table's, its      *)
(* mark's, the creator's, and one for each request of each thread.         *)
TypeOK ==
  /\ \A i \in Ids : /\ flow[i].ref \in 0 .. 3 + Cardinality(Thread) * (MaxQueue + 1)
                    /\ flow[i].mark \in Mark \cup {NoMark}
  /\ byMega \in [Mega -> Mark \cup {NoMark}] /\ hw \in [Mega -> Mark \cup {NoMark}]
  /\ pool \subseteq Mark /\ polled \subseteq Port /\ api \subseteq mapped

(* Who holds flow i: the table until it is dead, its requests, and its     *)
(* mark until it is dropped.                                               *)
Holders(i) ==
  (IF flow[i].used /\ ~flow[i].dead THEN {<<"table", 0, 0>>} ELSE {})
  \cup {h \in {"queue"} \X Thread \X (1 .. MaxQueue + 1) :
          h[3] <= Len(queue[h[2]]) /\ queue[h[2]][h[3]].flow = i}
  \cup {h \in {"cur"} \X Thread \X {0} : cur[h[2]].flow = i}
  \cup (IF flow[i].mark # NoMark \/ \E t \in Thread : cur[t].flow = i /\ cur[t].pc \in {"del", "drop"}
        THEN {<<"mark", 0, 0>>} ELSE {})

(* References are counted exactly: a flow is freed when the last holder is *)
(* done with it and no sooner, and never stays behind.  The types come     *)
(* first.                                                                  *)
RefsExact ==
  /\ TypeOK
  /\ \A i \in Ids : flow[i].ref = Cardinality(Holders(i)) /\ (flow[i].used <=> flow[i].ref > 0)

(* "associate megaflow with a mark, which is a 1:1 mapping"                *)
(* (dpif-netdev.c:2474): a mark is free, or of one megaflow, or in the     *)
(* hands of one thread, and of one only; a flow has the mark of its        *)
(* megaflow, which has one only while some flow does; and a rule in the    *)
(* hardware has the mark of its megaflow.                                  *)
InHand(t) == IF At(t, "put") /\ ~cur[t].mod THEN cur[t].mark ELSE NoMark
MarksOwned ==
  /\ \A k \in Mark :
       Cardinality({m \in Mega : byMega[m] = k}) + Cardinality({t \in Thread : InHand(t) = k})
         + (IF k \in pool THEN 1 ELSE 0) = 1
  /\ \A i \in Ids : flow[i].mark # NoMark => flow[i].mark = byMega[flow[i].mega]
  /\ \A m \in Mega : byMega[m] # NoMark =>
       \/ \E i \in Ids : flow[i].mega = m /\ flow[i].mark # NoMark
       \/ \E t \in Thread : At(t, "del") \/ At(t, "drop")
  /\ \A m \in Mega : hw[m] # NoMark => hw[m] = byMega[m]

(* "The port deletion must complete first, to ensure no further offloads   *)
(* are inserted after the flush" (dpif-netdev.c:3125): a netdev without a  *)
(* flow API has no rules left.                                             *)
GonePortClean == \A m \in Mega : hw[m] # NoMark => InPort[m] \in api

(* A removed flow is freed in the end: its requests are served and its     *)
(* mark is given up, however they and a port's deletion interleave.        *)
DeadFreed == \A i \in Ids : flow[i].dead ~> ~flow[i].dead

(* Deleting a port ends: main thread and offload threads do not wait for   *)
(* each other.                                                             *)
DeletionEnds == main.pc = "flush" ~> main.pc = "idle"
=============================================================================
