-------------------------- MODULE PmdReloadProofs --------------------------
(***************************************************************************)
(* Proofs about PmdReload for every set of cores, ports and masks and      *)
(* every number of requests: no thread uses a port while it is             *)
(* reconfigured, one thread polls a receive queue, a static tx queue has   *)
(* one sender, the tx queues picked are counted exactly, and every         *)
(* schedule of the rx queues is sound and, by group, balanced.  The        *)
(* invariant is stated part by part; each part is proved from those it     *)
(* needs, over the kinds of steps that NextCases and ListCases name.  The  *)
(* invariant of the schedule, SchedInv, stands on its own.                 *)
(***************************************************************************)
EXTENDS PmdReload, FiniteSetTheorems, NaturalsInduction, WellFoundedInduction, TLAPS

-----------------------------------------------------------------------------
(* The values of the variables.                                            *)
ThreadPc == {"none", "start", "first", "poll", "spin", "sleep", "loaded", "freeqid", "allocqid",
             "exit", "gone", "main"}
Reloads == {"reload1", "reload2", "reload3", "reload4"}
MainPc == {"idle", "threads", "delete", "join", "create", "stale", "ports", "schedule", "place",
           "comply", "add", "fill", "filltx", "finish"} \cup Reloads
Txq == 0 .. Cardinality(Core)
SharedType == [need_reload : BOOLEAN, reload : BOOLEAN, seq : BOOLEAN, exit : BOOLEAN,
               wait_for_reload : BOOLEAN, reload_tx_qid : BOOLEAN,
               poll_list : SUBSET Rxq, tx_ports : SUBSET Port]
XpsType == UNION {[d -> Txq] : d \in SUBSET Port}
LocalType == [pc : ThreadPc, polled : SUBSET Rxq, sending : SUBSET Port, xps : XpsType,
              waiting : BOOLEAN, rtx : BOOLEAN, exiting : BOOLEAN, qid : Txq \cup {NoQid}]

Typed ==
  /\ pc \in MainPc
  /\ sh \in [Thread -> SharedType] /\ th \in [Thread -> LocalType]
  /\ threads \in SUBSET Thread /\ NonPmd \in threads
  /\ ports \in SUBSET exists /\ exists \in SUBSET Port /\ need \in SUBSET Port
  /\ leaving \in Port \cup {NoCore}
  /\ todo \in SUBSET threads /\ bumped \in Core \cup {NoCore}
  /\ cmask \in SUBSET Core
  /\ wanted \in 1 .. Cardinality(Thread)
  /\ n_txq \in [Port -> 1 .. Cardinality(Thread)] /\ txq_mode \in [Port -> {"static", "xps"}]
  /\ txq_used \in [Port -> [Txq -> Int]]

(* A core without a thread is blank, and the structure of the main thread  *)
(* polls nothing and is never asked.                                       *)
BlankOf(t) ==
  /\ t \notin threads =>
       /\ ~sh[t].need_reload /\ ~sh[t].reload /\ ~sh[t].exit /\ ~sh[t].reload_tx_qid
       /\ sh[t].poll_list = {} /\ sh[t].tx_ports = {}
       /\ th[t].pc = "none" /\ th[t].polled = {} /\ th[t].sending = {}
       /\ DOMAIN th[t].xps = {} /\ ~th[t].exiting /\ th[t].qid = NoQid
  /\ t = NonPmd <=> th[t].pc = "main"
  /\ t = NonPmd => th[t].polled = {} /\ th[t].qid = 0

Blank == \A t \in Thread : BlankOf(t)

(* The threads still to be signalled or filled, the thread in between the  *)
(* two steps of its signal, and the flags a thread has been given.         *)
Asked ==
  /\ todo # {} => pc \in Reloads \cup {"delete", "join", "fill", "filltx"}
  /\ pc \in Reloads => \A t \in todo : sh[t].need_reload
  /\ pc \in {"delete", "join"} => NonPmd \notin todo
Bumped ==
  bumped # NoCore =>
    /\ bumped \in todo \ {NonPmd} /\ ~sh[bumped].reload
    /\ pc \in Reloads \/ (pc = "join" /\ sh[bumped].exit)
FlagsOf(t) ==
  /\ sh[t].reload =>
       /\ t \in Core /\ t \notin todo
       /\ (pc \in Reloads /\ sh[t].need_reload) \/ (pc = "join" /\ sh[t].exit)
  /\ sh[t].exit => pc = "join" /\ t \in Core /\ (t \in todo => bumped = t)
  /\ th[t].exiting \/ th[t].pc \in {"exit", "gone"} => sh[t].exit
OneExit == \A t, u \in Thread : sh[t].exit /\ sh[u].exit => t = u

Signals == Asked /\ Bumped /\ (\A t \in Thread : FlagsOf(t)) /\ OneExit

(* The copies a thread works with are within its lists, or it has yet to   *)
(* load them (it is asked to reload, and while the main thread waits for   *)
(* that its flag is set or is still to be set).                            *)
Fresh(t) == th[t].polled \subseteq sh[t].poll_list /\ th[t].sending \subseteq sh[t].tx_ports
Pending(t) == sh[t].need_reload /\ (pc \in Reloads => t \in todo \/ sh[t].reload)

HandedOver(t) ==
  /\ Fresh(t) \/ Pending(t)
  /\ th[t].pc = "loaded" => sh[t].reload /\ Fresh(t)
  /\ pc \notin Reloads \cup {"delete", "join", "fill", "filltx"} => ~sh[t].need_reload

Handover == \A t \in Thread : HandedOver(t)

(* A queue is in the lists and copies of one thread; from the schedule on  *)
(* they hold only what it gives that thread.                               *)
Queues(t) == sh[t].poll_list \cup th[t].polled
OwnedBy(t) ==
  /\ pc \in {"reload3", "add", "fill", "filltx", "reload4"} => \A q \in sh[t].poll_list : rxq_pmd[q] = t
  /\ pc \in {"add", "fill", "filltx", "reload4"} => \A q \in th[t].polled : rxq_pmd[q] = t

OneOwner ==
  /\ \A t, u \in Thread : t # u => Queues(t) \cap Queues(u) = {}
  /\ \A t \in Thread : OwnedBy(t)

(* The ports of the lists and copies exist; once the main thread has       *)
(* waited for the lists without them, the ports to be reconfigured are in  *)
(* none, and from then on only ports of the datapath are.                  *)
PortsOf(qs) == {q[1] : q \in qs}
Listed(t) == PortsOf(sh[t].poll_list) \cup sh[t].tx_ports

PortsThere(t) ==
  /\ Listed(t) \cup Uses(t) \subseteq exists
  /\ pc \in {"reload2", "ports"} => Listed(t) \subseteq ports \ need
  /\ pc = "ports" => Uses(t) \subseteq ports \ need
  /\ pc \in {"schedule", "place", "comply", "reload3", "add", "fill", "filltx", "reload4", "finish", "idle"} =>
       Listed(t) \cup Uses(t) \subseteq ports

(* Where the main thread stands and which ports it has yet to do.          *)
Settled ==
  /\ pc \notin {"threads", "delete", "join", "reload1", "create", "stale", "reload2", "ports"} => need = {}
  /\ leaving \notin ports /\ (pc = "idle" => leaving = NoCore)

PortsKept == Settled /\ \A t \in Thread : PortsThere(t)

(* A port's tx queue is counted for the threads that have picked it.  Only *)
(* a thread at work has picked some, for ports it sends to.                *)
On(p, i) == {t \in Thread : p \in DOMAIN th[t].xps /\ th[t].xps[p] = i}
XpsOf(t) ==
  /\ DOMAIN th[t].xps \subseteq th[t].sending
  /\ th[t].pc \notin {"poll", "main"} => DOMAIN th[t].xps = {}
Counted ==
  /\ \A t \in Thread : XpsOf(t)
  /\ \A p \in Port, i \in Txq : txq_used[p][i] = Cardinality(On(p, i))

(* A thread has an id but for the time between giving it back and taking   *)
(* another, and no two have the same.                                      *)
HoldsId(t) == th[t].qid = NoQid <=> th[t].pc \in {"none", "start", "first", "allocqid", "gone"}
Distinct == \A t, u \in Thread : t # u /\ th[t].qid # NoQid => th[t].qid # th[u].qid
OwnIds == (\A t \in Thread : HoldsId(t)) /\ Distinct

(* There are as many threads as wanted, or fewer while threads end.        *)
(* Threads that end are those the mask no longer has; the others are asked *)
(* for another id when there will be fewer.                                *)
Fewer == Cardinality(Wanted) + 1 < wanted
Deleting == {"delete", "join"}
Changed == {"reload1", "create"}
CountFits ==
  /\ Cardinality(threads) <= wanted
  /\ pc \notin Deleting \cup Changed => Cardinality(threads) = wanted
Stays(t) ==
  /\ pc \in Changed => t \in Wanted
  /\ pc \in Deleting => (t \notin Wanted <=> t \in todo \/ sh[t].exit)
Renews(t) ==
  sh[t].reload_tx_qid =>
    /\ Fewer /\ t \in Wanted /\ sh[t].need_reload
    /\ pc \in Deleting \/ (pc = "reload1" /\ (t \in todo \/ sh[t].reload))
ThreadsWanted ==
  /\ CountFits
  /\ \A t \in Thread : (t \in Live => Stays(t)) /\ Renews(t)

(* The id of a thread at work is below the wanted number and, on a static  *)
(* port, below the number of tx queues.  When there will be fewer threads  *)
(* those asked for another id may keep a larger one until they answer.     *)
Steady(t) == th[t].pc \in {"poll", "loaded", "sleep", "spin", "main"}
Unready(t) == th[t].pc \in {"start", "first", "freeqid", "allocqid"}
Sendable(t) == th[t].sending \cup sh[t].tx_ports
Static(p) == txq_mode[p] = "static"

IdFits(t) ==
  Steady(t) => /\ th[t].qid < wanted
               /\ \A p \in Sendable(t) : Static(p) => th[t].qid < n_txq[p]
Renewed(t) ==
  /\ pc \in Deleting /\ Fewer /\ t \in Live \cap Wanted => sh[t].reload_tx_qid
  /\ pc \in Changed /\ Fewer /\ t \in threads /\ Steady(t) =>
       sh[t].reload_tx_qid \/ th[t].qid <= Cardinality(Wanted)
IdsFit == \A t \in Thread : IdFits(t) /\ Renewed(t)

(* A static port that is not to be reconfigured has a tx queue for every   *)
(* thread.  A thread with ports but without an id takes one that fits      *)
(* them, and has them only in the few phases where that can happen.        *)
PortFits(p) == Static(p) => n_txq[p] >= wanted
Enough(t) == pc \notin {"stale", "reload2"} \/ Unready(t) => \A p \in Sendable(t) : PortFits(p)
Excused(t) ==
  Unready(t) /\ Sendable(t) # {} =>
    \/ pc \in Changed /\ Fewer
    \/ pc = "stale" /\ ports \subseteq reconf
    \/ pc = "reload2" /\ sh[t].tx_ports = {} /\ Pending(t)
    \/ pc \in {"fill", "filltx", "reload4"} /\ Pending(t)
TxqsEnough ==
  /\ pc # "stale" => \A p \in ports \ need : PortFits(p)
  /\ \A t \in Thread : Enough(t) /\ Excused(t)
-----------------------------------------------------------------------------
(* What the steps do to the records.                                       *)

Awake == {"poll", "spin", "sleep"}
Others(t) == \A u \in Thread \ {t} : th'[u] = th[u] /\ sh'[u] = sh[u]
SameLocal(t) ==
  /\ th'[t].pc = th[t].pc /\ th'[t].polled = th[t].polled /\ th'[t].sending = th[t].sending
  /\ th'[t].xps = th[t].xps /\ th'[t].exiting = th[t].exiting /\ th'[t].qid = th[t].qid
SameLists(t) == sh'[t].poll_list = sh[t].poll_list /\ sh'[t].tx_ports = sh[t].tx_ports
SameFlags(t) ==
  /\ sh'[t].need_reload = sh[t].need_reload /\ sh'[t].reload = sh[t].reload
  /\ sh'[t].exit = sh[t].exit /\ sh'[t].reload_tx_qid = sh[t].reload_tx_qid

(* The records of a thread that does not exist have their types.           *)
LEMMA BlankTypes ==
  /\ NewShared \in SharedType /\ NewThread \in LocalType
  /\ DOMAIN NewThread.xps = {}
<1>1. <<>> \in [{} -> Txq]
  OBVIOUS
<1>2. <<>> \in XpsType
  BY <1>1 DEF XpsType
<1> QED
  BY <1>2 DEF NewShared, SharedType, NewThread, LocalType, ThreadPc

(* Tx queues picked for some ports stay such under what the threads do.    *)
LEMMA XpsTypes ==
  ASSUME NEW x \in XpsType
  PROVE  /\ x \in [DOMAIN x -> Txq] /\ DOMAIN x \subseteq Port
         /\ \A p \in Port, i \in Txq :
              LET y == [o \in DOMAIN x \cup {p} |-> IF o = p THEN i ELSE x[o]]
              IN  y \in XpsType
         /\ \A p : LET y == [o \in DOMAIN x \ {p} |-> x[o]] IN y \in XpsType
<1>1. x \in [DOMAIN x -> Txq] /\ DOMAIN x \subseteq Port
  BY DEF XpsType
<1>2. ASSUME NEW p \in Port, NEW i \in Txq
      PROVE  [o \in DOMAIN x \cup {p} |-> IF o = p THEN i ELSE x[o]] \in XpsType
  <2>1. [o \in DOMAIN x \cup {p} |-> IF o = p THEN i ELSE x[o]] \in [DOMAIN x \cup {p} -> Txq]
    BY <1>1
  <2> QED
    BY <1>1, <2>1 DEF XpsType
<1>3. ASSUME NEW p
      PROVE  [o \in DOMAIN x \ {p} |-> x[o]] \in XpsType
  <2>1. [o \in DOMAIN x \ {p} |-> x[o]] \in [DOMAIN x \ {p} -> Txq]
    BY <1>1
  <2> QED
    BY <1>1, <2>1 DEF XpsType
<1> QED
  BY <1>1, <1>2, <1>3

(* At the top of its loop a thread is awake.                               *)
LEMMA TopAwake == \A r : Top(r) \in Awake
BY DEF Top, Awake

(* A new thread copies its lists and goes on to take an id.                *)
LEMMA StartEffect ==
  ASSUME Typed, NEW t \in Thread, Start(t)
  PROVE  /\ Others(t) /\ sh' = sh /\ th' \in [Thread -> LocalType]
         /\ th[t].pc = "start" /\ th'[t].pc = "first"
         /\ th'[t].polled = sh[t].poll_list /\ th'[t].sending = sh[t].tx_ports
         /\ DOMAIN th'[t].xps = {} /\ th'[t].exiting = th[t].exiting /\ th'[t].qid = th[t].qid
<1> DEFINE r == [Loaded(t) EXCEPT !.pc = "first"]
<1>1. th[t] \in LocalType /\ sh[t] \in SharedType
  BY DEF Typed
<1>2. Loaded(t) \in LocalType /\ DOMAIN Loaded(t).xps = {}
  BY <1>1, BlankTypes DEF Loaded, LocalType, SharedType, NewThread
<1>3. r \in LocalType /\ r.pc = "first" /\ r.polled = sh[t].poll_list
      /\ r.sending = sh[t].tx_ports /\ r.xps = Loaded(t).xps
      /\ r.exiting = th[t].exiting /\ r.qid = th[t].qid
  BY <1>1, <1>2 DEF Loaded, LocalType, ThreadPc
<1>4. th' = [th EXCEPT ![t] = r] /\ sh' = sh /\ th[t].pc = "start"
  BY DEF Start
<1> HIDE DEF r
<1> QED
  BY <1>2, <1>3, <1>4 DEF Typed, Others

(* A thread asked to reload gives its tx queues back and copies its lists. *)
LEMMA LoadEffect ==
  ASSUME Typed, NEW t \in Thread, Load(t)
  PROVE  /\ Others(t) /\ sh' = sh /\ th' \in [Thread -> LocalType]
         /\ th[t].pc = "poll" /\ sh[t].reload /\ th'[t].pc = "loaded"
         /\ th'[t].polled = sh[t].poll_list /\ th'[t].sending = sh[t].tx_ports
         /\ DOMAIN th'[t].xps = {} /\ th'[t].exiting = th[t].exiting /\ th'[t].qid = th[t].qid
<1> DEFINE r == [Loaded(t) EXCEPT !.pc = "loaded"]
<1>1. th[t] \in LocalType /\ sh[t] \in SharedType
  BY DEF Typed
<1>2. Loaded(t) \in LocalType /\ DOMAIN Loaded(t).xps = {}
  BY <1>1, BlankTypes DEF Loaded, LocalType, SharedType, NewThread
<1>3. r \in LocalType /\ r.pc = "loaded" /\ r.polled = sh[t].poll_list
      /\ r.sending = sh[t].tx_ports /\ r.xps = Loaded(t).xps
      /\ r.exiting = th[t].exiting /\ r.qid = th[t].qid
  BY <1>1, <1>2 DEF Loaded, LocalType, ThreadPc
<1>4. th' = [th EXCEPT ![t] = r] /\ sh' = sh /\ th[t].pc = "poll" /\ sh[t].reload
  BY DEF Load
<1> HIDE DEF r
<1> QED
  BY <1>2, <1>3, <1>4 DEF Typed, Others

(* A thread that waits leaves its wait.                                    *)
LEMMA WakeUpEffect ==
  ASSUME Typed, NEW t \in Thread, WakeUp(t)
  PROVE  /\ Others(t) /\ sh' = sh /\ th' \in [Thread -> LocalType]
         /\ th[t].pc \in {"spin", "sleep"} /\ th'[t].pc = "poll"
         /\ th'[t].polled = th[t].polled /\ th'[t].sending = th[t].sending
         /\ th'[t].xps = th[t].xps /\ th'[t].exiting = th[t].exiting /\ th'[t].qid = th[t].qid
<1>1. th \in [Thread -> LocalType] /\ th[t] \in LocalType
  BY DEF Typed
<1>2. /\ Others(t) /\ sh' = sh /\ th'[t] = [th[t] EXCEPT !.pc = "poll"]
      /\ th[t].pc \in {"spin", "sleep"} /\ th' = [th EXCEPT ![t] = th'[t]]
  BY <1>1 DEF WakeUp, Others
<1>3. /\ th'[t] \in LocalType /\ th'[t].pc = "poll"
      /\ th'[t].polled = th[t].polled /\ th'[t].sending = th[t].sending
      /\ th'[t].xps = th[t].xps /\ th'[t].exiting = th[t].exiting /\ th'[t].qid = th[t].qid
  BY <1>1, <1>2 DEF LocalType, ThreadPc
<1> QED
  BY <1>1, <1>2, <1>3

(* A thread asked for another id gives its own back first.                 *)
LEMMA FreeOldQidEffect ==
  ASSUME Typed, NEW t \in Thread, FreeOldQid(t)
  PROVE  /\ Others(t) /\ sh' = sh /\ th' \in [Thread -> LocalType]
         /\ th[t].pc = "freeqid" /\ th'[t].pc = "allocqid"
         /\ th'[t].polled = th[t].polled /\ th'[t].sending = th[t].sending
         /\ th'[t].xps = th[t].xps /\ th'[t].exiting = th[t].exiting /\ th'[t].qid = NoQid
BY DEF Typed, FreeOldQid, Others, LocalType, ThreadPc

(* A thread that ends gives its id back and drops its copies.              *)
LEMMA ExitEffect ==
  ASSUME Typed, NEW t \in Thread, Exit(t)
  PROVE  /\ Others(t) /\ sh' = sh /\ th' \in [Thread -> LocalType]
         /\ th[t].pc = "exit" /\ th'[t].pc = "gone"
         /\ th'[t].polled = {} /\ th'[t].sending = {}
         /\ DOMAIN th'[t].xps = {} /\ th'[t].exiting = FALSE /\ th'[t].qid = NoQid
<1> DEFINE r == [NewThread EXCEPT !.pc = "gone"]
<1>1. r \in LocalType /\ r.pc = "gone" /\ r.polled = {} /\ r.sending = {} /\ DOMAIN r.xps = {}
      /\ r.exiting = FALSE /\ r.qid = NoQid
  BY BlankTypes DEF NewThread, LocalType, ThreadPc
<1>2. th' = [th EXCEPT ![t] = r] /\ sh' = sh /\ th[t].pc = "exit"
  BY DEF Exit
<1> HIDE DEF r
<1> QED
  BY <1>1, <1>2 DEF Typed, Others

(* A thread answers: it clears the flag and looks at what it was asked.    *)
LEMMA AcknowledgeEffect ==
  ASSUME Typed, NEW t \in Thread, Acknowledge(t)
  PROVE  /\ Others(t) /\ th' \in [Thread -> LocalType] /\ sh' \in [Thread -> SharedType]
         /\ th[t].pc = "loaded"
         /\ IF sh[t].reload_tx_qid THEN th'[t].pc = "freeqid"
            ELSE IF sh[t].exit THEN th'[t].pc = "exit" ELSE th'[t].pc \in Awake
         /\ th'[t].polled = th[t].polled /\ th'[t].sending = th[t].sending
         /\ th'[t].xps = th[t].xps /\ th'[t].exiting = sh[t].exit /\ th'[t].qid = th[t].qid
         /\ sh'[t].reload = FALSE /\ sh'[t].reload_tx_qid = FALSE
         /\ sh'[t].need_reload = sh[t].need_reload /\ sh'[t].exit = sh[t].exit /\ SameLists(t)
<1> DEFINE r == [th[t] EXCEPT !.waiting = sh[t].wait_for_reload, !.exiting = sh[t].exit,
                              !.rtx = sh[t].reload_tx_qid]
           k == IF r.rtx THEN "freeqid" ELSE IF r.exiting THEN "exit" ELSE Top(r)
           s == [r EXCEPT !.pc = k]
<1>1. th[t] \in LocalType /\ sh[t] \in SharedType
  BY DEF Typed
<1>2. sh[t].wait_for_reload \in BOOLEAN /\ sh[t].exit \in BOOLEAN /\ sh[t].reload_tx_qid \in BOOLEAN
  BY <1>1 DEF SharedType
<1>3. r \in LocalType /\ r.rtx = sh[t].reload_tx_qid /\ r.exiting = sh[t].exit
      /\ r.polled = th[t].polled /\ r.sending = th[t].sending /\ r.xps = th[t].xps /\ r.qid = th[t].qid
  BY <1>1, <1>2 DEF LocalType
<1>4. /\ IF sh[t].reload_tx_qid THEN k = "freeqid"
         ELSE IF sh[t].exit THEN k = "exit" ELSE k \in Awake
      /\ k \in ThreadPc
  BY <1>3, TopAwake DEF ThreadPc, Awake
<1>5. th' = [th EXCEPT ![t] = s] /\ th[t].pc = "loaded"
  BY DEF Acknowledge
<1> HIDE DEF r, k
<1>6. s \in LocalType /\ s.pc = k /\ s.polled = r.polled /\ s.sending = r.sending
      /\ s.xps = r.xps /\ s.exiting = r.exiting /\ s.qid = r.qid
  BY <1>3, <1>4 DEF LocalType
<1> HIDE DEF s
<1>7. /\ sh' \in [Thread -> SharedType] /\ \A u \in Thread \ {t} : sh'[u] = sh[u]
      /\ sh'[t].reload = FALSE /\ sh'[t].reload_tx_qid = FALSE
      /\ sh'[t].need_reload = sh[t].need_reload /\ sh'[t].exit = sh[t].exit /\ SameLists(t)
  <2> DEFINE d == [sh[t] EXCEPT !.wait_for_reload = FALSE, !.reload_tx_qid = FALSE,
                                !.seq = FALSE, !.reload = FALSE]
  <2>1. sh' = [sh EXCEPT ![t] = d]
    BY DEF Acknowledge, Done, Typed
  <2>2. /\ d \in SharedType /\ d.reload = FALSE /\ d.reload_tx_qid = FALSE
        /\ d.need_reload = sh[t].need_reload /\ d.exit = sh[t].exit
        /\ d.poll_list = sh[t].poll_list /\ d.tx_ports = sh[t].tx_ports
    BY <1>1 DEF SharedType
  <2> HIDE DEF d
  <2> QED
    BY <2>1, <2>2 DEF Typed, SameLists
<1>8. /\ th' \in [Thread -> LocalType] /\ \A u \in Thread \ {t} : th'[u] = th[u]
      /\ th'[t] = s
  BY <1>5, <1>6 DEF Typed
<1> QED
  BY <1>3, <1>4, <1>5, <1>6, <1>7, <1>8 DEF Others

-----------------------------------------------------------------------------
(* Numbers: the least of a set, the ids of tx queues, the least used queue.*)

(* A set of naturals that is not empty has a least member.                 *)
LEMMA LeastOf ==
  ASSUME NEW T \in SUBSET Nat, T # {}
  PROVE  \E x \in T : \A y \in T : x <= y
<1> DEFINE less == OpToRel(<, Nat)
<1>1. IsWellFoundedOn(less, Nat)
  BY NatLessThanWellFounded
<1>2. \A x, y \in Nat : y < x => <<y, x>> \in less
  BY DEF OpToRel
<1> HIDE DEF less
<1>3. PICK x \in T : \A y \in T : ~ (<<y, x>> \in less)
  BY <1>1, WFMin
<1>4. ASSUME NEW y \in T
      PROVE  x <= y
  <2>1. x \in Nat /\ y \in Nat /\ ~(y < x)
    BY <1>2, <1>3
  <2> QED
    BY <2>1
<1> QED
  BY <1>4

(* There is one thread more than cores.                                    *)
LEMMA ThreadCount ==
  /\ IsFiniteSet(Thread) /\ Cardinality(Thread) = Cardinality(Core) + 1
  /\ IsFiniteSet(Core) /\ Cardinality(Core) \in Nat
BY CoreAssumption, ReloadAssumption, FS_AddElement, FS_CardinalityType DEF Thread

(* A free id is one no thread holds, and at most the number of threads     *)
(* that hold one.                                                          *)
LEMMA FreeQidSound ==
  ASSUME Typed, NEW H \in SUBSET Thread, \A u \in Thread \ H : th[u].qid = NoQid, H # Thread
  PROVE  /\ FreeQid \in 0 .. Cardinality(H) /\ FreeQid \in Txq
         /\ \A u \in Thread : th[u].qid # FreeQid
<1>1. IsFiniteSet(H) /\ Cardinality(H) \in Nat /\ Cardinality(H) <= Cardinality(Core)
  <2>1. PICK v \in Thread : v \notin H
    OBVIOUS
  <2>2. IsFiniteSet(H) /\ Cardinality(H) \in Nat
    BY ThreadCount, FS_Subset, FS_CardinalityType
  <2>3. Cardinality(H \cup {v}) = Cardinality(H) + 1 /\ H \cup {v} \in SUBSET Thread
    BY <2>1, <2>2, FS_AddElement
  <2>4. Cardinality(H \cup {v}) <= Cardinality(Thread)
    BY <2>3, ThreadCount, FS_Subset
  <2> QED
    BY <2>2, <2>3, <2>4, ThreadCount
<1> DEFINE n == Cardinality(H)
           R == {th[u].qid : u \in H}
           f == [u \in H |-> th[u].qid]
<1>2. IsFiniteSet(R) /\ Cardinality(R) <= n
  <2>1. f \in Surjection(H, R)
    BY DEF Surjection
  <2> QED
    BY <1>1, <2>1, FS_Surjection
<1>3. \E i \in 0 .. n : i \notin R
  <2>1. SUFFICES ASSUME 0 .. n \subseteq R
                 PROVE  FALSE
    OBVIOUS
  <2>2. Cardinality(0 .. n) = n + 1
    BY <1>1, FS_Interval
  <2>3. Cardinality(0 .. n) <= Cardinality(R)
    BY <1>2, <2>1, FS_Subset
  <2>4. Cardinality(R) \in Nat
    BY <1>2, FS_CardinalityType
  <2> QED
    BY <1>1, <1>2, <2>2, <2>3, <2>4
<1> DEFINE F == {i \in 0 .. n : \A u \in Thread : th[u].qid # i}
<1>4. F \in SUBSET Nat /\ F # {}
  BY <1>1, <1>3 DEF NoQid
<1>5. PICK k \in F : \A j \in F : k <= j
  BY <1>4, LeastOf
<1> DEFINE P(i) == /\ \A t \in Thread : th[t].qid # i
                   /\ \A j \in 0 .. i - 1 : \E t \in Thread : th[t].qid = j
<1>6. k \in 0 .. Cardinality(Thread) /\ P(k)
  <2>1. k \in 0 .. n /\ n \in Nat /\ n <= Cardinality(Core)
    BY <1>1
  <2>2. ASSUME NEW j \in 0 .. k - 1
        PROVE  \E t \in Thread : th[t].qid = j
    <3>1. j \in 0 .. n /\ ~(k <= j)
      BY <2>1
    <3>2. j \notin F
      BY <3>1, <1>5
    <3> QED
      BY <3>1, <3>2
  <2> QED
    BY <2>1, <2>2, ThreadCount
<1>7. FreeQid \in 0 .. Cardinality(Thread) /\ P(FreeQid)
  <2>1. FreeQid = CHOOSE i \in 0 .. Cardinality(Thread) : P(i)
    BY DEF FreeQid
  <2> HIDE DEF P
  <2> QED
    BY <1>6, <2>1
<1>8. ~(k < FreeQid)
  <2>1. SUFFICES ASSUME k < FreeQid
                 PROVE  FALSE
    OBVIOUS
  <2>2. k \in 0 .. FreeQid - 1
    BY <1>6, <1>7, <2>1, ThreadCount
  <2> QED
    BY <1>6, <1>7, <2>2
<1> QED
  BY <1>1, <1>5, <1>7, <1>8, ThreadCount DEF Txq

(* The first id of a thread is the least free one.                         *)
LEMMA FirstQidEffect ==
  ASSUME Typed, NEW t \in Thread, FirstQid(t), FreeQid \in Txq
  PROVE  /\ Others(t) /\ sh' = sh /\ th' \in [Thread -> LocalType]
         /\ th[t].pc = "first" /\ th'[t].pc \in Awake
         /\ th'[t].polled = th[t].polled /\ th'[t].sending = th[t].sending
         /\ th'[t].xps = th[t].xps /\ th'[t].exiting = th[t].exiting /\ th'[t].qid = FreeQid
<1> DEFINE k == Top(th[t])
           r == [th[t] EXCEPT !.qid = FreeQid, !.pc = k]
<1>1. k \in Awake /\ k \in ThreadPc
  BY TopAwake DEF Awake, ThreadPc
<1>2. th' = [th EXCEPT ![t] = r] /\ sh' = sh /\ th[t].pc = "first"
  BY DEF FirstQid, Typed
<1> HIDE DEF k
<1>3. /\ r \in LocalType /\ r.pc = k /\ r.polled = th[t].polled /\ r.sending = th[t].sending
      /\ r.xps = th[t].xps /\ r.exiting = th[t].exiting /\ r.qid = FreeQid
  BY <1>1 DEF Typed, LocalType
<1> HIDE DEF r
<1> QED
  BY <1>1, <1>2, <1>3 DEF Typed, Others

(* So is the one it takes in place of another.                             *)
LEMMA AllocQidEffect ==
  ASSUME Typed, NEW t \in Thread, AllocQid(t), FreeQid \in Txq
  PROVE  /\ Others(t) /\ sh' = sh /\ th' \in [Thread -> LocalType]
         /\ th[t].pc = "allocqid"
         /\ IF th[t].exiting THEN th'[t].pc = "exit" ELSE th'[t].pc \in Awake
         /\ th'[t].polled = th[t].polled /\ th'[t].sending = th[t].sending
         /\ th'[t].xps = th[t].xps /\ th'[t].exiting = th[t].exiting /\ th'[t].qid = FreeQid
<1> DEFINE k == IF th[t].exiting THEN "exit" ELSE Top(th[t])
           r == [th[t] EXCEPT !.qid = FreeQid, !.pc = k]
<1>1. (IF th[t].exiting THEN k = "exit" ELSE k \in Awake) /\ k \in ThreadPc
  BY TopAwake DEF Awake, ThreadPc
<1>2. th' = [th EXCEPT ![t] = r] /\ sh' = sh /\ th[t].pc = "allocqid"
  BY DEF AllocQid, Typed
<1> HIDE DEF k
<1>3. /\ r \in LocalType /\ r.pc = k /\ r.polled = th[t].polled /\ r.sending = th[t].sending
      /\ r.xps = th[t].xps /\ r.exiting = th[t].exiting /\ r.qid = FreeQid
  BY <1>1 DEF Typed, LocalType
<1> HIDE DEF r
<1> QED
  BY <1>1, <1>2, <1>3 DEF Typed, Others

(* The least used of a port's tx queues.                                   *)
LEMMA LeastUsed ==
  ASSUME NEW n \in Nat \ {0}, NEW f, \A j \in 0 .. n - 1 : f[j] \in Nat
  PROVE  \E i \in 0 .. n - 1 :
           \A j \in 0 .. n - 1 : f[i] <= f[j] /\ (j < i => f[i] < f[j])
<1> DEFINE V == {f[j] : j \in 0 .. n - 1}
<1>1. V \in SUBSET Nat /\ V # {}
  <2>1. 0 \in 0 .. n - 1
    OBVIOUS
  <2> QED
    BY <2>1
<1>2. PICK v \in V : \A w \in V : v <= w
  BY <1>1, LeastOf
<1> DEFINE I == {j \in 0 .. n - 1 : f[j] = v}
<1>3. I \in SUBSET Nat /\ I # {}
  BY <1>2
<1>4. PICK i \in I : \A j \in I : i <= j
  BY <1>3, LeastOf
<1>5. i \in 0 .. n - 1 /\ f[i] = v
  BY <1>4
<1>6. ASSUME NEW j \in 0 .. n - 1
      PROVE  f[i] <= f[j] /\ (j < i => f[i] < f[j])
  <2>1. f[j] \in V /\ f[j] \in Nat /\ v \in Nat /\ v <= f[j]
    BY <1>1, <1>2
  <2>2. j < i => j \notin I
    BY <1>4, <1>5
  <2>3. j < i => f[j] # v
    BY <2>2
  <2> QED
    BY <1>5, <2>1, <2>3
<1> QED
  BY <1>5, <1>6

(* A thread whose tx queues alone change.                                  *)
LEMMA XpsSet ==
  ASSUME Typed, NEW t \in Thread, NEW y \in XpsType, th' = [th EXCEPT ![t].xps = y]
  PROVE  /\ th' \in [Thread -> LocalType] /\ \A u \in Thread \ {t} : th'[u] = th[u]
         /\ th'[t].xps = y /\ th'[t].pc = th[t].pc
         /\ th'[t].polled = th[t].polled /\ th'[t].sending = th[t].sending
         /\ th'[t].exiting = th[t].exiting /\ th'[t].qid = th[t].qid
<1>1. th \in [Thread -> LocalType] /\ th[t] \in LocalType
  BY DEF Typed
<1> DEFINE l == [th[t] EXCEPT !.xps = y]
<1>2. /\ l \in LocalType /\ l.xps = y /\ l.pc = th[t].pc /\ l.polled = th[t].polled
      /\ l.sending = th[t].sending /\ l.exiting = th[t].exiting /\ l.qid = th[t].qid
  BY <1>1 DEF LocalType
<1>3. th' = [th EXCEPT ![t] = l]
  OBVIOUS
<1> HIDE DEF l
<1> QED
  BY <1>1, <1>2, <1>3

(* A thread picks a tx queue that the fewest threads use.                  *)
LEMMA TakeTxqEffect ==
  ASSUME Typed, NEW t \in Thread, NEW p \in Port, TakeTxq(t, p),
         \A i \in Txq : txq_used[p][i] \in Nat
  PROVE  \E i \in Txq :
         /\ txq_used' = [txq_used EXCEPT ![p][i] = @ + 1]
         /\ Others(t) /\ sh' = sh /\ th' \in [Thread -> LocalType]
         /\ th[t].pc \in {"poll", "main"} /\ p \in th[t].sending /\ p \notin DOMAIN th[t].xps
         /\ DOMAIN th'[t].xps = DOMAIN th[t].xps \cup {p} /\ th'[t].xps[p] = i
         /\ \A o \in DOMAIN th[t].xps : th'[t].xps[o] = th[t].xps[o]
         /\ th'[t].pc = th[t].pc
         /\ th'[t].polled = th[t].polled /\ th'[t].sending = th[t].sending
         /\ th'[t].exiting = th[t].exiting /\ th'[t].qid = th[t].qid
<1> DEFINE n == n_txq[p]
           Q(i) == \A j \in 0 .. n - 1 :
                     txq_used[p][i] <= txq_used[p][j] /\ (j < i => txq_used[p][i] < txq_used[p][j])
           i == CHOOSE i \in 0 .. n - 1 : Q(i)
<1>1. n \in Nat \ {0} /\ 0 .. n - 1 \subseteq Txq
  BY ThreadCount DEF Typed, Txq
<1>2. \E k \in 0 .. n - 1 : Q(k)
  BY <1>1, LeastUsed
<1>3. i \in 0 .. n - 1
  <2> HIDE DEF Q
  <2> QED
    BY <1>2
<1>4. i \in Txq
  BY <1>1, <1>3
<1> DEFINE x == th[t].xps
           y == [o \in DOMAIN x \cup {p} |-> IF o = p THEN i ELSE x[o]]
<1>5. /\ th[t].pc \in {"poll", "main"} /\ p \in th[t].sending /\ p \notin DOMAIN x /\ sh' = sh
      /\ txq_used' = [txq_used EXCEPT ![p][i] = @ + 1]
      /\ th' = [th EXCEPT ![t].xps = y]
  BY DEF TakeTxq
<1> HIDE DEF i
<1>6. x \in XpsType
  BY DEF Typed, LocalType
<1>7. y \in XpsType /\ DOMAIN y = DOMAIN x \cup {p} /\ y[p] = i
  BY <1>4, <1>6, XpsTypes
<1>8. \A o \in DOMAIN x : y[o] = x[o]
  BY <1>5
<1> HIDE DEF x, y
<1>9. /\ th' \in [Thread -> LocalType] /\ \A u \in Thread \ {t} : th'[u] = th[u]
      /\ th'[t].xps = y /\ th'[t].pc = th[t].pc
      /\ th'[t].polled = th[t].polled /\ th'[t].sending = th[t].sending
      /\ th'[t].exiting = th[t].exiting /\ th'[t].qid = th[t].qid
  BY <1>5, <1>7, XpsSet
<1>10. /\ Others(t) /\ sh' = sh /\ p \notin DOMAIN th[t].xps
       /\ DOMAIN th'[t].xps = DOMAIN th[t].xps \cup {p} /\ th'[t].xps[p] = i
       /\ \A o \in DOMAIN th[t].xps : th'[t].xps[o] = th[t].xps[o]
  BY <1>5, <1>7, <1>8, <1>9 DEF Others, x
<1> QED
  BY <1>4, <1>5, <1>9, <1>10

(* A thread gives a tx queue back that it has not used for a while.        *)
LEMMA GiveBackTxqEffect ==
  ASSUME Typed, NEW t \in Thread, NEW p \in Port, GiveBackTxq(t, p)
  PROVE  /\ Others(t) /\ sh' = sh /\ th' \in [Thread -> LocalType]
         /\ th[t].pc \in {"poll", "main"} /\ p \in DOMAIN th[t].xps
         /\ DOMAIN th'[t].xps = DOMAIN th[t].xps \ {p}
         /\ \A o \in DOMAIN th'[t].xps : th'[t].xps[o] = th[t].xps[o]
         /\ th'[t].pc = th[t].pc
         /\ th'[t].polled = th[t].polled /\ th'[t].sending = th[t].sending
         /\ th'[t].exiting = th[t].exiting /\ th'[t].qid = th[t].qid
<1> DEFINE x == th[t].xps
           y == [o \in DOMAIN x \ {p} |-> x[o]]
<1>1. /\ th[t].pc \in {"poll", "main"} /\ p \in DOMAIN x /\ sh' = sh
      /\ th' = [th EXCEPT ![t].xps = y]
  BY DEF GiveBackTxq
<1>2. x \in XpsType
  BY DEF Typed, LocalType
<1>3. y \in XpsType /\ DOMAIN y = DOMAIN x \ {p} /\ \A o \in DOMAIN y : y[o] = x[o]
  BY <1>2, XpsTypes
<1> HIDE DEF x, y
<1>4. /\ th' \in [Thread -> LocalType] /\ \A u \in Thread \ {t} : th'[u] = th[u]
      /\ th'[t].xps = y /\ th'[t].pc = th[t].pc
      /\ th'[t].polled = th[t].polled /\ th'[t].sending = th[t].sending
      /\ th'[t].exiting = th[t].exiting /\ th'[t].qid = th[t].qid
  BY <1>1, <1>3, XpsSet
<1> QED
  BY <1>1, <1>3, <1>4 DEF Others, x

-----------------------------------------------------------------------------
(* What the steps of the main thread do to the records.                    *)

(* The main thread wakes a thread up before it sets the flag.              *)
LEMMA BumpSeqEffect ==
  ASSUME Typed, NEW t \in Thread, BumpSeq(t)
  PROVE  /\ sh' \in [Thread -> SharedType] /\ th' = th
         /\ \A u \in Thread : SameLists(u) /\ SameFlags(u)
<1>1. sh \in [Thread -> SharedType] /\ th' = th
  BY DEF Typed, BumpSeq
<1>2. sh' \in [Thread -> SharedType]
  BY <1>1 DEF BumpSeq, SharedType
<1>3. ASSUME NEW u \in Thread
      PROVE  SameLists(u) /\ SameFlags(u)
  BY <1>1 DEF BumpSeq, SharedType, SameLists, SameFlags
<1> QED
  BY <1>1, <1>2, <1>3

(* It sets the flag of the thread it has woken up.                         *)
LEMMA StoreReloadEffect ==
  ASSUME Typed, StoreReload
  PROVE  /\ sh' \in [Thread -> SharedType] /\ th' = th /\ bumped \in Core
         /\ \A u \in Thread :
              /\ SameLists(u) /\ sh'[u].need_reload = sh[u].need_reload /\ sh'[u].exit = sh[u].exit
              /\ sh'[u].reload_tx_qid = sh[u].reload_tx_qid
              /\ sh'[u].reload = (u = bumped \/ sh[u].reload)
<1>1. bumped \in Core /\ bumped \in Thread /\ th' = th
  BY DEF Typed, StoreReload, Thread
<1>2. sh' = [sh EXCEPT ![bumped].reload = TRUE] /\ sh \in [Thread -> SharedType]
  BY DEF StoreReload, Typed
<1> QED
  BY <1>1, <1>2 DEF SharedType, SameLists

(* It reloads its own lists at once.                                       *)
LEMMA ReloadNonPmdEffect ==
  ASSUME Typed, ReloadNonPmd
  PROVE  /\ sh' = sh /\ th' \in [Thread -> LocalType]
         /\ \A u \in Thread \ {NonPmd} : th'[u] = th[u]
         /\ NonPmd \in Thread /\ th'[NonPmd].pc = th[NonPmd].pc
         /\ th'[NonPmd].polled = th[NonPmd].polled
         /\ th'[NonPmd].sending = sh[NonPmd].tx_ports
         /\ DOMAIN th'[NonPmd].xps = {}
         /\ th'[NonPmd].exiting = th[NonPmd].exiting /\ th'[NonPmd].qid = th[NonPmd].qid
<1> DEFINE x == NewThread.xps
<1>1. NonPmd \in Thread /\ x \in XpsType /\ DOMAIN x = {} /\ x = <<>>
  BY BlankTypes DEF Thread, NewThread, LocalType
<1>2. sh' = sh /\ th' = [th EXCEPT ![NonPmd].sending = sh[NonPmd].tx_ports, ![NonPmd].xps = x]
  BY <1>1 DEF ReloadNonPmd
<1>3. sh[NonPmd].tx_ports \in SUBSET Port
  BY <1>1 DEF Typed, SharedType
<1> HIDE DEF x
<1> DEFINE r == [th[NonPmd] EXCEPT !.sending = sh[NonPmd].tx_ports, !.xps = x]
<1>4. th' = [th EXCEPT ![NonPmd] = r]
  BY <1>1, <1>2 DEF Typed
<1>5. r \in LocalType /\ r.sending = sh[NonPmd].tx_ports /\ r.xps = x
      /\ r.pc = th[NonPmd].pc /\ r.polled = th[NonPmd].polled
      /\ r.exiting = th[NonPmd].exiting /\ r.qid = th[NonPmd].qid
  BY <1>1, <1>3 DEF Typed, LocalType
<1> HIDE DEF r
<1>6. th \in [Thread -> LocalType]
  BY DEF Typed
<1>7. /\ th' \in [Thread -> LocalType] /\ th'[NonPmd] = r
      /\ \A u \in Thread \ {NonPmd} : th'[u] = th[u]
  BY <1>1, <1>4, <1>5, <1>6
<1> QED
  BY <1>1, <1>2, <1>5, <1>7

(* When all have answered nobody needs a reload.                           *)
LEMMA AwaitEffect ==
  ASSUME Typed, NEW r, NEW k, Await(r, k)
  PROVE  /\ sh' \in [Thread -> SharedType] /\ th' = th
         /\ \A u \in Thread :
              /\ SameLists(u) /\ sh'[u].need_reload = FALSE /\ sh'[u].exit = sh[u].exit
              /\ sh'[u].reload_tx_qid = sh[u].reload_tx_qid
              /\ sh'[u].reload = sh[u].reload
<1>1. sh \in [Thread -> SharedType] /\ th' = th
  BY DEF Typed, Await
<1>2. sh' \in [Thread -> SharedType]
  BY <1>1 DEF Await, SharedType
<1>3. ASSUME NEW u \in Thread
      PROVE  /\ SameLists(u) /\ sh'[u].need_reload = FALSE /\ sh'[u].exit = sh[u].exit
             /\ sh'[u].reload_tx_qid = sh[u].reload_tx_qid /\ sh'[u].reload = sh[u].reload
  BY <1>1 DEF Await, SharedType, SameLists
<1> QED
  BY <1>1, <1>2, <1>3

(* It asks the threads that stay for another id if there will be fewer.    *)
LEMMA CheckThreadsEffect ==
  ASSUME Typed, CheckThreads
  PROVE  /\ sh' \in [Thread -> SharedType] /\ th' = th
         /\ \A u \in Thread :
              LET asked == u \in Live \cap Wanted /\ Adjust IN
              /\ SameLists(u) /\ sh'[u].exit = sh[u].exit /\ sh'[u].reload = sh[u].reload
              /\ sh'[u].need_reload = (asked \/ sh[u].need_reload)
              /\ sh'[u].reload_tx_qid = (asked \/ sh[u].reload_tx_qid)
<1> HIDE DEF Live, Wanted, Adjust
<1>1. th' = th
  BY DEF CheckThreads
<1> DEFINE f == [u \in Thread |-> [sh[u] EXCEPT !.reload_tx_qid = TRUE, !.need_reload = TRUE]]
<1>2. \A u \in Thread :
        /\ f[u] \in SharedType /\ f[u].reload_tx_qid = TRUE /\ f[u].need_reload = TRUE
        /\ f[u].exit = sh[u].exit /\ f[u].reload = sh[u].reload
        /\ f[u].poll_list = sh[u].poll_list /\ f[u].tx_ports = sh[u].tx_ports
  BY DEF Typed, SharedType
<1>3. sh' = [u \in Thread |-> IF u \in Live \cap Wanted /\ Adjust THEN f[u] ELSE sh[u]]
  BY DEF CheckThreads
<1> HIDE DEF f
<1>4. sh' \in [Thread -> SharedType]
  BY <1>2, <1>3 DEF Typed
<1>5. ASSUME NEW u \in Thread
      PROVE  LET asked == u \in Live \cap Wanted /\ Adjust IN
              /\ SameLists(u) /\ sh'[u].exit = sh[u].exit /\ sh'[u].reload = sh[u].reload
              /\ sh'[u].need_reload = (asked \/ sh[u].need_reload)
              /\ sh'[u].reload_tx_qid = (asked \/ sh[u].reload_tx_qid)
  <2>1. sh[u].need_reload \in BOOLEAN /\ sh[u].reload_tx_qid \in BOOLEAN
    BY DEF Typed, SharedType
  <2>2. CASE u \in Live \cap Wanted /\ Adjust
    BY <1>2, <1>3, <2>1, <2>2 DEF SameLists
  <2>3. CASE ~(u \in Live \cap Wanted /\ Adjust)
    BY <1>3, <2>1, <2>3 DEF SameLists
  <2> QED
    BY <2>2, <2>3
<1> QED
  BY <1>1, <1>4, <1>5

(* It asks a thread to end.                                                *)
LEMMA DelPmdEffect ==
  ASSUME Typed, NEW t \in Thread, DelPmd(t)
  PROVE  /\ sh' \in [Thread -> SharedType] /\ th' = th
         /\ \A u \in Thread :
              /\ SameLists(u) /\ sh'[u].need_reload = sh[u].need_reload
              /\ sh'[u].exit = (u = t \/ sh[u].exit)
              /\ sh'[u].reload_tx_qid = sh[u].reload_tx_qid /\ sh'[u].reload = sh[u].reload
<1>1. sh \in [Thread -> SharedType] /\ th' = th
  BY DEF Typed, DelPmd
<1>2. sh' \in [Thread -> SharedType]
  <2>1. \A r \in SharedType : [r EXCEPT !.exit = TRUE, !.seq = TRUE] \in SharedType
    BY DEF SharedType
  <2>2. sh' = [sh EXCEPT ![t] = [@ EXCEPT !.exit = TRUE, !.seq = TRUE]]
    BY <1>1 DEF DelPmd
  <2> HIDE DEF SharedType
  <2> QED
    BY <1>1, <2>1, <2>2
<1>3. ASSUME NEW u \in Thread
      PROVE  /\ SameLists(u) /\ sh'[u].need_reload = sh[u].need_reload
             /\ sh'[u].exit = (u = t \/ sh[u].exit)
             /\ sh'[u].reload_tx_qid = sh[u].reload_tx_qid /\ sh'[u].reload = sh[u].reload
  BY <1>1 DEF DelPmd, SharedType, SameLists
<1> QED
  BY <1>1, <1>2, <1>3

(* It waits for the end of the thread and destroys its records.            *)
LEMMA JoinPmdEffect ==
  ASSUME Typed, NEW t \in Thread, JoinPmd(t)
  PROVE  /\ sh' \in [Thread -> SharedType] /\ th' \in [Thread -> LocalType] /\ Others(t)
         /\ ~sh'[t].need_reload /\ ~sh'[t].reload /\ ~sh'[t].exit /\ ~sh'[t].reload_tx_qid
         /\ sh'[t].poll_list = {} /\ sh'[t].tx_ports = {}
         /\ th'[t].pc = "none" /\ th'[t].polled = {} /\ th'[t].sending = {}
         /\ DOMAIN th'[t].xps = {} /\ ~th'[t].exiting /\ th'[t].qid = NoQid
<1>1. /\ sh' \in [Thread -> SharedType] /\ th' \in [Thread -> LocalType] /\ Others(t)
      /\ sh'[t] = NewShared /\ th'[t] = NewThread
  BY BlankTypes DEF Typed, JoinPmd, Others
<1> QED
  BY <1>1, BlankTypes DEF NewShared, NewThread

(* It creates the threads that are wanted and do not exist.                *)
LEMMA CreatePmdsEffect ==
  ASSUME Typed, CreatePmds
  PROVE  /\ sh' = sh /\ th' \in [Thread -> LocalType]
         /\ \A u \in Thread : u \notin Wanted \ threads => th'[u] = th[u]
         /\ \A u \in Thread : u \in Wanted \ threads =>
              /\ th'[u].pc = "start" /\ th'[u].polled = {} /\ th'[u].sending = {}
              /\ DOMAIN th'[u].xps = {} /\ th'[u].exiting = FALSE /\ th'[u].qid = NoQid
<1> DEFINE r == [NewThread EXCEPT !.pc = "start"]
<1>1. r \in LocalType /\ r.pc = "start" /\ r.polled = {} /\ r.sending = {} /\ DOMAIN r.xps = {}
      /\ r.exiting = FALSE /\ r.qid = NoQid
  BY BlankTypes DEF NewThread, LocalType, ThreadPc
<1>2. th' = [u \in Thread |-> IF u \in Wanted \ threads THEN r ELSE th[u]] /\ sh' = sh
  BY DEF CreatePmds
<1> HIDE DEF r
<1> QED
  BY <1>1, <1>2 DEF Typed

(* Queues and ports are taken out of a thread's lists.                     *)
LEMMA WithoutEffect ==
  ASSUME NEW s \in SharedType, NEW ps
  PROVE  LET w == Without(s, ps) IN
         /\ w \in SharedType
         /\ w.poll_list = {q \in s.poll_list : q[1] \notin ps} /\ w.tx_ports = s.tx_ports \ ps
         /\ w.exit = s.exit /\ w.reload = s.reload /\ w.reload_tx_qid = s.reload_tx_qid
         /\ s.need_reload => w.need_reload
         /\ w.poll_list # s.poll_list \/ w.tx_ports # s.tx_ports => w.need_reload
         /\ w.poll_list = s.poll_list /\ w.tx_ports = s.tx_ports /\ ~s.need_reload => w = s
<1> DEFINE pl == {q \in s.poll_list : q[1] \notin ps}
           tp == s.tx_ports \ ps
           r == [s EXCEPT !.poll_list = pl, !.tx_ports = tp]
           w == [r EXCEPT !.need_reload = @ \/ r # s]
<1>1. pl \in SUBSET Rxq /\ tp \in SUBSET Port
  BY DEF SharedType
<1>2. /\ r \in SharedType /\ r.poll_list = pl /\ r.tx_ports = tp
      /\ r.need_reload = s.need_reload /\ r.reload = s.reload /\ r.exit = s.exit
      /\ r.reload_tx_qid = s.reload_tx_qid
      /\ (pl = s.poll_list /\ tp = s.tx_ports => r = s)
  <2> HIDE DEF pl, tp
  <2> QED
    BY <1>1 DEF SharedType
<1>3. Without(s, ps) = w
  BY DEF Without
<1>4. (r.need_reload \/ r # s) \in BOOLEAN
  BY <1>2 DEF SharedType
<1> HIDE DEF r
<1>5. /\ w \in SharedType /\ w.poll_list = r.poll_list /\ w.tx_ports = r.tx_ports
      /\ w.need_reload = (r.need_reload \/ r # s) /\ w.reload = r.reload /\ w.exit = r.exit
      /\ w.reload_tx_qid = r.reload_tx_qid
      /\ (w.need_reload = r.need_reload => w = r)
  BY <1>2, <1>4 DEF SharedType
<1>6. s.need_reload \in BOOLEAN
  BY DEF SharedType
<1> HIDE DEF w
<1> QED
  BY <1>2, <1>3, <1>5, <1>6

(* It takes the ports to be reconfigured or gone out of all lists.         *)
LEMMA RemoveStaleEffect ==
  ASSUME Typed, RemoveStale
  PROVE  /\ sh' \in [Thread -> SharedType] /\ th' = th
         /\ \A u \in Thread :
              /\ sh'[u].poll_list = {q \in sh[u].poll_list : q[1] \notin need' \cup (Port \ ports)}
              /\ sh'[u].tx_ports = sh[u].tx_ports \ (need' \cup (Port \ ports))
              /\ sh'[u].exit = sh[u].exit /\ sh'[u].reload = sh[u].reload
              /\ sh'[u].reload_tx_qid = sh[u].reload_tx_qid
              /\ sh[u].need_reload => sh'[u].need_reload
              /\ SameLists(u) \/ sh'[u].need_reload
              /\ SameLists(u) /\ ~sh[u].need_reload => ~sh'[u].need_reload
              /\ sh[u].poll_list = {} /\ sh[u].tx_ports = {} => SameLists(u)
<1>1. sh' = [t \in Thread |-> Without(sh[t], need' \cup (Port \ ports))] /\ th' = th
  BY DEF RemoveStale
<1>2. \A u \in Thread : sh[u] \in SharedType /\ sh'[u] = Without(sh[u], need' \cup (Port \ ports))
  BY <1>1 DEF Typed
<1>3. sh' \in [Thread -> SharedType]
  BY <1>1, <1>2, WithoutEffect
<1> DEFINE ps == need' \cup (Port \ ports)
<1>4. ASSUME NEW u \in Thread
      PROVE  /\ sh'[u].poll_list = {q \in sh[u].poll_list : q[1] \notin ps}
             /\ sh'[u].tx_ports = sh[u].tx_ports \ ps
             /\ sh'[u].exit = sh[u].exit /\ sh'[u].reload = sh[u].reload
             /\ sh'[u].reload_tx_qid = sh[u].reload_tx_qid
             /\ sh[u].need_reload => sh'[u].need_reload
             /\ SameLists(u) \/ sh'[u].need_reload
             /\ SameLists(u) /\ ~sh[u].need_reload => sh'[u] = sh[u]
  <2>1. sh[u] \in SharedType /\ sh'[u] = Without(sh[u], ps)
    BY <1>2
  <2> HIDE DEF ps
  <2> QED
    BY <2>1, WithoutEffect DEF SameLists
<1>5. ASSUME NEW u \in Thread, sh[u].poll_list = {}, sh[u].tx_ports = {}
      PROVE  SameLists(u)
  BY <1>4, <1>5 DEF SameLists
<1>6. ASSUME NEW u \in Thread, SameLists(u), ~sh[u].need_reload
      PROVE  ~sh'[u].need_reload
  BY <1>4, <1>6
<1> QED
  BY <1>1, <1>3, <1>4, <1>5, <1>6

(* It takes a queue out of the list of a thread that shall not poll it.    *)
LEMMA ComplyEffect ==
  ASSUME Typed, Comply
  PROVE  /\ sh' \in [Thread -> SharedType] /\ th' = th
         /\ \A u \in Thread :
              /\ sh'[u].poll_list = {q \in sh[u].poll_list : rxq_pmd[q] = u}
              /\ sh'[u].tx_ports = sh[u].tx_ports
              /\ sh'[u].exit = sh[u].exit /\ sh'[u].reload = sh[u].reload
              /\ sh'[u].reload_tx_qid = sh[u].reload_tx_qid
              /\ sh[u].need_reload => sh'[u].need_reload
              /\ SameLists(u) \/ sh'[u].need_reload
              /\ SameLists(u) /\ ~sh[u].need_reload => ~sh'[u].need_reload
              /\ sh[u].poll_list = {} /\ sh[u].tx_ports = {} => SameLists(u)
<1> DEFINE keep(u) == {q \in sh[u].poll_list : rxq_pmd[q] = u}
           waits(u) == sh[u].wait_for_reload \/ (keep(u) = {} /\ u \in Busy)
           f(u) == [sh[u] EXCEPT !.poll_list = keep(u), !.need_reload = TRUE,
                                 !.wait_for_reload = waits(u)]
<1>1. sh' = [u \in Thread |-> IF keep(u) = sh[u].poll_list THEN sh[u] ELSE f(u)] /\ th' = th
  BY DEF Comply
<1>2. \A u \in Thread : sh[u] \in SharedType /\ keep(u) \in SUBSET Rxq /\ waits(u) \in BOOLEAN
  BY DEF Typed, SharedType
<1> HIDE DEF keep, waits
<1>3. \A u \in Thread :
        /\ f(u) \in SharedType /\ f(u).poll_list = keep(u) /\ f(u).tx_ports = sh[u].tx_ports
        /\ f(u).need_reload = TRUE /\ f(u).reload = sh[u].reload /\ f(u).exit = sh[u].exit
        /\ f(u).reload_tx_qid = sh[u].reload_tx_qid
  BY <1>2 DEF SharedType
<1> HIDE DEF f
<1>4. \A u \in Thread : IF keep(u) = sh[u].poll_list THEN sh'[u] = sh[u] ELSE sh'[u] = f(u)
  BY <1>1
<1>5. sh' \in [Thread -> SharedType]
  BY <1>1, <1>2, <1>3
<1> QED
  BY <1>1, <1>3, <1>4, <1>5 DEF SameLists, keep

(* It adds the queues of a thread to its list, and all ports.              *)
LEMMA FillEffect ==
  ASSUME Typed, NEW t \in Thread, Fill(t)
  PROVE  /\ sh' \in [Thread -> SharedType] /\ th' = th /\ \A u \in Thread \ {t} : sh'[u] = sh[u]
         /\ sh'[t].poll_list \in {sh[t].poll_list,
                                  sh[t].poll_list \cup {q \in RxqOf(ports) : rxq_pmd[q] = t}}
         /\ sh'[t].tx_ports \in {sh[t].tx_ports, sh[t].tx_ports \cup ports}
         /\ sh'[t].exit = sh[t].exit /\ sh'[t].reload = sh[t].reload
         /\ sh'[t].reload_tx_qid = sh[t].reload_tx_qid
         /\ sh[t].need_reload => sh'[t].need_reload
         /\ SameLists(t) \/ sh'[t].need_reload
<1> DEFINE pq == sh[t].poll_list \cup {q \in RxqOf(ports) : rxq_pmd[q] = t}
           tq == sh[t].tx_ports \cup (IF sh[t].poll_list # {} \/ t = NonPmd THEN ports ELSE {})
           r(pl, tp) == [[sh[t] EXCEPT !.poll_list = pl] EXCEPT !.tx_ports = tp]
           w(pl, tp) == [r(pl, tp) EXCEPT !.need_reload = r(pl, tp).need_reload \/ r(pl, tp) # sh[t]]
<1>1. sh[t] \in SharedType /\ sh[t].need_reload \in BOOLEAN
  BY DEF Typed, SharedType
<1>2. pq \in SUBSET Rxq /\ tq \in SUBSET Port
  BY <1>1 DEF Typed, SharedType, RxqOf
<1>3. PICK pl \in {sh[t].poll_list, pq}, tp \in {sh[t].tx_ports, tq} :
        sh' = [sh EXCEPT ![t] = w(pl, tp)] /\ th' = th
  <2>1. CASE FillRxqs(t)
    <3>1. [[sh[t] EXCEPT !.poll_list = pq] EXCEPT !.tx_ports = sh[t].tx_ports]
            = [sh[t] EXCEPT !.poll_list = pq]
      BY <1>1 DEF SharedType
    <3>2. sh' = [sh EXCEPT ![t] = w(pq, sh[t].tx_ports)] /\ th' = th
      BY <2>1, <3>1, Zenon DEF Fill, FillRxqs
    <3> QED
      BY <3>2
  <2>2. CASE FillTxPorts(t)
    <3>1. [sh[t] EXCEPT !.poll_list = sh[t].poll_list] = sh[t]
      BY <1>1 DEF SharedType
    <3>2. sh' = [sh EXCEPT ![t] = w(sh[t].poll_list, tq)] /\ th' = th
      BY <2>2, <3>1, Zenon DEF Fill, FillTxPorts
    <3> QED
      BY <3>2
  <2> QED
    BY <2>1, <2>2 DEF Fill
<1>4. tp \in {sh[t].tx_ports, sh[t].tx_ports \cup ports} /\ pl \in SUBSET Rxq /\ tp \in SUBSET Port
  BY <1>1, <1>2, <1>3 DEF SharedType
<1>5. pl \in {sh[t].poll_list, sh[t].poll_list \cup {q \in RxqOf(ports) : rxq_pmd[q] = t}}
  BY <1>3
<1> DEFINE x == r(pl, tp)
           y == w(pl, tp)
<1>6. /\ x \in SharedType /\ x.poll_list = pl /\ x.tx_ports = tp
      /\ x.need_reload = sh[t].need_reload /\ x.reload = sh[t].reload /\ x.exit = sh[t].exit
      /\ x.reload_tx_qid = sh[t].reload_tx_qid
      /\ (pl = sh[t].poll_list /\ tp = sh[t].tx_ports => x = sh[t])
  BY <1>1, <1>4 DEF SharedType
<1>7. (x.need_reload \/ x # sh[t]) \in BOOLEAN
  BY <1>1, <1>6
<1>8. /\ y \in SharedType /\ y.poll_list = x.poll_list /\ y.tx_ports = x.tx_ports
      /\ y.need_reload = (x.need_reload \/ x # sh[t]) /\ y.reload = x.reload /\ y.exit = x.exit
      /\ y.reload_tx_qid = x.reload_tx_qid
  <2>1. y = [x EXCEPT !.need_reload = x.need_reload \/ x # sh[t]]
    OBVIOUS
  <2> HIDE DEF x, y
  <2> QED
    BY <1>6, <1>7, <2>1 DEF SharedType
<1>9. sh' = [sh EXCEPT ![t] = y] /\ th' = th
  BY <1>3
<1> HIDE DEF x, y, pq, tq, r, w
<1>10. sh' \in [Thread -> SharedType] /\ sh'[t] = y /\ \A u \in Thread \ {t} : sh'[u] = sh[u]
  BY <1>8, <1>9 DEF Typed
<1> QED
  BY <1>1, <1>4, <1>5, <1>6, <1>8, <1>9, <1>10 DEF SameLists

-----------------------------------------------------------------------------
(* The id a thread takes.                                                  *)

(* An id that is free is below the number of threads.                      *)
LEMMA FreeQidHere ==
  ASSUME Typed, Blank, NEW t \in Thread, th[t].qid = NoQid, th[t].pc # "none"
  PROVE  /\ FreeQid \in Txq /\ FreeQid < Cardinality(threads) /\ Cardinality(threads) \in Nat
         /\ \A u \in Thread : th[u].qid # FreeQid
<1>1. t \in threads
  BY DEF Blank, BlankOf, NewThread
<1> DEFINE H == threads \ {t}
<1>2. H \in SUBSET Thread /\ H # Thread
  BY DEF Typed
<1>3. \A u \in Thread \ H : th[u].qid = NoQid
  BY DEF Blank, BlankOf, NewThread
<1>4. IsFiniteSet(threads) /\ Cardinality(threads) \in Nat
  BY ThreadCount, FS_Subset, FS_CardinalityType DEF Typed
<1>5. Cardinality(H) = Cardinality(threads) - 1
  BY <1>1, <1>4, FS_RemoveElement
<1> HIDE DEF H
<1>6. FreeQid \in 0 .. Cardinality(H) /\ FreeQid \in Txq /\ \A u \in Thread : th[u].qid # FreeQid
  BY <1>2, <1>3, FreeQidSound
<1> QED
  BY <1>4, <1>5, <1>6

(* What the first id of a thread is where the invariant holds.             *)
LEMMA FirstQidStep ==
  ASSUME Typed, Blank, OwnIds, NEW t \in Thread, FirstQid(t)
  PROVE  /\ Others(t) /\ sh' = sh /\ th' \in [Thread -> LocalType]
         /\ th[t].pc = "first" /\ th'[t].pc \in Awake
         /\ th'[t].polled = th[t].polled /\ th'[t].sending = th[t].sending
         /\ th'[t].xps = th[t].xps /\ th'[t].exiting = th[t].exiting
         /\ th'[t].qid \in Txq /\ th'[t].qid < Cardinality(threads) /\ Cardinality(threads) \in Nat
         /\ \A u \in Thread : th[u].qid # th'[t].qid
<1>1. th[t].pc = "first"
  BY DEF FirstQid
<1>2. th[t].qid = NoQid
  BY <1>1 DEF OwnIds, HoldsId
<1>3. /\ FreeQid \in Txq /\ FreeQid < Cardinality(threads) /\ Cardinality(threads) \in Nat
      /\ \A u \in Thread : th[u].qid # FreeQid
  BY <1>1, <1>2, FreeQidHere
<1> QED
  BY <1>3, FirstQidEffect

(* The same of an id taken in place of another.                            *)
LEMMA AllocQidStep ==
  ASSUME Typed, Blank, OwnIds, NEW t \in Thread, AllocQid(t)
  PROVE  /\ Others(t) /\ sh' = sh /\ th' \in [Thread -> LocalType]
         /\ th[t].pc = "allocqid"
         /\ IF th[t].exiting THEN th'[t].pc = "exit" ELSE th'[t].pc \in Awake
         /\ th'[t].polled = th[t].polled /\ th'[t].sending = th[t].sending
         /\ th'[t].xps = th[t].xps /\ th'[t].exiting = th[t].exiting
         /\ th'[t].qid \in Txq /\ th'[t].qid < Cardinality(threads) /\ Cardinality(threads) \in Nat
         /\ \A u \in Thread : th[u].qid # th'[t].qid
<1>1. th[t].pc = "allocqid"
  BY DEF AllocQid
<1>2. th[t].qid = NoQid
  BY <1>1 DEF OwnIds, HoldsId
<1>3. /\ FreeQid \in Txq /\ FreeQid < Cardinality(threads) /\ Cardinality(threads) \in Nat
      /\ \A u \in Thread : th[u].qid # FreeQid
  BY <1>1, <1>2, FreeQidHere
<1> QED
  BY <1>3, AllocQidEffect

(* The threads on a tx queue are a finite number.                          *)
LEMMA OnNat ==
  ASSUME NEW p, NEW i
  PROVE  IsFiniteSet(On(p, i)) /\ Cardinality(On(p, i)) \in 0 .. Cardinality(Thread)
<1>1. On(p, i) \in SUBSET Thread
  BY DEF On
<1> QED
  BY <1>1, ThreadCount, FS_Subset, FS_CardinalityType

(* What picking a tx queue does where the invariant holds.                 *)
LEMMA TakeTxqStep ==
  ASSUME Typed, Counted, NEW t \in Thread, NEW p \in Port, TakeTxq(t, p)
  PROVE  \E i \in Txq :
         /\ txq_used' = [txq_used EXCEPT ![p][i] = @ + 1]
         /\ Others(t) /\ sh' = sh /\ th' \in [Thread -> LocalType]
         /\ th[t].pc \in {"poll", "main"} /\ p \in th[t].sending /\ p \notin DOMAIN th[t].xps
         /\ DOMAIN th'[t].xps = DOMAIN th[t].xps \cup {p} /\ th'[t].xps[p] = i
         /\ \A o \in DOMAIN th[t].xps : th'[t].xps[o] = th[t].xps[o]
         /\ th'[t].pc = th[t].pc
         /\ th'[t].polled = th[t].polled /\ th'[t].sending = th[t].sending
         /\ th'[t].exiting = th[t].exiting /\ th'[t].qid = th[t].qid
<1>1. \A i \in Txq : txq_used[p][i] \in Nat
  BY OnNat, ThreadCount DEF Counted
<1> QED
  BY <1>1, TakeTxqEffect

-----------------------------------------------------------------------------
(* The kinds of steps.  A thread moves in one of seven ways; none of them  *)
(* changes what is the main thread's or another thread's.                  *)

ConfKept == UNCHANGED <<cmask, reconf, ports, exists, n_rxq, n_txq, txq_mode>>
MainKept ==
  /\ ConfKept
  /\ UNCHANGED <<pc, leaving, need, wanted, todo, bumped, rxq_pmd, threads>>

SameXps(t) ==
  /\ DOMAIN th'[t].xps = DOMAIN th[t].xps
  /\ \A p \in DOMAIN th[t].xps : th'[t].xps[p] = th[t].xps[p]
SameUse(t) == th'[t].polled = th[t].polled /\ th'[t].sending = th[t].sending
SameId(t) == th'[t].exiting = th[t].exiting /\ th'[t].qid = th[t].qid

Loads(t) ==
  /\ \/ th[t].pc = "start" /\ th'[t].pc = "first"
     \/ th[t].pc = "poll" /\ sh[t].reload /\ th'[t].pc = "loaded"
  /\ th'[t].polled = sh[t].poll_list /\ th'[t].sending = sh[t].tx_ports
  /\ DOMAIN th'[t].xps = {} /\ SameId(t) /\ sh' = sh
TakesId(t) ==
  /\ \/ th[t].pc = "first" /\ th'[t].pc \in Awake
     \/ th[t].pc = "allocqid" /\ th[t].exiting /\ th'[t].pc = "exit"
     \/ th[t].pc = "allocqid" /\ ~th[t].exiting /\ th'[t].pc \in Awake
  /\ SameUse(t) /\ SameXps(t) /\ th'[t].exiting = th[t].exiting /\ sh' = sh
  /\ th'[t].qid \in Txq /\ \A u \in Thread : th[u].qid # th'[t].qid
  /\ th'[t].qid < Cardinality(threads) /\ Cardinality(threads) \in Nat
DropsId(t) ==
  /\ th[t].pc = "freeqid" /\ th'[t].pc = "allocqid"
  /\ SameUse(t) /\ SameXps(t) /\ th'[t].exiting = th[t].exiting /\ th'[t].qid = NoQid /\ sh' = sh
Wakes(t) ==
  /\ th[t].pc \in {"spin", "sleep"} /\ th'[t].pc = "poll"
  /\ SameUse(t) /\ SameXps(t) /\ SameId(t) /\ sh' = sh
Answers(t) ==
  /\ th[t].pc = "loaded"
  /\ IF sh[t].reload_tx_qid THEN th'[t].pc = "freeqid"
     ELSE IF sh[t].exit THEN th'[t].pc = "exit" ELSE th'[t].pc \in Awake
  /\ SameUse(t) /\ SameXps(t) /\ th'[t].exiting = sh[t].exit /\ th'[t].qid = th[t].qid
  /\ ~sh'[t].reload /\ ~sh'[t].reload_tx_qid
  /\ sh'[t].need_reload = sh[t].need_reload /\ sh'[t].exit = sh[t].exit /\ SameLists(t)
Ends(t) ==
  /\ th[t].pc = "exit" /\ th'[t].pc = "gone" /\ th'[t].polled = {} /\ th'[t].sending = {}
  /\ DOMAIN th'[t].xps = {} /\ ~th'[t].exiting /\ th'[t].qid = NoQid /\ sh' = sh
Sending(t) ==
  /\ th[t].pc \in {"poll", "main"} /\ th'[t].pc = th[t].pc
  /\ DOMAIN th'[t].xps \subseteq DOMAIN th[t].xps \cup th[t].sending
  /\ SameUse(t) /\ SameId(t) /\ sh' = sh

(* The tx queues it gives back, or takes.                                  *)
GivesBack(t, ps) ==
  /\ txq_used' = Purge(t, ps)
  /\ DOMAIN th'[t].xps = DOMAIN th[t].xps \ ps
  /\ \A p \in DOMAIN th'[t].xps : th'[t].xps[p] = th[t].xps[p]
Takes(t, p, i) ==
  /\ txq_used' = [txq_used EXCEPT ![p][i] = @ + 1]
  /\ p \notin DOMAIN th[t].xps
  /\ DOMAIN th'[t].xps = DOMAIN th[t].xps \cup {p} /\ th'[t].xps[p] = i
  /\ \A o \in DOMAIN th[t].xps : th'[t].xps[o] = th[t].xps[o]
XpsMove(t) ==
  \/ txq_used' = txq_used /\ SameXps(t)
  \/ GivesBack(t, Port)
  \/ \E p \in Port : GivesBack(t, {p})
  \/ \E p \in Port, i \in Txq : Takes(t, p, i)

ThreadMove(t) ==
  /\ Others(t) /\ MainKept /\ th' \in [Thread -> LocalType] /\ sh' \in [Thread -> SharedType]
  /\ XpsMove(t)
  /\ \/ Loads(t) \/ TakesId(t) \/ DropsId(t) \/ Wakes(t) \/ Answers(t) \/ Ends(t) \/ Sending(t)

(* No step of a thread changes what is the main thread's.                  *)
LEMMA ThreadKeeps ==
  \A t \in Thread :
    /\ Start(t) \/ FirstQid(t) \/ WakeUp(t) \/ FreeOldQid(t) \/ AllocQid(t) \/ Exit(t)
         => MainKept /\ txq_used' = txq_used
    /\ Acknowledge(t) => MainKept /\ txq_used' = txq_used
    /\ Load(t) => MainKept /\ txq_used' = Purge(t, Port)
    /\ \A p \in Port : TakeTxq(t, p) => MainKept
    /\ \A p \in Port : GiveBackTxq(t, p) => MainKept /\ txq_used' = Purge(t, {p})
BY DEF Start, FirstQid, WakeUp, FreeOldQid, AllocQid, Exit, Acknowledge, Load, TakeTxq, GiveBackTxq,
       ByThread, mainVars, confVars, portVars, schedVars, MainKept, ConfKept

(* Each step of a thread is of one of the seven kinds.                     *)
LEMMA ThreadMoves ==
  ASSUME Typed, Blank, OwnIds, Counted, NEW t \in Thread,
         PmdStep(t) \/ \E p \in Port : TakeTxq(t, p) \/ GiveBackTxq(t, p)
  PROVE  ThreadMove(t)
<1>1. MainKept /\ sh \in [Thread -> SharedType]
  BY ThreadKeeps DEF PmdStep, Typed
<1>2. th[t].pc \notin {"poll", "main"} => DOMAIN th[t].xps = {}
  BY DEF Counted, XpsOf
<1>3. DOMAIN th[t].xps \subseteq Port
  BY XpsTypes DEF Typed, LocalType
<1>4. CASE Start(t)
  BY <1>1, <1>2, <1>4, StartEffect, ThreadKeeps DEF ThreadMove, XpsMove, SameXps, Loads, SameId
<1>5. CASE FirstQid(t)
  BY <1>1, <1>5, FirstQidStep, ThreadKeeps DEF ThreadMove, XpsMove, SameXps, TakesId, SameUse
<1>6. CASE WakeUp(t)
  BY <1>1, <1>6, WakeUpEffect, ThreadKeeps
     DEF ThreadMove, XpsMove, SameXps, Wakes, SameUse, SameId
<1>7. CASE Load(t)
  <2>1. /\ Others(t) /\ sh' = sh /\ th' \in [Thread -> LocalType] /\ Loads(t)
        /\ DOMAIN th'[t].xps = {}
    BY <1>7, LoadEffect DEF Loads, SameId
  <2>2. GivesBack(t, Port)
    BY <1>3, <1>7, <2>1, ThreadKeeps DEF GivesBack
  <2> QED
    BY <1>1, <2>1, <2>2 DEF ThreadMove, XpsMove
<1>8. CASE Acknowledge(t)
  BY <1>1, <1>8, AcknowledgeEffect, ThreadKeeps DEF ThreadMove, XpsMove, SameXps, Answers, SameUse
<1>9. CASE FreeOldQid(t)
  BY <1>1, <1>9, FreeOldQidEffect, ThreadKeeps DEF ThreadMove, XpsMove, SameXps, DropsId, SameUse
<1>10. CASE AllocQid(t)
  BY <1>1, <1>10, AllocQidStep, ThreadKeeps DEF ThreadMove, XpsMove, SameXps, TakesId, SameUse
<1>11. CASE Exit(t)
  BY <1>1, <1>2, <1>11, ExitEffect, ThreadKeeps DEF ThreadMove, XpsMove, SameXps, Ends
<1>12. ASSUME NEW p \in Port, TakeTxq(t, p)
       PROVE  ThreadMove(t)
  <2>1. PICK i \in Txq :
         /\ txq_used' = [txq_used EXCEPT ![p][i] = @ + 1]
         /\ Others(t) /\ sh' = sh /\ th' \in [Thread -> LocalType]
         /\ th[t].pc \in {"poll", "main"} /\ p \in th[t].sending /\ p \notin DOMAIN th[t].xps
         /\ DOMAIN th'[t].xps = DOMAIN th[t].xps \cup {p} /\ th'[t].xps[p] = i
         /\ \A o \in DOMAIN th[t].xps : th'[t].xps[o] = th[t].xps[o]
         /\ th'[t].pc = th[t].pc
         /\ th'[t].polled = th[t].polled /\ th'[t].sending = th[t].sending
         /\ th'[t].exiting = th[t].exiting /\ th'[t].qid = th[t].qid
    BY <1>12, TakeTxqStep
  <2>2. Sending(t)
    BY <2>1 DEF Sending, SameUse, SameId
  <2>3. XpsMove(t)
    BY <2>1 DEF XpsMove, Takes
  <2> QED
    BY <1>1, <2>1, <2>2, <2>3 DEF ThreadMove
<1>13. ASSUME NEW p \in Port, GiveBackTxq(t, p)
       PROVE  ThreadMove(t)
  <2>1. Others(t) /\ sh' = sh /\ th' \in [Thread -> LocalType] /\ Sending(t)
    BY <1>13, GiveBackTxqEffect DEF Sending, SameUse, SameId
  <2>2. GivesBack(t, {p})
    BY <1>13, GiveBackTxqEffect, ThreadKeeps DEF GivesBack
  <2> QED
    BY <1>1, <2>1, <2>2 DEF ThreadMove, XpsMove
<1> QED
  BY <1>4, <1>5, <1>6, <1>7, <1>8, <1>9, <1>10, <1>11, <1>12, <1>13 DEF PmdStep

(* The steps of the main thread between two reconfigurations, those that   *)
(* make the schedule and, at any time, the requests of devices change      *)
(* nothing the threads look at.                                            *)
AllKept ==
  UNCHANGED <<ports, exists, n_rxq, n_txq, txq_mode, leaving, need, wanted, todo, bumped, threads,
              txq_used, sh, th>>
Idle ==
  /\ pc = "idle" /\ pc' \in {"idle", "threads"} /\ AllKept /\ rxq_pmd' = rxq_pmd
  /\ cmask' \in SUBSET Core
Placing ==
  /\ AllKept /\ cmask' = cmask /\ reconf \subseteq reconf'
  /\ \/ pc = "schedule" /\ pc' = "place" /\ rxq_pmd' = rxq_pmd
     \/ pc' = pc /\ rxq_pmd' = rxq_pmd
     \/ pc = "place" /\ pc' = "comply"
Waits == {<<"reload1", "create">>, <<"reload2", "ports">>, <<"reload3", "add">>,
          <<"reload4", "finish">>}
Waited(r, k) == <<r, k>> \in Waits /\ Await(r, k)

(* The steps of the system by kind.                                        *)
LEMMA NextCases ==
  ASSUME Typed, Blank, OwnIds, Counted, Next
  PROVE  \/ Idle \/ (\E p \in Port : AddPort(p)) \/ (\E p \in Port : DelPort(p))
         \/ (\E t \in Thread : BumpSeq(t)) \/ StoreReload \/ ReloadNonPmd
         \/ (\E r, k : Waited(r, k))
         \/ CheckThreads \/ (\E t \in Core : DelPmd(t)) \/ (\E t \in Core : JoinPmd(t)) \/ DeleteDone
         \/ CreatePmds \/ RemoveStale \/ (\E p \in Port : Reconfigure(p)) \/ ReconfigureDone
         \/ Placing \/ Comply \/ FillStart \/ (\E t \in Thread : Fill(t)) \/ FillTxStart \/ FillDone \/ Finish
         \/ (\E t \in Thread : ThreadMove(t))
<1>1. ASSUME SetCmask \/ Run
      PROVE  Idle
  BY <1>1, ReloadAssumption
     DEF SetCmask, Request, Run, mainVars, confVars, portVars, schedVars, Idle, AllKept, Typed
<1>2. ASSUME SchedulePinned \/ ScheduleNext \/ PutInPlace \/ (\E p \in Port : RequestReconf(p))
      PROVE  Placing
  BY <1>2 DEF SchedulePinned, ScheduleNext, PutInPlace, ScheduleStep, RequestReconf, mainVars,
              confVars, portVars, schedVars, Placing, AllKept
<1>3. ASSUME \/ Await("reload1", "create") \/ Await("reload2", "ports")
             \/ Await("reload3", "add") \/ Await("reload4", "finish")
      PROVE  \E r, k : Waited(r, k)
  BY <1>3 DEF Waited, Waits
<1>4. ASSUME NEW t \in Thread,
             PmdStep(t) \/ \E p \in Port : TakeTxq(t, p) \/ GiveBackTxq(t, p)
      PROVE  ThreadMove(t)
  BY <1>4, ThreadMoves
<1> QED
  BY <1>1, <1>2, <1>3, <1>4 DEF Next, Requests, MainStep, Reloading, Steps

(* What the steps that edit the lists leave alone.                         *)
LEMMA ListsKeep ==
  /\ RemoveStale =>
       /\ pc = "stale" /\ pc' = "reload2" /\ need' = Needing
       /\ todo' = {t \in threads : sh'[t].need_reload}
       /\ ConfKept /\ UNCHANGED <<leaving, wanted, bumped, rxq_pmd, threads, txq_used, th>>
  /\ Comply =>
       /\ pc = "comply" /\ pc' = "reload3"
       /\ todo' = {t \in threads : sh'[t].need_reload}
       /\ ConfKept /\ UNCHANGED <<leaving, need, wanted, bumped, rxq_pmd, threads, txq_used, th>>
  /\ \A t \in Thread : Fill(t) =>
       /\ pc \in {"fill", "filltx"} /\ t \in todo /\ pc' = pc /\ todo' = todo \ {t}
       /\ ConfKept /\ UNCHANGED <<leaving, need, wanted, bumped, rxq_pmd, threads, txq_used, th>>
BY Zenon DEF RemoveStale, Comply, Fill, FillRxqs, FillTxPorts, confVars, portVars, schedVars, ConfKept

(* A PMD thread is a thread.                                               *)
LEMMA CoreIsThread == \A t \in Core : t \in Thread
BY DEF Thread

(* The main thread is a thread and no PMD thread.                          *)
LEMMA Members ==
  ASSUME Typed
  PROVE  /\ todo \subseteq threads /\ threads \subseteq Thread /\ NonPmd \in threads
         /\ NonPmd \in Thread /\ NonPmd \notin Core /\ NonPmd # NoCore
BY ReloadAssumption DEF Typed

(* When the main thread has waited, every thread has loaded its lists.     *)
LEMMA AwaitKeeps ==
  ASSUME NEW r, NEW k, Await(r, k)
  PROVE  /\ pc = r /\ pc' = k /\ todo = {} /\ bumped = NoCore
         /\ \A t \in threads : sh[t].need_reload => ~sh[t].reload
         /\ ConfKept
         /\ UNCHANGED <<leaving, need, wanted, todo, bumped, rxq_pmd, threads, txq_used, th>>
BY DEF Await, NeedReload, ConfKept, confVars, portVars, schedVars

(* When the main thread stops waiting every thread has loaded its lists.   *)
LEMMA AwaitAll ==
  ASSUME Typed, Blank, Signals, Handover, NEW r \in Reloads, NEW k, Await(r, k)
  PROVE  \A u \in Thread : Fresh(u) /\ ~sh[u].reload /\ th[u].pc # "loaded"
<1> SUFFICES ASSUME NEW u \in Thread
             PROVE  Fresh(u) /\ ~sh[u].reload /\ th[u].pc # "loaded"
  OBVIOUS
<1>1. pc = r /\ pc \in Reloads /\ todo = {} /\ \A t \in threads : sh[t].need_reload => ~sh[t].reload
  BY AwaitKeeps
<1>2. u \notin threads => ~sh[u].need_reload
  BY DEF Blank, BlankOf, NewShared
<1>3. ~sh[u].reload
  BY <1>1, <1>2 DEF Signals, Asked, Bumped, FlagsOf, Reloads
<1>4. ~Pending(u)
  BY <1>1, <1>3 DEF Pending
<1> QED
  BY <1>3, <1>4 DEF Handover, HandedOver

(* The steps that change what a thread polls or sends to.                  *)
Calm == th' = th /\ \A t \in Thread : SameLists(t)

(* The steps that change lists or records of threads, and the others.      *)
LEMMA ListCases ==
  ASSUME Typed, Blank, OwnIds, Counted, Next
  PROVE  \/ Calm \/ ReloadNonPmd \/ (\E t \in Core : JoinPmd(t)) \/ CreatePmds
         \/ RemoveStale \/ Comply \/ (\E t \in Thread : Fill(t)) \/ (\E t \in Thread : ThreadMove(t))
<1>1. ASSUME \/ Idle \/ (\E p \in Port : AddPort(p)) \/ (\E p \in Port : DelPort(p)) \/ DeleteDone
             \/ (\E p \in Port : Reconfigure(p)) \/ ReconfigureDone \/ Placing \/ FillStart
             \/ FillTxStart \/ FillDone \/ Finish
      PROVE  th' = th /\ sh' = sh
  BY <1>1 DEF Idle, AddPort, DelPort, DeleteDone, Reconfigure, ReconfigureDone, Placing, FillStart, FillTxStart,
              FillDone, Finish, AllKept
<1>2. ASSUME \/ (\E t \in Thread : BumpSeq(t)) \/ StoreReload \/ (\E r, k : Waited(r, k))
             \/ CheckThreads \/ (\E t \in Core : DelPmd(t))
      PROVE  Calm
  BY <1>2, BumpSeqEffect, StoreReloadEffect, AwaitEffect, CheckThreadsEffect, CoreIsThread,
     DelPmdEffect DEF Waited, Calm
<1> QED
  BY <1>1, <1>2, NextCases DEF Calm, SameLists


(* Giving tx queues back keeps the counts integers.                        *)
LEMMA PurgeTyped ==
  ASSUME Typed, NEW t \in Thread, NEW ps
  PROVE  Purge(t, ps) \in [Port -> [Txq -> Int]]
<1> DEFINE x == th[t].xps
<1>1. x \in [DOMAIN x -> Txq]
  BY XpsTypes DEF Typed, LocalType
<1> HIDE DEF x
<1>2. ASSUME NEW p \in Port, p \in ps \cap DOMAIN x
      PROVE  [txq_used[p] EXCEPT ![x[p]] = @ - 1] \in [Txq -> Int]
  BY <1>1, <1>2 DEF Typed
<1>3. ASSUME NEW p \in Port
      PROVE  txq_used[p] \in [Txq -> Int]
  BY DEF Typed
<1> QED
  BY <1>2, <1>3 DEF Purge, x

(* The threads there are and those there shall be.                         *)
LEMMA WantedTyped ==
  ASSUME Typed
  PROVE  /\ Wanted \in SUBSET Core /\ IsFiniteSet(threads) /\ Cardinality(threads) \in Nat
         /\ threads \cup Wanted \in SUBSET Thread
         /\ Cardinality(threads \cup Wanted) \in 1 .. Cardinality(Thread)
<1>1. Wanted \in SUBSET Core
  BY DEF Typed, Wanted
<1>2. threads \cup Wanted \in SUBSET Thread /\ NonPmd \in threads \cup Wanted
  BY <1>1 DEF Typed, Thread
<1>3. IsFiniteSet(threads \cup Wanted) /\ Cardinality(threads \cup Wanted) \in Nat
      /\ Cardinality(threads \cup Wanted) <= Cardinality(Thread)
      /\ IsFiniteSet(threads) /\ Cardinality(threads) \in Nat
  BY <1>2, ThreadCount, FS_Subset, FS_CardinalityType DEF Typed
<1>4. Cardinality(threads \cup Wanted) # 0
  BY <1>2, <1>3, FS_EmptySet
<1> QED
  BY <1>1, <1>2, <1>3, <1>4, ThreadCount

(* Every step keeps the types.                                             *)
LEMMA TypedStep ==
  ASSUME Typed, Blank, OwnIds, Counted, Signals, PortsKept, Next
  PROVE  Typed'
<1>1. CASE Idle
  BY <1>1, ReloadAssumption DEF Idle, AllKept, Typed, MainPc, Reloads
<1>2. ASSUME NEW p \in Port, AddPort(p)
      PROVE  Typed'
  BY <1>2, ReloadAssumption
     DEF AddPort, mainVars, confVars, portVars, schedVars, Typed, MainPc, Reloads
<1>3. ASSUME NEW p \in Port, DelPort(p)
      PROVE  Typed'
  BY <1>3, ReloadAssumption
     DEF DelPort, mainVars, confVars, portVars, schedVars, Typed, MainPc, Reloads
<1>4. ASSUME NEW t \in Thread, BumpSeq(t)
      PROVE  Typed'
  BY <1>4, BumpSeqEffect, ReloadAssumption
     DEF BumpSeq, SameFlags, mainVars, confVars, portVars, schedVars, Typed, MainPc, Reloads,
         Thread
<1>5. CASE StoreReload
  BY <1>5, StoreReloadEffect, ReloadAssumption
     DEF StoreReload, mainVars, confVars, portVars, schedVars, Typed, MainPc, Reloads
<1>6. CASE ReloadNonPmd
  BY <1>6, ReloadNonPmdEffect, PurgeTyped, Members, ReloadAssumption
     DEF ReloadNonPmd, mainVars, confVars, portVars, schedVars, Typed, MainPc, Reloads
<1>7. ASSUME NEW r, NEW k, Waited(r, k)
      PROVE  Typed'
  BY <1>7, AwaitEffect, AwaitKeeps, ReloadAssumption
     DEF Waited, Waits, ConfKept, Typed, MainPc, Reloads
<1>8. CASE CheckThreads
  BY <1>8, CheckThreadsEffect, ReloadAssumption
     DEF CheckThreads, mainVars, confVars, portVars, schedVars, Typed, MainPc, Reloads, Live,
         Unwanted
<1>9. ASSUME NEW t \in Core, DelPmd(t)
      PROVE  Typed'
  BY <1>9, CoreIsThread, DelPmdEffect, Members, ReloadAssumption
     DEF DelPmd, mainVars, confVars, portVars, schedVars, Typed, MainPc, Reloads, Live
<1>10. ASSUME NEW t \in Core, JoinPmd(t)
      PROVE  Typed'
  <2>1. t \notin todo /\ t # NonPmd
    BY <1>10, CoreAssumption, CoreIsThread, Members DEF JoinPmd, Signals, FlagsOf
  <2>2. sh' \in [Thread -> SharedType] /\ th' \in [Thread -> LocalType]
    BY <1>10, CoreIsThread, JoinPmdEffect
  <2>3. threads' = threads \ {t} /\ pc' = "delete"
    BY <1>10 DEF JoinPmd
  <2>4. UNCHANGED <<leaving, need, wanted, todo, bumped, cmask, ports, exists, n_txq, txq_mode, txq_used>>
    BY <1>10 DEF JoinPmd, confVars, portVars
  <2> QED
    BY <2>1, <2>2, <2>3, <2>4 DEF Typed, MainPc
<1>11. CASE DeleteDone \/ ReconfigureDone \/ FillStart \/ FillTxStart \/ FillDone
  BY <1>11, ReloadAssumption
     DEF DeleteDone, mainVars, confVars, portVars, schedVars, ReconfigureDone, FillStart, FillTxStart,
         FillDone, Typed, MainPc, Reloads, NeedReload
<1>12. CASE CreatePmds
  <2>1. /\ pc' = "stale" /\ sh' = sh /\ th' \in [Thread -> LocalType] /\ threads' = threads \cup Wanted
        /\ wanted' = Cardinality(threads \cup Wanted) /\ todo' = todo /\ bumped' = bumped /\ need' = need
        /\ leaving' = leaving /\ cmask' = cmask /\ ports' = ports /\ exists' = exists
        /\ n_txq' = n_txq /\ txq_mode' = txq_mode /\ txq_used' = txq_used
    BY <1>12, CreatePmdsEffect DEF CreatePmds, portVars
  <2> QED
    BY <2>1, WantedTyped DEF Typed, MainPc
<1>13. CASE RemoveStale
  BY <1>13, RemoveStaleEffect, ListsKeep, ReloadAssumption
     DEF ConfKept, Typed, MainPc, Reloads, Needing
<1>14. ASSUME NEW p \in Port, Reconfigure(p)
      PROVE  Typed'
  <2>1. /\ pc' = pc /\ sh' = sh /\ th' = th /\ threads' = threads /\ wanted' = wanted /\ todo' = todo
        /\ bumped' = bumped /\ leaving' = leaving /\ cmask' = cmask /\ need' = need \ {p}
    BY <1>14 DEF Reconfigure
  <2>2. ports' \in SUBSET exists' /\ exists' \in SUBSET Port
    BY <1>14 DEF Reconfigure, Typed
  <2>3. Min2(wanted, HwTxq[p]) \in 1 .. Cardinality(Thread)
    BY ReloadAssumption, ThreadCount DEF Min2, Typed
  <2>4. n_txq' \in [Port -> 1 .. Cardinality(Thread)]
    BY <1>14, <2>3 DEF Reconfigure, Typed
  <2>7. txq_mode' \in [Port -> {"static", "xps"}]
    BY <1>14 DEF Reconfigure, Typed
  <2>5. txq_used' = txq_used \/ txq_used' = [txq_used EXCEPT ![p] = [i \in Txq |-> 0]]
    BY <1>14 DEF Reconfigure, Typed
  <2>6. txq_used' \in [Port -> [Txq -> Int]]
    BY <2>5 DEF Typed
  <2> QED
    BY <2>1, <2>2, <2>4, <2>6, <2>7 DEF Typed
<1>15. CASE Placing
  BY <1>15, ReloadAssumption DEF Placing, AllKept, Typed, MainPc, Reloads
<1>16. CASE Comply
  BY <1>16, ComplyEffect, ListsKeep, ReloadAssumption DEF ConfKept, Typed, MainPc, Reloads
<1>17. ASSUME NEW t \in Thread, Fill(t)
      PROVE  Typed'
  BY <1>17, FillEffect, ListsKeep, ReloadAssumption DEF ConfKept, Typed, MainPc, Reloads
<1>18. CASE Finish
  BY <1>18, ReloadAssumption
     DEF Finish, mainVars, confVars, portVars, schedVars, Typed, MainPc, Reloads, PortsKept,
         Settled
<1>19. ASSUME NEW t \in Thread, ThreadMove(t)
      PROVE  Typed'
  <2>1. MainKept /\ sh' \in [Thread -> SharedType] /\ th' \in [Thread -> LocalType]
    BY <1>19 DEF ThreadMove
  <2>2. txq_used' \in [Port -> [Txq -> Int]]
    <3>1. CASE txq_used' = txq_used
      BY <3>1 DEF Typed
    <3>2. CASE \E ps : GivesBack(t, ps)
      BY <3>2, PurgeTyped DEF GivesBack
    <3>3. CASE \E p \in Port, i \in Txq : Takes(t, p, i)
      BY <3>3 DEF Takes, Typed
    <3> QED
      BY <1>19, <3>1, <3>2, <3>3 DEF ThreadMove, XpsMove
  <2> QED
    BY <2>1, <2>2 DEF Typed, MainKept, ConfKept
<1> QED
  BY <1>1, <1>2, <1>3, <1>4, <1>5, <1>6, <1>7, <1>8, <1>9, <1>10, <1>11, <1>12, <1>13, <1>14,
     <1>15, <1>16, <1>17, <1>18, <1>19, NextCases

(* Every step keeps the cores without a thread blank.                      *)
LEMMA BlankStep ==
  ASSUME Typed, Blank, OwnIds, Counted, Signals, Next
  PROVE  Blank'
<1>1. CASE Idle
  BY <1>1, Members DEF Blank, Idle, AllKept, BlankOf, SameLists
<1>2. ASSUME NEW p \in Port, AddPort(p)
      PROVE  Blank'
  BY <1>2, Members DEF Blank, AddPort, mainVars, confVars, portVars, schedVars, BlankOf, SameLists
<1>3. ASSUME NEW p \in Port, DelPort(p)
      PROVE  Blank'
  BY <1>3, Members DEF Blank, DelPort, mainVars, confVars, portVars, schedVars, BlankOf, SameLists
<1>4. ASSUME NEW t \in Thread, BumpSeq(t)
      PROVE  Blank'
  BY <1>4, BumpSeqEffect, Members
     DEF Blank, BumpSeq, SameFlags, mainVars, confVars, portVars, schedVars, BlankOf, SameLists
<1>5. CASE StoreReload
  BY <1>5, StoreReloadEffect, Members
     DEF Blank, StoreReload, mainVars, confVars, portVars, schedVars, BlankOf, SameLists,
         Signals, Bumped
<1>6. CASE ReloadNonPmd
  BY <1>6, ReloadNonPmdEffect, Members
     DEF Blank, ReloadNonPmd, mainVars, confVars, portVars, schedVars, BlankOf, SameLists
<1>7. ASSUME NEW r, NEW k, Waited(r, k)
      PROVE  Blank'
  BY <1>7, AwaitEffect, AwaitKeeps, Members DEF Blank, Waited, Waits, ConfKept, BlankOf, SameLists
<1>8. CASE CheckThreads
  BY <1>8, CheckThreadsEffect, Members
     DEF Blank, CheckThreads, mainVars, confVars, portVars, schedVars, BlankOf, SameLists, Live
<1>9. ASSUME NEW t \in Core, DelPmd(t)
      PROVE  Blank'
  <2>1. ASSUME NEW u \in Thread, u = t
        PROVE  BlankOf(u)'
    BY <2>1, <1>9, CoreIsThread, DelPmdEffect, Members
       DEF DelPmd, mainVars, confVars, portVars, schedVars, Blank, BlankOf, SameLists
  <2>2. ASSUME NEW u \in Thread, u # t
        PROVE  BlankOf(u)'
    BY <2>2, <1>9, CoreIsThread, DelPmdEffect, Members
       DEF DelPmd, mainVars, confVars, portVars, schedVars, Blank, BlankOf, SameLists
  <2> QED
    BY <2>1, <2>2 DEF Blank
<1>10. ASSUME NEW t \in Core, JoinPmd(t)
      PROVE  Blank'
  <2>1. ASSUME NEW u \in Thread, u = t
        PROVE  BlankOf(u)'
    BY <2>1, <1>10, CoreIsThread, JoinPmdEffect, Members
       DEF JoinPmd, Others, mainVars, confVars, portVars, schedVars, Blank, BlankOf, SameLists
  <2>2. ASSUME NEW u \in Thread, u # t
        PROVE  BlankOf(u)'
    BY <2>2, <1>10, CoreIsThread, JoinPmdEffect, Members
       DEF JoinPmd, Others, mainVars, confVars, portVars, schedVars, Blank, BlankOf, SameLists
  <2> QED
    BY <2>1, <2>2 DEF Blank
<1>11. CASE DeleteDone \/ ReconfigureDone \/ FillStart \/ FillTxStart \/ FillDone \/ Finish
  BY <1>11, Members
     DEF DeleteDone, mainVars, confVars, portVars, schedVars, ReconfigureDone, FillStart, FillTxStart,
         FillDone, Finish, Blank, BlankOf, SameLists
<1>12. CASE CreatePmds
  BY <1>12, CreatePmdsEffect, Members
     DEF Blank, CreatePmds, mainVars, confVars, portVars, schedVars, BlankOf, SameLists, Typed,
         Wanted, Thread
<1>13. CASE RemoveStale
  BY <1>13, RemoveStaleEffect, ListsKeep, Members DEF Blank, ConfKept, BlankOf, SameLists
<1>14. ASSUME NEW p \in Port, Reconfigure(p)
      PROVE  Blank'
  BY <1>14, Members
     DEF Blank, Reconfigure, mainVars, confVars, portVars, schedVars, BlankOf, SameLists
<1>15. CASE Placing
  BY <1>15, Members DEF Blank, Placing, AllKept, BlankOf, SameLists
<1>16. CASE Comply
  BY <1>16, ComplyEffect, ListsKeep, Members DEF Blank, ConfKept, BlankOf, SameLists
<1>17. ASSUME NEW t \in Thread, Fill(t)
      PROVE  Blank'
  BY <1>17, FillEffect, ListsKeep, Members DEF Blank, ConfKept, BlankOf, SameLists
<1>18. ASSUME NEW t \in Thread, ThreadMove(t)
      PROVE  Blank'
  <2>1. Others(t) /\ MainKept
    BY <1>18 DEF ThreadMove
  <2>2. ASSUME NEW u \in Thread, u = t
        PROVE  BlankOf(u)'
    BY <2>1, <2>2, <1>18, Members
       DEF ThreadMove, Blank, BlankOf, SameLists, Awake, Loads, TakesId, DropsId, Wakes,
           Answers, Ends, Sending, SameUse, SameXps, SameId, MainKept, ConfKept
  <2>3. ASSUME NEW u \in Thread, u # t
        PROVE  BlankOf(u)'
    BY <2>1, <2>3, Members DEF Others, SameLists, MainKept, ConfKept, Blank, BlankOf
  <2> QED
    BY <2>2, <2>3 DEF Blank
<1> QED
  BY <1>1, <1>2, <1>3, <1>4, <1>5, <1>6, <1>7, <1>8, <1>9, <1>10, <1>11, <1>12, <1>13, <1>14,
     <1>15, <1>16, <1>17, <1>18, NextCases

(* Every step keeps the threads to do within those asked.                  *)
LEMMA AskedStep ==
  ASSUME Typed, Blank, OwnIds, Counted, Signals, Handover, Next
  PROVE  Asked'
<1>1. CASE Idle \/ Placing
  BY <1>1, Members DEF Idle, AllKept, Placing, Signals, Asked, Bumped, Reloads, NeedReload
<1>2. ASSUME NEW p \in Port, AddPort(p)
      PROVE  Asked'
  BY <1>2, Members
     DEF AddPort, mainVars, confVars, portVars, schedVars, Signals, Asked, Bumped, Reloads,
         NeedReload
<1>3. ASSUME NEW p \in Port, DelPort(p)
      PROVE  Asked'
  BY <1>3, Members
     DEF DelPort, mainVars, confVars, portVars, schedVars, Signals, Asked, Bumped, Reloads,
         NeedReload
<1>4. ASSUME NEW t \in Thread, BumpSeq(t)
      PROVE  Asked'
  BY <1>4, BumpSeqEffect, Members
     DEF BumpSeq, SameFlags, mainVars, confVars, portVars, schedVars, Signals, Asked, Bumped,
         Reloads, NeedReload
<1>5. CASE StoreReload
  BY <1>5, StoreReloadEffect, Members
     DEF StoreReload, mainVars, confVars, portVars, schedVars, Signals, Asked, Bumped, Reloads,
         NeedReload
<1>6. CASE ReloadNonPmd
  BY <1>6, ReloadNonPmdEffect, Members
     DEF ReloadNonPmd, mainVars, confVars, portVars, schedVars, Signals, Asked, Bumped, Reloads,
         NeedReload
<1>7. ASSUME NEW r, NEW k, Waited(r, k)
      PROVE  Asked'
  BY <1>7, AwaitEffect, AwaitKeeps, Members
     DEF Waited, Waits, ConfKept, Signals, Asked, Bumped, Reloads, NeedReload
<1>8. CASE CheckThreads
  BY <1>8, CheckThreadsEffect, Members
     DEF CheckThreads, mainVars, confVars, portVars, schedVars, Signals, Asked, Bumped, Reloads,
         NeedReload, Live, Unwanted
<1>9. ASSUME NEW t \in Core, DelPmd(t)
      PROVE  Asked'
  BY <1>9, CoreIsThread, DelPmdEffect, Members
     DEF DelPmd, mainVars, confVars, portVars, schedVars, Signals, Asked, Bumped, Reloads,
         NeedReload, Live
<1>10. ASSUME NEW t \in Core, JoinPmd(t)
      PROVE  Asked'
  BY <1>10, CoreIsThread, JoinPmdEffect, Members
     DEF JoinPmd, Others, mainVars, confVars, portVars, schedVars, Signals, Asked, Bumped,
         Reloads, NeedReload
<1>11. CASE DeleteDone \/ ReconfigureDone \/ FillStart \/ FillTxStart \/ FillDone \/ Finish
  BY <1>11, Members
     DEF DeleteDone, mainVars, confVars, portVars, schedVars, ReconfigureDone, FillStart, FillTxStart,
         FillDone, Finish, Signals, Asked, Bumped, Reloads, NeedReload
<1>12. CASE CreatePmds
  BY <1>12, CreatePmdsEffect, Members
     DEF CreatePmds, mainVars, confVars, portVars, schedVars, Signals, Asked, Bumped, Reloads,
         NeedReload
<1>13. CASE RemoveStale
  BY <1>13, RemoveStaleEffect, ListsKeep, Members
     DEF ConfKept, Signals, Asked, Bumped, Reloads, NeedReload
<1>14. ASSUME NEW p \in Port, Reconfigure(p)
      PROVE  Asked'
  BY <1>14, Members
     DEF Reconfigure, mainVars, confVars, portVars, schedVars, Signals, Asked, Bumped, Reloads,
         NeedReload
<1>15. CASE Comply
  BY <1>15, ComplyEffect, ListsKeep, Members
     DEF ConfKept, Signals, Asked, Bumped, Reloads, NeedReload
<1>16. ASSUME NEW t \in Thread, Fill(t)
      PROVE  Asked'
  BY <1>16, FillEffect, ListsKeep, Members DEF ConfKept, Signals, Asked, Bumped, Reloads, NeedReload
<1>17. ASSUME NEW t \in Thread, ThreadMove(t)
      PROVE  Asked'
  <2>1. MainKept /\ \A u \in Thread : sh'[u].need_reload = sh[u].need_reload
    BY <1>17
       DEF ThreadMove, Others, Loads, TakesId, DropsId, Wakes, Answers, Ends, Sending, SameUse,
           SameXps, SameId
  <2> QED
    BY <2>1, Members DEF MainKept, Signals, Asked, Reloads
<1> QED
  BY <1>1, <1>2, <1>3, <1>4, <1>5, <1>6, <1>7, <1>8, <1>9, <1>10, <1>11, <1>12, <1>13, <1>14,
     <1>15, <1>16, <1>17, NextCases

(* Every step keeps the thread in between the steps of its signal.         *)
LEMMA BumpedStep ==
  ASSUME Typed, Blank, OwnIds, Counted, Signals, Handover, Next
  PROVE  Bumped'
<1>1. CASE Idle \/ Placing
  BY <1>1, Members DEF Idle, AllKept, Placing, Signals, Asked, Bumped, Reloads
<1>2. ASSUME NEW p \in Port, AddPort(p)
      PROVE  Bumped'
  BY <1>2, Members
     DEF AddPort, mainVars, confVars, portVars, schedVars, Signals, Asked, Bumped, Reloads
<1>3. ASSUME NEW p \in Port, DelPort(p)
      PROVE  Bumped'
  BY <1>3, Members
     DEF DelPort, mainVars, confVars, portVars, schedVars, Signals, Asked, Bumped, Reloads
<1>4. ASSUME NEW t \in Thread, BumpSeq(t)
      PROVE  Bumped'
  BY <1>4, BumpSeqEffect, Members
     DEF BumpSeq, SameFlags, mainVars, confVars, portVars, schedVars, Signals, Asked, Bumped,
         Reloads, FlagsOf
<1>5. CASE StoreReload
  BY <1>5, StoreReloadEffect, Members
     DEF StoreReload, mainVars, confVars, portVars, schedVars, Signals, Asked, Bumped, Reloads
<1>6. CASE ReloadNonPmd
  BY <1>6, ReloadNonPmdEffect, Members
     DEF ReloadNonPmd, mainVars, confVars, portVars, schedVars, Signals, Asked, Bumped, Reloads
<1>7. ASSUME NEW r, NEW k, Waited(r, k)
      PROVE  Bumped'
  BY <1>7, AwaitEffect, AwaitKeeps, Members
     DEF Waited, Waits, ConfKept, Signals, Asked, Bumped, Reloads
<1>8. CASE CheckThreads
  BY <1>8, CheckThreadsEffect, Members
     DEF CheckThreads, mainVars, confVars, portVars, schedVars, Signals, Asked, Bumped, Reloads
<1>9. ASSUME NEW t \in Core, DelPmd(t)
      PROVE  Bumped'
  <2>1. t \in todo /\ bumped' = t /\ todo' = todo /\ pc' = "join" /\ t # NonPmd
    BY <1>9, Members DEF DelPmd
  <2>2. ~sh'[t].reload /\ sh'[t].exit
    BY <1>9, <2>1, CoreIsThread, DelPmdEffect DEF Signals, FlagsOf
  <2> QED
    BY <2>1, <2>2 DEF Bumped
<1>10. ASSUME NEW t \in Core, JoinPmd(t)
      PROVE  Bumped'
  BY <1>10, CoreIsThread, JoinPmdEffect, Members
     DEF JoinPmd, Others, mainVars, confVars, portVars, schedVars, Signals, Asked, Bumped,
         Reloads
<1>11. CASE DeleteDone \/ ReconfigureDone \/ FillStart \/ FillTxStart \/ FillDone \/ Finish
  BY <1>11, Members
     DEF DeleteDone, mainVars, confVars, portVars, schedVars, ReconfigureDone, FillStart, FillTxStart,
         FillDone, Finish, Signals, Asked, Bumped, Reloads
<1>12. CASE CreatePmds
  BY <1>12, CreatePmdsEffect, Members
     DEF CreatePmds, mainVars, confVars, portVars, schedVars, Signals, Asked, Bumped, Reloads
<1>13. CASE RemoveStale
  BY <1>13, RemoveStaleEffect, ListsKeep, Members DEF ConfKept, Signals, Asked, Bumped, Reloads
<1>14. ASSUME NEW p \in Port, Reconfigure(p)
      PROVE  Bumped'
  BY <1>14, Members
     DEF Reconfigure, mainVars, confVars, portVars, schedVars, Signals, Asked, Bumped, Reloads
<1>15. CASE Comply
  BY <1>15, ComplyEffect, ListsKeep, Members DEF ConfKept, Signals, Asked, Bumped, Reloads
<1>16. ASSUME NEW t \in Thread, Fill(t)
      PROVE  Bumped'
  BY <1>16, FillEffect, ListsKeep, Members DEF ConfKept, Signals, Asked, Bumped, Reloads
<1>17. ASSUME NEW t \in Thread, ThreadMove(t)
      PROVE  Bumped'
  <2>1. /\ MainKept
        /\ \A u \in Thread : (sh'[u].reload => sh[u].reload) /\ sh'[u].exit = sh[u].exit
    BY <1>17
       DEF ThreadMove, Others, Loads, TakesId, DropsId, Wakes, Answers, Ends, Sending, SameUse,
           SameXps, SameId
  <2> QED
    BY <2>1, Members DEF MainKept, Signals, Bumped
<1> QED
  BY <1>1, <1>2, <1>3, <1>4, <1>5, <1>6, <1>7, <1>8, <1>9, <1>10, <1>11, <1>12, <1>13, <1>14,
     <1>15, <1>16, <1>17, NextCases

Flags == \A t \in Thread : FlagsOf(t)

(* Every step keeps the meaning of the flags.                              *)
LEMMA FlagsStep ==
  ASSUME Typed, Blank, OwnIds, Counted, Signals, Handover, Next
  PROVE  Flags'
<1>1. CASE Idle
  BY <1>1, Members DEF Flags, Idle, AllKept, Signals, FlagsOf, Reloads
<1>2. ASSUME NEW p \in Port, AddPort(p)
      PROVE  Flags'
  BY <1>2, Members
     DEF Flags, AddPort, mainVars, confVars, portVars, schedVars, Signals, FlagsOf, Reloads
<1>3. ASSUME NEW p \in Port, DelPort(p)
      PROVE  Flags'
  BY <1>3, Members
     DEF Flags, DelPort, mainVars, confVars, portVars, schedVars, Signals, FlagsOf, Reloads
<1>4. ASSUME NEW t \in Thread, BumpSeq(t)
      PROVE  Flags'
  BY <1>4, BumpSeqEffect, Members
     DEF Flags, BumpSeq, SameFlags, mainVars, confVars, portVars, schedVars, Signals, FlagsOf,
         Reloads
<1>5. CASE StoreReload
  BY <1>5, StoreReloadEffect, Members
     DEF Flags, StoreReload, mainVars, confVars, portVars, schedVars, Signals, FlagsOf, Reloads,
         Asked, Bumped
<1>6. CASE ReloadNonPmd
  BY <1>6, ReloadNonPmdEffect, Members
     DEF Flags, ReloadNonPmd, mainVars, confVars, portVars, schedVars, Signals, FlagsOf, Reloads
<1>7. ASSUME NEW r, NEW k, Waited(r, k)
      PROVE  Flags'
  <2>1. th' = th /\ r \in Reloads /\ Await(r, k) /\ pc = r
    BY <1>7, AwaitKeeps DEF Waited, Waits, Reloads
  <2>2. \A u \in Thread : ~sh[u].reload /\ sh'[u].reload = sh[u].reload /\ sh'[u].exit = sh[u].exit
    BY <2>1, AwaitAll, AwaitEffect
  <2> QED
    BY <2>1, <2>2 DEF Flags, Signals, FlagsOf, Reloads
<1>8. CASE CheckThreads
  BY <1>8, CheckThreadsEffect, Members
     DEF Flags, CheckThreads, mainVars, confVars, portVars, schedVars, Signals, FlagsOf,
         Reloads, Asked
<1>9. ASSUME NEW t \in Core, DelPmd(t)
      PROVE  Flags'
  BY <1>9, CoreIsThread, DelPmdEffect, Members
     DEF Flags, DelPmd, mainVars, confVars, portVars, schedVars, Signals, FlagsOf, Reloads
<1>10. ASSUME NEW t \in Core, JoinPmd(t)
      PROVE  Flags'
  <2>1. ASSUME NEW u \in Thread, u = t
        PROVE  FlagsOf(u)'
    BY <2>1, <1>10, CoreIsThread, JoinPmdEffect, Members
       DEF JoinPmd, Others, mainVars, confVars, portVars, schedVars, Signals, FlagsOf, Reloads,
           OneExit
  <2>2. ASSUME NEW u \in Thread, u # t
        PROVE  FlagsOf(u)'
    BY <2>2, <1>10, CoreIsThread, JoinPmdEffect, Members
       DEF JoinPmd, Others, mainVars, confVars, portVars, schedVars, Signals, FlagsOf, Reloads,
           OneExit
  <2> QED
    BY <2>1, <2>2 DEF Flags
<1>11. CASE DeleteDone \/ ReconfigureDone \/ FillStart \/ FillTxStart \/ FillDone \/ Finish
  BY <1>11, Members
     DEF DeleteDone, mainVars, confVars, portVars, schedVars, ReconfigureDone, FillStart, FillTxStart,
         FillDone, Finish, Signals, FlagsOf, Reloads, Flags, Asked
<1>12. CASE CreatePmds
  BY <1>12, CreatePmdsEffect, Members
     DEF Flags, CreatePmds, mainVars, confVars, portVars, schedVars, Signals, FlagsOf, Reloads,
         Blank, BlankOf
<1>13. CASE RemoveStale
  BY <1>13, RemoveStaleEffect, ListsKeep, Members
     DEF Flags, ConfKept, Signals, FlagsOf, Reloads, Asked
<1>14. ASSUME NEW p \in Port, Reconfigure(p)
      PROVE  Flags'
  BY <1>14, Members
     DEF Flags, Reconfigure, mainVars, confVars, portVars, schedVars, Signals, FlagsOf, Reloads
<1>15. CASE Placing
  BY <1>15, Members DEF Flags, Placing, AllKept, Signals, FlagsOf, Reloads
<1>16. CASE Comply
  BY <1>16, ComplyEffect, ListsKeep, Members DEF Flags, ConfKept, Signals, FlagsOf, Reloads, Asked
<1>17. ASSUME NEW t \in Thread, Fill(t)
      PROVE  Flags'
  BY <1>17, FillEffect, ListsKeep, Members DEF Flags, ConfKept, Signals, FlagsOf, Reloads
<1>18. ASSUME NEW t \in Thread, ThreadMove(t)
      PROVE  Flags'
  <2>1. Others(t) /\ MainKept
    BY <1>18 DEF ThreadMove
  <2>2. ASSUME NEW u \in Thread, u = t
        PROVE  FlagsOf(u)'
    BY <2>1, <2>2, <1>18, Members
       DEF ThreadMove, Signals, FlagsOf, Reloads, Awake, Blank, BlankOf, Loads, TakesId,
           DropsId, Wakes, Answers, Ends, Sending, SameUse, SameXps, SameId, SameLists,
           MainKept, ConfKept
  <2>3. ASSUME NEW u \in Thread, u # t
        PROVE  FlagsOf(u)'
    BY <2>1, <2>3, Members DEF Others, SameLists, MainKept, ConfKept, Signals, FlagsOf, Reloads
  <2> QED
    BY <2>2, <2>3 DEF Flags
<1> QED
  BY <1>1, <1>2, <1>3, <1>4, <1>5, <1>6, <1>7, <1>8, <1>9, <1>10, <1>11, <1>12, <1>13, <1>14,
     <1>15, <1>16, <1>17, <1>18, NextCases

(* Every step asks one thread at a time to end.                            *)
LEMMA OneExitStep ==
  ASSUME Typed, Blank, OwnIds, Counted, Signals, Handover, Next
  PROVE  OneExit'
<1>1. CASE Idle \/ Placing
  BY <1>1, Members DEF Idle, AllKept, Placing, Signals, OneExit
<1>2. ASSUME NEW p \in Port, AddPort(p)
      PROVE  OneExit'
  BY <1>2, Members DEF AddPort, mainVars, confVars, portVars, schedVars, Signals, OneExit
<1>3. ASSUME NEW p \in Port, DelPort(p)
      PROVE  OneExit'
  BY <1>3, Members DEF DelPort, mainVars, confVars, portVars, schedVars, Signals, OneExit
<1>4. ASSUME NEW t \in Thread, BumpSeq(t)
      PROVE  OneExit'
  BY <1>4, BumpSeqEffect, Members
     DEF BumpSeq, SameFlags, mainVars, confVars, portVars, schedVars, Signals, OneExit
<1>5. CASE StoreReload
  BY <1>5, StoreReloadEffect, Members
     DEF StoreReload, mainVars, confVars, portVars, schedVars, Signals, OneExit
<1>6. CASE ReloadNonPmd
  BY <1>6, ReloadNonPmdEffect, Members
     DEF ReloadNonPmd, mainVars, confVars, portVars, schedVars, Signals, OneExit
<1>7. ASSUME NEW r, NEW k, Waited(r, k)
      PROVE  OneExit'
  BY <1>7, AwaitEffect, AwaitKeeps, Members DEF Waited, Waits, ConfKept, Signals, OneExit
<1>8. CASE CheckThreads
  BY <1>8, CheckThreadsEffect, Members
     DEF CheckThreads, mainVars, confVars, portVars, schedVars, Signals, OneExit
<1>9. ASSUME NEW t \in Core, DelPmd(t)
      PROVE  OneExit'
  <2>1. \A u \in Thread : sh'[u].exit => u = t
    BY <1>9, CoreIsThread, DelPmdEffect DEF DelPmd, Signals, FlagsOf
  <2> QED
    BY <2>1 DEF OneExit
<1>10. ASSUME NEW t \in Core, JoinPmd(t)
      PROVE  OneExit'
  <2>1. \A u \in Thread : sh'[u].exit => sh[u].exit
    BY <1>10, CoreIsThread, JoinPmdEffect DEF Others
  <2> QED
    BY <2>1 DEF Signals, OneExit
<1>11. CASE DeleteDone \/ ReconfigureDone \/ FillStart \/ FillTxStart \/ FillDone \/ Finish
  BY <1>11, Members
     DEF DeleteDone, mainVars, confVars, portVars, schedVars, ReconfigureDone, FillStart, FillTxStart,
         FillDone, Finish, Signals, OneExit
<1>12. CASE CreatePmds
  BY <1>12, CreatePmdsEffect, Members
     DEF CreatePmds, mainVars, confVars, portVars, schedVars, Signals, OneExit
<1>13. CASE RemoveStale
  BY <1>13, RemoveStaleEffect, ListsKeep, Members DEF ConfKept, Signals, OneExit
<1>14. ASSUME NEW p \in Port, Reconfigure(p)
      PROVE  OneExit'
  BY <1>14, Members DEF Reconfigure, mainVars, confVars, portVars, schedVars, Signals, OneExit
<1>15. CASE Comply
  BY <1>15, ComplyEffect, ListsKeep, Members DEF ConfKept, Signals, OneExit
<1>16. ASSUME NEW t \in Thread, Fill(t)
      PROVE  OneExit'
  BY <1>16, FillEffect, ListsKeep, Members DEF ConfKept, Signals, OneExit
<1>17. ASSUME NEW t \in Thread, ThreadMove(t)
      PROVE  OneExit'
  BY <1>17, Members
     DEF ThreadMove, Signals, OneExit, Others, Loads, TakesId, DropsId, Wakes, Answers, Ends,
         Sending, SameUse, SameXps, SameId
<1> QED
  BY <1>1, <1>2, <1>3, <1>4, <1>5, <1>6, <1>7, <1>8, <1>9, <1>10, <1>11, <1>12, <1>13, <1>14,
     <1>15, <1>16, <1>17, NextCases

(* Every step keeps what a thread holds within its lists, or the thread is *)
(* still to reload.                                                        *)
LEMMA HandoverStep ==
  ASSUME Typed, Blank, OwnIds, Counted, Signals, Handover, Next
  PROVE  Handover'
<1>1. CASE Idle
  BY <1>1, Members DEF Handover, Idle, AllKept, HandedOver, Fresh, Pending, Reloads, SameLists
<1>2. ASSUME NEW p \in Port, AddPort(p)
      PROVE  Handover'
  BY <1>2, Members
     DEF Handover, AddPort, mainVars, confVars, portVars, schedVars, HandedOver, Fresh, Pending,
         Reloads, SameLists, Signals, Asked, Bumped, FlagsOf
<1>3. ASSUME NEW p \in Port, DelPort(p)
      PROVE  Handover'
  BY <1>3, Members
     DEF Handover, DelPort, mainVars, confVars, portVars, schedVars, HandedOver, Fresh, Pending,
         Reloads, SameLists, Signals, Asked, Bumped, FlagsOf
<1>4. ASSUME NEW t \in Thread, BumpSeq(t)
      PROVE  Handover'
  BY <1>4, BumpSeqEffect, Members
     DEF Handover, BumpSeq, SameFlags, mainVars, confVars, portVars, schedVars, HandedOver,
         Fresh, Pending, Reloads, SameLists
<1>5. CASE StoreReload
  BY <1>5, StoreReloadEffect, Members
     DEF Handover, StoreReload, mainVars, confVars, portVars, schedVars, HandedOver, Fresh,
         Pending, Reloads, SameLists, Signals, Asked, Bumped, FlagsOf
<1>6. CASE ReloadNonPmd
  BY <1>6, ReloadNonPmdEffect, Members
     DEF Handover, ReloadNonPmd, mainVars, confVars, portVars, schedVars, HandedOver, Fresh,
         Pending, Reloads, SameLists, Signals, Asked, Bumped, FlagsOf, Blank, BlankOf
<1>7. ASSUME NEW r, NEW k, Waited(r, k)
      PROVE  Handover'
  <2>1. th' = th /\ r \in Reloads /\ Await(r, k) /\ pc' = k /\ k \notin Reloads
    BY <1>7, AwaitKeeps DEF Waited, Waits, Reloads
  <2>2. \A u \in Thread : Fresh(u) /\ th[u].pc # "loaded"
    BY <2>1, AwaitAll
  <2>3. \A u \in Thread : SameLists(u) /\ ~sh'[u].need_reload
    BY <2>1, AwaitEffect
  <2> QED
    BY <2>1, <2>2, <2>3 DEF Handover, HandedOver, Fresh, SameLists
<1>8. CASE CheckThreads
  BY <1>8, CheckThreadsEffect, Members
     DEF Handover, CheckThreads, mainVars, confVars, portVars, schedVars, HandedOver, Fresh,
         Pending, Reloads, SameLists
<1>9. ASSUME NEW t \in Core, DelPmd(t)
      PROVE  Handover'
  <2>1. /\ pc = "delete" /\ pc' = "join"
        /\ \A u \in Thread : /\ th'[u] = th[u] /\ SameLists(u) /\ sh'[u].need_reload = sh[u].need_reload
                            /\ (sh[u].reload => sh'[u].reload)
    BY <1>9, CoreIsThread, DelPmdEffect DEF DelPmd
  <2> QED
    BY <2>1 DEF Handover, HandedOver, Fresh, Pending, Reloads, SameLists
<1>10. ASSUME NEW t \in Core, JoinPmd(t)
      PROVE  Handover'
  <2>1. ASSUME NEW u \in Thread, u = t
        PROVE  HandedOver(u)'
    BY <2>1, <1>10, CoreIsThread, JoinPmdEffect, Members
       DEF JoinPmd, Others, mainVars, confVars, portVars, schedVars, Handover, HandedOver,
           Fresh, Pending, Reloads, SameLists, Signals, Asked, Bumped, FlagsOf, Blank, BlankOf
  <2>2. ASSUME NEW u \in Thread, u # t
        PROVE  HandedOver(u)'
    BY <2>2, <1>10, CoreIsThread, JoinPmdEffect, Members
       DEF JoinPmd, Others, mainVars, confVars, portVars, schedVars, Handover, HandedOver,
           Fresh, Pending, Reloads, SameLists, Signals, Asked, Bumped, FlagsOf, Blank, BlankOf
  <2> QED
    BY <2>1, <2>2 DEF Handover
<1>11. CASE DeleteDone \/ ReconfigureDone \/ FillStart \/ FillTxStart \/ FillDone \/ Finish
  BY <1>11, Members
     DEF DeleteDone, mainVars, confVars, portVars, schedVars, ReconfigureDone, FillStart, FillTxStart,
         FillDone, Finish, Handover, HandedOver, Fresh, Pending, Reloads, SameLists, Signals,
         Asked, Bumped, FlagsOf, NeedReload, Blank, BlankOf
<1>12. CASE CreatePmds
  BY <1>12, CreatePmdsEffect, Members
     DEF Handover, CreatePmds, mainVars, confVars, portVars, schedVars, HandedOver, Fresh,
         Pending, Reloads, SameLists, Signals, Asked, Bumped, FlagsOf, Blank, BlankOf
<1>13. CASE RemoveStale
  <2> SUFFICES ASSUME NEW u \in Thread
               PROVE  HandedOver(u)'
    BY DEF Handover
  <2>1. pc = "stale" /\ pc' = "reload2" /\ th' = th /\ todo' = {t \in threads : sh'[t].need_reload}
    BY <1>13, ListsKeep
  <2>2. Fresh(u) /\ ~sh[u].need_reload /\ ~sh[u].reload /\ th[u].pc # "loaded"
    BY <2>1 DEF Handover, HandedOver, Pending, Signals, FlagsOf, Reloads
  <2>3. SameLists(u) \/ sh'[u].need_reload
    BY <1>13, RemoveStaleEffect
  <2>4. u \notin threads => SameLists(u)
    BY <1>13, RemoveStaleEffect DEF Blank, BlankOf
  <2>5. CASE SameLists(u)
    BY <2>1, <2>2, <2>5 DEF HandedOver, Fresh, SameLists, Reloads
  <2>6. CASE ~SameLists(u)
    BY <2>1, <2>2, <2>3, <2>4, <2>6 DEF HandedOver, Pending, Reloads
  <2> QED
    BY <2>5, <2>6
<1>14. ASSUME NEW p \in Port, Reconfigure(p)
      PROVE  Handover'
  BY <1>14, Members
     DEF Handover, Reconfigure, mainVars, confVars, portVars, schedVars, HandedOver, Fresh,
         Pending, Reloads, SameLists, Signals, Asked, Bumped, FlagsOf
<1>15. CASE Placing
  BY <1>15, Members DEF Handover, Placing, AllKept, HandedOver, Fresh, Pending, Reloads, SameLists
<1>16. CASE Comply
  <2> SUFFICES ASSUME NEW u \in Thread
               PROVE  HandedOver(u)'
    BY DEF Handover
  <2>1. pc = "comply" /\ pc' = "reload3" /\ th' = th /\ todo' = {t \in threads : sh'[t].need_reload}
    BY <1>16, ListsKeep
  <2>2. Fresh(u) /\ ~sh[u].need_reload /\ ~sh[u].reload /\ th[u].pc # "loaded"
    BY <2>1 DEF Handover, HandedOver, Pending, Signals, FlagsOf, Reloads
  <2>3. SameLists(u) \/ sh'[u].need_reload
    BY <1>16, ComplyEffect
  <2>4. u \notin threads => SameLists(u)
    BY <1>16, ComplyEffect DEF Blank, BlankOf
  <2>5. CASE SameLists(u)
    BY <2>1, <2>2, <2>5 DEF HandedOver, Fresh, SameLists, Reloads
  <2>6. CASE ~SameLists(u)
    BY <2>1, <2>2, <2>3, <2>4, <2>6 DEF HandedOver, Pending, Reloads
  <2> QED
    BY <2>5, <2>6
<1>17. ASSUME NEW t \in Thread, Fill(t)
      PROVE  Handover'
  BY <1>17, FillEffect, ListsKeep, Members
     DEF Handover, ConfKept, HandedOver, Fresh, Pending, Reloads, SameLists, Signals, Asked,
         Bumped, FlagsOf
<1>18. ASSUME NEW t \in Thread, ThreadMove(t)
      PROVE  Handover'
  <2>1. Others(t) /\ MainKept
    BY <1>18 DEF ThreadMove
  <2>2. ASSUME NEW u \in Thread, u = t
        PROVE  HandedOver(u)'
    BY <2>1, <2>2, <1>18, Members
       DEF ThreadMove, Handover, HandedOver, Fresh, Pending, Reloads, SameLists, Awake, Loads,
           TakesId, DropsId, Wakes, Answers, Ends, Sending, SameUse, SameXps, SameId, MainKept,
           ConfKept
  <2>3. ASSUME NEW u \in Thread, u # t
        PROVE  HandedOver(u)'
    BY <2>1, <2>3, Members
       DEF Others, SameLists, MainKept, ConfKept, Handover, HandedOver, Fresh, Pending, Reloads
  <2> QED
    BY <2>2, <2>3 DEF Handover
<1> QED
  BY <1>1, <1>2, <1>3, <1>4, <1>5, <1>6, <1>7, <1>8, <1>9, <1>10, <1>11, <1>12, <1>13, <1>14,
     <1>15, <1>16, <1>17, <1>18, NextCases

(* A step takes queues away, or the thread gets those scheduled for it.    *)
QueuesKept(t) == OwnedBy(t)' /\ (pc' \in {"fill", "filltx"} \/ Queues(t)' \subseteq Queues(t))
OwnersKept == \A t \in Thread : QueuesKept(t)

(* Every step keeps the lists to the owners of the queues.                 *)
LEMMA OwnersStep ==
  ASSUME Typed, Blank, OwnIds, Counted, Signals, Handover, OneOwner, Next
  PROVE  OwnersKept
<1>1. CASE Idle
  BY <1>1 DEF OwnersKept, Idle, AllKept, OneOwner, OwnedBy, Queues, QueuesKept, SameLists
<1>2. ASSUME NEW p \in Port, AddPort(p)
      PROVE  OwnersKept
  BY <1>2
     DEF OwnersKept, AddPort, mainVars, confVars, portVars, schedVars, OneOwner, OwnedBy,
         Queues, QueuesKept, SameLists
<1>3. ASSUME NEW p \in Port, DelPort(p)
      PROVE  OwnersKept
  BY <1>3
     DEF OwnersKept, DelPort, mainVars, confVars, portVars, schedVars, OneOwner, OwnedBy,
         Queues, QueuesKept, SameLists
<1>4. ASSUME NEW t \in Thread, BumpSeq(t)
      PROVE  OwnersKept
  BY <1>4, BumpSeqEffect
     DEF OwnersKept, BumpSeq, SameFlags, mainVars, confVars, portVars, schedVars, OneOwner,
         OwnedBy, Queues, QueuesKept, SameLists
<1>5. CASE StoreReload
  BY <1>5, StoreReloadEffect
     DEF OwnersKept, StoreReload, mainVars, confVars, portVars, schedVars, OneOwner, OwnedBy,
         Queues, QueuesKept, SameLists
<1>6. CASE ReloadNonPmd
  BY <1>6, ReloadNonPmdEffect
     DEF OwnersKept, ReloadNonPmd, mainVars, confVars, portVars, schedVars, OneOwner, OwnedBy,
         Queues, QueuesKept, SameLists
<1>7. ASSUME NEW r, NEW k, Waited(r, k)
      PROVE  OwnersKept
  <2>1. th' = th /\ rxq_pmd' = rxq_pmd /\ pc = r /\ pc' = k /\ r \in Reloads /\ Await(r, k)
    BY <1>7, AwaitKeeps DEF Waited, Waits, Reloads
  <2>2. \A u \in Thread : Fresh(u) /\ SameLists(u)
    BY <2>1, AwaitAll, AwaitEffect
  <2> QED
    BY <1>7, <2>1, <2>2
       DEF Waited, Waits, OwnersKept, QueuesKept, OneOwner, OwnedBy, Queues, Fresh, SameLists
<1>8. CASE CheckThreads
  BY <1>8, CheckThreadsEffect
     DEF OwnersKept, CheckThreads, mainVars, confVars, portVars, schedVars, OneOwner, OwnedBy,
         Queues, QueuesKept, SameLists
<1>9. ASSUME NEW t \in Core, DelPmd(t)
      PROVE  OwnersKept
  BY <1>9, CoreIsThread, DelPmdEffect
     DEF OwnersKept, DelPmd, mainVars, confVars, portVars, schedVars, OneOwner, OwnedBy, Queues,
         QueuesKept, SameLists
<1>10. ASSUME NEW t \in Core, JoinPmd(t)
      PROVE  OwnersKept
  <2>1. /\ t \in Thread /\ Others(t) /\ pc' = "delete"
        /\ sh'[t].poll_list = {} /\ th'[t].polled = {}
    BY <1>10, CoreIsThread, JoinPmdEffect DEF JoinPmd
  <2>2. ASSUME NEW u \in Thread
        PROVE  Queues(u)' \subseteq Queues(u)
    BY <2>1 DEF Others, Queues
  <2> QED
    BY <2>1, <2>2 DEF OwnersKept, QueuesKept, OwnedBy
<1>11. CASE DeleteDone \/ ReconfigureDone \/ FillStart \/ FillTxStart \/ FillDone \/ Finish
  BY <1>11
     DEF DeleteDone, mainVars, confVars, portVars, schedVars, ReconfigureDone, FillStart, FillTxStart,
         FillDone, Finish, OneOwner, OwnedBy, Queues, QueuesKept, SameLists, OwnersKept
<1>12. CASE CreatePmds
  BY <1>12, CreatePmdsEffect
     DEF OwnersKept, CreatePmds, mainVars, confVars, portVars, schedVars, OneOwner, OwnedBy,
         Queues, QueuesKept, SameLists
<1>13. CASE RemoveStale
  BY <1>13, RemoveStaleEffect, ListsKeep
     DEF OwnersKept, ConfKept, OneOwner, OwnedBy, Queues, QueuesKept, SameLists
<1>14. ASSUME NEW p \in Port, Reconfigure(p)
      PROVE  OwnersKept
  BY <1>14
     DEF OwnersKept, Reconfigure, mainVars, confVars, portVars, schedVars, OneOwner, OwnedBy,
         Queues, QueuesKept, SameLists
<1>15. CASE Placing
  BY <1>15 DEF OwnersKept, Placing, AllKept, OneOwner, OwnedBy, Queues, QueuesKept, SameLists
<1>16. CASE Comply
  BY <1>16, ComplyEffect, ListsKeep
     DEF OwnersKept, ConfKept, OneOwner, OwnedBy, Queues, QueuesKept, SameLists
<1>17. ASSUME NEW t \in Thread, Fill(t)
      PROVE  OwnersKept
  BY <1>17, FillEffect, ListsKeep
     DEF OwnersKept, ConfKept, OneOwner, OwnedBy, Queues, QueuesKept, SameLists, Typed
<1>18. ASSUME NEW t \in Thread, ThreadMove(t)
      PROVE  OwnersKept
  <2>1. Others(t) /\ MainKept
    BY <1>18 DEF ThreadMove
  <2>2. ASSUME NEW u \in Thread, u = t
        PROVE  QueuesKept(u)
    BY <2>1, <2>2, <1>18
       DEF ThreadMove, OneOwner, OwnedBy, Queues, QueuesKept, SameLists, Loads, TakesId,
           DropsId, Wakes, Answers, Ends, Sending, SameUse, SameXps, SameId, MainKept, ConfKept
  <2>3. ASSUME NEW u \in Thread, u # t
        PROVE  QueuesKept(u)
    BY <2>1, <2>3 DEF Others, SameLists, MainKept, ConfKept, OneOwner, OwnedBy, Queues, QueuesKept
  <2> QED
    BY <2>2, <2>3 DEF OwnersKept
<1> QED
  BY <1>1, <1>2, <1>3, <1>4, <1>5, <1>6, <1>7, <1>8, <1>9, <1>10, <1>11, <1>12, <1>13, <1>14,
     <1>15, <1>16, <1>17, <1>18, NextCases

(* Every step leaves a queue with one thread.                              *)
LEMMA OneOwnerStep ==
  ASSUME OneOwner, OwnersKept
  PROVE  OneOwner'
<1>1. \A t \in Thread : OwnedBy(t)'
  BY DEF OwnersKept, QueuesKept
<1>2. ASSUME NEW t \in Thread, NEW u \in Thread, t # u
      PROVE  Queues(t)' \cap Queues(u)' = {}
  <2>1. CASE pc' \in {"fill", "filltx"}
    <3>1. \A q \in Queues(t)' : rxq_pmd'[q] = t
      BY <1>1, <2>1 DEF OwnedBy, Queues
    <3>2. \A q \in Queues(u)' : rxq_pmd'[q] = u
      BY <1>1, <2>1 DEF OwnedBy, Queues
    <3> QED
      BY <1>2, <3>1, <3>2
  <2>2. CASE pc' \notin {"fill", "filltx"}
    BY <1>2, <2>2 DEF OwnersKept, QueuesKept, OneOwner
  <2> QED
    BY <2>1, <2>2
<1> QED
  BY <1>1, <1>2 DEF OneOwner

(* The ports of a thread's lists and of what it uses: only Fill adds some, *)
(* and a thread begins to use what is in its lists.                        *)
PortsDown(t) ==
  /\ Listed(t)' \subseteq Listed(t) \cup (IF pc \in {"fill", "filltx"} THEN ports ELSE {})
  /\ Uses(t)' \subseteq Uses(t) \cup Listed(t)
AllDown == \A t \in Thread : PortsDown(t)

(* When the ports of a thread's lists and of its copies do not grow.       *)
LEMMA DownWhen ==
  ASSUME NEW t \in Thread
  PROVE  /\ /\ sh'[t].poll_list \subseteq sh[t].poll_list
            /\ sh'[t].tx_ports \subseteq sh[t].tx_ports
            => Listed(t)' \subseteq Listed(t)
         /\ /\ th'[t].polled \subseteq th[t].polled \cup sh[t].poll_list
            /\ th'[t].sending \subseteq th[t].sending \cup sh[t].tx_ports
            => Uses(t)' \subseteq Uses(t) \cup Listed(t)
         /\ Fresh(t) => Uses(t) \subseteq Listed(t)
BY DEF Listed, Uses, PortsOf, Fresh

(* Every step but Fill keeps them from growing.                            *)
LEMMA DownStep ==
  ASSUME Typed, Blank, OwnIds, Counted, Signals, Handover, PortsKept, Next
  PROVE  AllDown
<1>1. CASE Calm
  BY <1>1, Members, DownWhen DEF AllDown, Calm, PortsDown, SameLists
<1>2. CASE ReloadNonPmd
  BY <1>2, ReloadNonPmdEffect, Members, DownWhen
     DEF AllDown, ReloadNonPmd, mainVars, confVars, portVars, schedVars, PortsDown, SameLists
<1>3. ASSUME NEW t \in Core, JoinPmd(t)
      PROVE  AllDown
  BY <1>3, CoreIsThread, JoinPmdEffect, Members, DownWhen
     DEF AllDown, JoinPmd, Others, mainVars, confVars, portVars, schedVars, PortsDown, SameLists
<1>4. CASE CreatePmds
  BY <1>4, CreatePmdsEffect, Members, DownWhen
     DEF AllDown, CreatePmds, mainVars, confVars, portVars, schedVars, PortsDown, SameLists,
         Blank, BlankOf
<1>5. CASE RemoveStale
  BY <1>5, RemoveStaleEffect, ListsKeep, Members, DownWhen
     DEF AllDown, ConfKept, PortsDown, SameLists
<1>6. CASE Comply
  BY <1>6, ComplyEffect, ListsKeep, Members, DownWhen DEF AllDown, ConfKept, PortsDown, SameLists
<1>7. ASSUME NEW t \in Thread, Fill(t)
      PROVE  AllDown
  <2>1. ASSUME NEW u \in Thread, u = t
        PROVE  PortsDown(u)
    <3>1. /\ sh'[u].poll_list \in {sh[u].poll_list,
                                    sh[u].poll_list \cup {q \in RxqOf(ports) : rxq_pmd[q] = t}}
          /\ sh'[u].tx_ports \subseteq sh[u].tx_ports \cup ports /\ th' = th /\ pc \in {"fill", "filltx"}
      BY <2>1, <1>7, FillEffect, ListsKeep
    <3>2. Listed(u)' \subseteq Listed(u) \cup ports
      BY <3>1 DEF Listed, PortsOf, RxqOf
    <3> QED
      BY <3>1, <3>2 DEF PortsDown, Uses
  <2>2. ASSUME NEW u \in Thread, u # t
        PROVE  PortsDown(u)
    BY <2>2, <1>7, FillEffect, ListsKeep, DownWhen DEF PortsDown
  <2> QED
    BY <2>1, <2>2 DEF AllDown
<1>8. ASSUME NEW t \in Thread, ThreadMove(t)
      PROVE  AllDown
  <2>1. ASSUME NEW u \in Thread
        PROVE  /\ sh'[u].poll_list = sh[u].poll_list /\ sh'[u].tx_ports = sh[u].tx_ports
               /\ th'[u].polled \subseteq th[u].polled \cup sh[u].poll_list
               /\ th'[u].sending \subseteq th[u].sending \cup sh[u].tx_ports
    BY <1>8
       DEF ThreadMove, Others, SameLists, Loads, TakesId, DropsId, Wakes, Answers, Ends,
           Sending, SameUse, SameXps, SameId
  <2> QED
    BY <2>1, DownWhen DEF AllDown, PortsDown
<1> QED
  BY <1>1, <1>2, <1>3, <1>4, <1>5, <1>6, <1>7, <1>8, ListCases

(* Every step keeps the ports to do to the phases that do them.            *)
LEMMA SettledStep ==
  ASSUME Typed, Blank, OwnIds, Counted, Signals, Handover, PortsKept, Next
  PROVE  Settled'
<1>1. CASE Idle \/ Placing
  BY <1>1 DEF Idle, AllKept, Placing, Settled, PortsKept
<1>2. ASSUME NEW p \in Port, AddPort(p)
      PROVE  Settled'
  BY <1>2, CoreAssumption, ReloadAssumption, Members
     DEF AddPort, mainVars, confVars, portVars, schedVars, Settled, PortsKept, Typed
<1>3. ASSUME NEW p \in Port, DelPort(p)
      PROVE  Settled'
  BY <1>3, CoreAssumption, ReloadAssumption, Members
     DEF DelPort, mainVars, confVars, portVars, schedVars, Settled, PortsKept, Typed
<1>4. ASSUME NEW t \in Thread, BumpSeq(t)
      PROVE  Settled'
  BY <1>4, BumpSeqEffect, Members
     DEF BumpSeq, SameFlags, mainVars, confVars, portVars, schedVars, Settled, PortsKept, Asked,
         Signals, Reloads
<1>5. CASE StoreReload
  BY <1>5, StoreReloadEffect, Members
     DEF StoreReload, mainVars, confVars, portVars, schedVars, Settled, PortsKept, Asked,
         Signals, Reloads
<1>6. CASE ReloadNonPmd
  BY <1>6, ReloadNonPmdEffect, Members
     DEF ReloadNonPmd, mainVars, confVars, portVars, schedVars, Settled, PortsKept, Asked,
         Signals, Reloads
<1>7. ASSUME NEW r, NEW k, Waited(r, k)
      PROVE  Settled'
  BY <1>7, AwaitEffect, AwaitKeeps, Members DEF Waited, Waits, ConfKept, Settled, PortsKept
<1>8. CASE CheckThreads
  BY <1>8, CheckThreadsEffect, Members
     DEF CheckThreads, mainVars, confVars, portVars, schedVars, Settled, PortsKept
<1>9. ASSUME NEW t \in Core, DelPmd(t)
      PROVE  Settled'
  BY <1>9, CoreIsThread, DelPmdEffect, Members
     DEF DelPmd, mainVars, confVars, portVars, schedVars, Settled, PortsKept
<1>10. ASSUME NEW t \in Core, JoinPmd(t)
      PROVE  Settled'
  BY <1>10, CoreIsThread, JoinPmdEffect, Members
     DEF JoinPmd, Others, mainVars, confVars, portVars, schedVars, Settled, PortsKept
<1>11. CASE DeleteDone \/ ReconfigureDone \/ FillStart \/ FillTxStart \/ FillDone
  BY <1>11
     DEF DeleteDone, mainVars, confVars, portVars, schedVars, ReconfigureDone, FillStart, FillTxStart,
         FillDone, Settled, PortsKept
<1>12. CASE CreatePmds
  BY <1>12, CreatePmdsEffect, Members
     DEF CreatePmds, mainVars, confVars, portVars, schedVars, Settled, PortsKept
<1>13. CASE RemoveStale
  BY <1>13, RemoveStaleEffect, ListsKeep, Members DEF ConfKept, Settled, PortsKept
<1>14. ASSUME NEW p \in Port, Reconfigure(p)
      PROVE  Settled'
  BY <1>14, Members DEF Reconfigure, mainVars, confVars, portVars, schedVars, Settled, PortsKept
<1>15. CASE Comply
  BY <1>15, ComplyEffect, ListsKeep, Members DEF ConfKept, Settled, PortsKept
<1>16. ASSUME NEW t \in Thread, Fill(t)
      PROVE  Settled'
  BY <1>16, FillEffect, ListsKeep, Members DEF ConfKept, Settled, PortsKept
<1>17. CASE Finish
  BY <1>17, ReloadAssumption, Members
     DEF Finish, mainVars, confVars, portVars, schedVars, Settled, PortsKept, Typed
<1>18. ASSUME NEW t \in Thread, ThreadMove(t)
      PROVE  Settled'
  <2>1. MainKept
    BY <1>18 DEF ThreadMove
  <2> QED
    BY <2>1 DEF MainKept, ConfKept, Settled, PortsKept
<1> QED
  BY <1>1, <1>2, <1>3, <1>4, <1>5, <1>6, <1>7, <1>8, <1>9, <1>10, <1>11, <1>12, <1>13, <1>14,
     <1>15, <1>16, <1>17, <1>18, NextCases

PortsHere == \A t \in Thread : PortsThere(t)

(* Every step keeps the ports of the lists and copies, phase by phase.     *)
LEMMA PortsStep ==
  ASSUME Typed, Blank, OwnIds, Counted, Signals, Handover, PortsKept, Next
  PROVE  PortsHere'
<1>1. CASE Idle \/ Placing
  BY <1>1, DownStep
     DEF Idle, AllKept, Placing, AllDown, PortsDown, PortsKept, PortsThere, PortsHere, Typed
<1>2. ASSUME NEW p \in Port, AddPort(p)
      PROVE  PortsHere'
  BY <1>2, DownStep, SettledStep
     DEF PortsHere, AllDown, PortsKept, AddPort, mainVars, confVars, portVars, schedVars,
         PortsDown, PortsThere, Settled, Typed
<1>3. ASSUME NEW p \in Port, DelPort(p)
      PROVE  PortsHere'
  BY <1>3, DownStep, SettledStep
     DEF PortsHere, AllDown, PortsKept, DelPort, mainVars, confVars, portVars, schedVars,
         PortsDown, PortsThere, Settled, Typed
<1>4. ASSUME NEW t \in Thread, BumpSeq(t)
      PROVE  PortsHere'
  BY <1>4, DownStep, SettledStep, BumpSeqEffect
     DEF PortsHere, AllDown, PortsKept, BumpSeq, SameFlags, mainVars, confVars, portVars,
         schedVars, PortsDown, PortsThere, Settled, Typed
<1>5. CASE StoreReload
  BY <1>5, DownStep, SettledStep, StoreReloadEffect
     DEF PortsHere, AllDown, PortsKept, StoreReload, mainVars, confVars, portVars, schedVars,
         PortsDown, PortsThere, Settled, Typed, Signals, Bumped, Reloads
<1>6. CASE ReloadNonPmd
  BY <1>6, DownStep, SettledStep, ReloadNonPmdEffect
     DEF PortsHere, AllDown, PortsKept, ReloadNonPmd, mainVars, confVars, portVars, schedVars,
         PortsDown, PortsThere, Settled, Typed
<1>7. ASSUME NEW r, NEW k, Waited(r, k)
      PROVE  PortsHere'
  <2> SUFFICES ASSUME NEW u \in Thread
               PROVE  PortsThere(u)'
    BY DEF PortsHere
  <2>1. /\ pc = r /\ pc' = k /\ <<r, k>> \in Waits /\ r \in Reloads /\ ConfKept
        /\ need' = need /\ th' = th /\ Await(r, k)
    BY <1>7, AwaitKeeps DEF Waited, Waits, Reloads
  <2>2. Uses(u) \subseteq Listed(u) /\ SameLists(u)
    BY <2>1, AwaitAll, AwaitEffect, DownWhen
  <2>3. Listed(u)' = Listed(u) /\ Uses(u)' = Uses(u)
    BY <2>1, <2>2 DEF Listed, Uses, SameLists
  <2> QED
    BY <2>1, <2>2, <2>3 DEF PortsThere, PortsKept, Settled, ConfKept, Waits
<1>8. CASE CheckThreads
  BY <1>8, DownStep, SettledStep, CheckThreadsEffect
     DEF PortsHere, AllDown, PortsKept, CheckThreads, mainVars, confVars, portVars, schedVars,
         PortsDown, PortsThere, Settled, Typed
<1>9. ASSUME NEW t \in Core, DelPmd(t)
      PROVE  PortsHere'
  BY <1>9, DownStep, SettledStep, CoreIsThread, DelPmdEffect, Members
     DEF PortsHere, AllDown, PortsKept, DelPmd, mainVars, confVars, portVars, schedVars,
         PortsDown, PortsThere, Settled, Typed
<1>10. ASSUME NEW t \in Core, JoinPmd(t)
      PROVE  PortsHere'
  BY <1>10, DownStep, SettledStep, CoreIsThread, JoinPmdEffect
     DEF PortsHere, AllDown, PortsKept, JoinPmd, Others, mainVars, confVars, portVars,
         schedVars, PortsDown, PortsThere, Settled, Typed
<1>11. CASE DeleteDone
  BY <1>11, DownStep, SettledStep
     DEF PortsHere, AllDown, PortsKept, DeleteDone, mainVars, confVars, portVars, schedVars,
         PortsDown, PortsThere, Settled, Typed
<1>12. CASE CreatePmds
  BY <1>12, DownStep, SettledStep, CreatePmdsEffect
     DEF PortsHere, AllDown, PortsKept, CreatePmds, mainVars, confVars, portVars, schedVars,
         PortsDown, PortsThere, Settled, Typed
<1>13. CASE RemoveStale
  <2> SUFFICES ASSUME NEW u \in Thread
               PROVE  PortsThere(u)'
    BY DEF PortsHere
  <2>1. /\ sh'[u].poll_list = {q \in sh[u].poll_list : q[1] \notin need' \cup (Port \ ports)}
        /\ sh'[u].tx_ports = sh[u].tx_ports \ (need' \cup (Port \ ports))
    BY <1>13, RemoveStaleEffect
  <2>2. Listed(u)' \cap (need' \cup (Port \ ports)) = {}
    BY <2>1 DEF Listed, PortsOf
  <2>3. pc' = "reload2" /\ ConfKept
    BY <1>13, ListsKeep
  <2>4. Listed(u)' \cup Uses(u)' \subseteq exists
    BY <1>13, DownStep, ListsKeep DEF AllDown, PortsDown, PortsKept, PortsThere
  <2>5. Listed(u)' \subseteq ports \ need'
    BY <2>2, <2>4 DEF Typed
  <2> QED
    BY <2>3, <2>4, <2>5 DEF PortsThere, ConfKept
<1>14. ASSUME NEW p \in Port, Reconfigure(p)
      PROVE  PortsHere'
  BY <1>14, DownStep, SettledStep
     DEF PortsHere, AllDown, PortsKept, Reconfigure, mainVars, confVars, portVars, schedVars,
         PortsDown, PortsThere, Settled, Typed
<1>15. CASE ReconfigureDone
  BY <1>15, DownStep, SettledStep
     DEF PortsHere, AllDown, PortsKept, ReconfigureDone, mainVars, confVars, portVars,
         schedVars, PortsDown, PortsThere, Settled, Typed
<1>16. CASE Comply
  BY <1>16, DownStep, SettledStep, ComplyEffect, ListsKeep
     DEF PortsHere, AllDown, PortsKept, ConfKept, PortsDown, PortsThere, Settled, Typed
<1>17. CASE FillStart
  BY <1>17, DownStep, SettledStep
     DEF PortsHere, AllDown, PortsKept, FillStart, mainVars, confVars, portVars, schedVars,
         PortsDown, PortsThere, Settled, Typed
<1>18. ASSUME NEW t \in Thread, Fill(t)
      PROVE  PortsHere'
  BY <1>18, DownStep, SettledStep, FillEffect, ListsKeep
     DEF PortsHere, AllDown, PortsKept, ConfKept, PortsDown, PortsThere, Settled, Typed
<1>19. CASE FillTxStart \/ FillDone
  BY <1>19, DownStep, SettledStep
     DEF PortsHere, AllDown, PortsKept, FillTxStart, FillDone, mainVars, confVars, portVars, schedVars,
         PortsDown, PortsThere, Settled, Typed
<1>20. CASE Finish
  BY <1>20, DownStep, SettledStep
     DEF PortsHere, AllDown, PortsKept, Finish, mainVars, confVars, portVars, schedVars,
         PortsDown, PortsThere, Settled, Typed
<1>21. ASSUME NEW t \in Thread, ThreadMove(t)
      PROVE  PortsHere'
  <2>1. AllDown /\ MainKept
    BY <1>21, DownStep DEF ThreadMove
  <2>2. ASSUME NEW u \in Thread
        PROVE  PortsThere(u)'
    <3>1. PortsDown(u) /\ PortsThere(u) /\ ports \subseteq exists
      BY <2>1 DEF AllDown, PortsKept, Typed
    <3> QED
      BY <2>1, <3>1 DEF MainKept, ConfKept, PortsDown, PortsThere
  <2> QED
    BY <2>2 DEF PortsHere
<1> QED
  BY <1>1, <1>2, <1>3, <1>4, <1>5, <1>6, <1>7, <1>8, <1>9, <1>10, <1>11, <1>12, <1>13, <1>14,
     <1>15, <1>16, <1>17, <1>18, <1>19, <1>20, <1>21, NextCases

(* A thread has picked tx queues only for ports it sends to.               *)
AllXps == \A t \in Thread : XpsOf(t)
UsedNow == \A p \in Port, i \in Txq : txq_used[p][i] = Cardinality(On(p, i))

(* Every step keeps picked tx queues to the ports sent to.                 *)
LEMMA XpsStep ==
  ASSUME Typed, Blank, OwnIds, Counted, Next
  PROVE  AllXps'
<1>1. CASE Calm
  <2>1. ASSUME NEW u \in Thread
        PROVE  XpsOf(u)'
    BY <2>1, <1>1, Members DEF Calm, Counted, XpsOf
  <2> QED
    BY <2>1 DEF AllXps
<1>2. CASE ReloadNonPmd
  <2>1. ASSUME NEW u \in Thread, u = NonPmd
        PROVE  XpsOf(u)'
    BY <2>1, <1>2, ReloadNonPmdEffect, Members
       DEF ReloadNonPmd, mainVars, confVars, portVars, schedVars, Counted, XpsOf, Blank, BlankOf
  <2>2. ASSUME NEW u \in Thread, u # NonPmd
        PROVE  XpsOf(u)'
    BY <2>2, <1>2, ReloadNonPmdEffect, Members
       DEF ReloadNonPmd, mainVars, confVars, portVars, schedVars, Counted, XpsOf, Blank, BlankOf
  <2> QED
    BY <2>1, <2>2 DEF AllXps
<1>3. ASSUME NEW t \in Core, JoinPmd(t)
      PROVE  AllXps'
  <2>1. ASSUME NEW u \in Thread, u = t
        PROVE  XpsOf(u)'
    BY <2>1, <1>3, CoreIsThread, JoinPmdEffect, Members
       DEF JoinPmd, Others, mainVars, confVars, portVars, schedVars, Counted, XpsOf
  <2>2. ASSUME NEW u \in Thread, u # t
        PROVE  XpsOf(u)'
    BY <2>2, <1>3, CoreIsThread, JoinPmdEffect, Members
       DEF JoinPmd, Others, mainVars, confVars, portVars, schedVars, Counted, XpsOf
  <2> QED
    BY <2>1, <2>2 DEF AllXps
<1>4. CASE CreatePmds
  <2>1. ASSUME NEW u \in Thread
        PROVE  XpsOf(u)'
    BY <2>1, <1>4, CreatePmdsEffect, Members
       DEF CreatePmds, mainVars, confVars, portVars, schedVars, Counted, XpsOf, Blank, BlankOf
  <2> QED
    BY <2>1 DEF AllXps
<1>5. CASE RemoveStale
  <2>1. ASSUME NEW u \in Thread
        PROVE  XpsOf(u)'
    BY <2>1, <1>5, RemoveStaleEffect, ListsKeep, Members DEF ConfKept, Counted, XpsOf
  <2> QED
    BY <2>1 DEF AllXps
<1>6. CASE Comply
  <2>1. ASSUME NEW u \in Thread
        PROVE  XpsOf(u)'
    BY <2>1, <1>6, ComplyEffect, ListsKeep, Members DEF ConfKept, Counted, XpsOf
  <2> QED
    BY <2>1 DEF AllXps
<1>7. ASSUME NEW t \in Thread, Fill(t)
      PROVE  AllXps'
  <2>1. ASSUME NEW u \in Thread, u = t
        PROVE  XpsOf(u)'
    BY <2>1, <1>7, FillEffect, ListsKeep, Members DEF ConfKept, Counted, XpsOf
  <2>2. ASSUME NEW u \in Thread, u # t
        PROVE  XpsOf(u)'
    BY <2>2, <1>7, FillEffect, ListsKeep, Members DEF ConfKept, Counted, XpsOf
  <2> QED
    BY <2>1, <2>2 DEF AllXps
<1>8. ASSUME NEW t \in Thread, ThreadMove(t)
      PROVE  AllXps'
  <2>1. Others(t) /\ MainKept
    BY <1>8 DEF ThreadMove
  <2>2. ASSUME NEW u \in Thread, u = t
        PROVE  XpsOf(u)'
    BY <2>1, <2>2, <1>8, Members
       DEF ThreadMove, Counted, XpsOf, Awake, Loads, TakesId, DropsId, Wakes, Answers, Ends,
           Sending, SameUse, SameXps, SameId, SameLists, MainKept, ConfKept
  <2>3. ASSUME NEW u \in Thread, u # t
        PROVE  XpsOf(u)'
    BY <2>1, <2>3, Members DEF Others, SameLists, MainKept, ConfKept, Counted, XpsOf
  <2> QED
    BY <2>2, <2>3 DEF AllXps
<1> QED
  BY <1>1, <1>2, <1>3, <1>4, <1>5, <1>6, <1>7, <1>8, ListCases

(* Where no thread's tx queues change the counts stay true.                *)
LEMMA OnSame ==
  ASSUME UsedNow, txq_used' = txq_used, \A u \in Thread : SameXps(u)
  PROVE  UsedNow'
<1> SUFFICES ASSUME NEW p \in Port, NEW i \in Txq
             PROVE  On(p, i)' = On(p, i)
  BY DEF UsedNow
<1> QED
  BY DEF On, SameXps

(* What a thread gives back is no longer counted.                          *)
LEMMA PurgeCounts ==
  ASSUME Typed, UsedNow, NEW t \in Thread, NEW ps, txq_used' = Purge(t, ps),
         \A u \in Thread \ {t} : th'[u] = th[u],
         DOMAIN th'[t].xps = DOMAIN th[t].xps \ ps,
         \A o \in DOMAIN th'[t].xps : th'[t].xps[o] = th[t].xps[o]
  PROVE  UsedNow'
<1> SUFFICES ASSUME NEW p \in Port, NEW i \in Txq
             PROVE  txq_used'[p][i] = Cardinality(On(p, i)')
  BY DEF UsedNow
<1> DEFINE x == th[t].xps
<1>1. x \in [DOMAIN x -> Txq]
  BY XpsTypes DEF Typed, LocalType
<1>2. txq_used[p] \in [Txq -> Int] /\ txq_used[p][i] = Cardinality(On(p, i))
  BY DEF Typed, UsedNow
<1>3. txq_used'[p] = IF p \in ps \cap DOMAIN x
                     THEN [txq_used[p] EXCEPT ![x[p]] = @ - 1] ELSE txq_used[p]
  BY DEF Purge
<1>4. CASE p \in ps \cap DOMAIN x /\ x[p] = i
  <2>1. txq_used'[p][i] = txq_used[p][i] - 1
    BY <1>1, <1>2, <1>3, <1>4
  <2>2. On(p, i)' = On(p, i) \ {t} /\ t \in On(p, i)
    BY <1>4 DEF On
  <2>3. Cardinality(On(p, i) \ {t}) = Cardinality(On(p, i)) - 1
    BY <2>2, OnNat, FS_RemoveElement
  <2> QED
    BY <1>2, <2>1, <2>2, <2>3
<1>5. CASE ~(p \in ps \cap DOMAIN x /\ x[p] = i)
  <2>1. txq_used'[p][i] = txq_used[p][i]
    BY <1>1, <1>2, <1>3, <1>5
  <2>2. On(p, i)' = On(p, i)
    BY <1>5 DEF On
  <2> QED
    BY <1>2, <2>1, <2>2
<1> QED
  BY <1>4, <1>5

(* What a thread picks is counted once more.                               *)
LEMMA TakeCounts ==
  ASSUME Typed, UsedNow, NEW t \in Thread, NEW o \in Port, NEW n \in Txq,
         txq_used' = [txq_used EXCEPT ![o][n] = @ + 1],
         \A u \in Thread \ {t} : th'[u] = th[u],
         o \notin DOMAIN th[t].xps,
         DOMAIN th'[t].xps = DOMAIN th[t].xps \cup {o}, th'[t].xps[o] = n,
         \A p \in DOMAIN th[t].xps : th'[t].xps[p] = th[t].xps[p]
  PROVE  UsedNow'
<1> SUFFICES ASSUME NEW p \in Port, NEW i \in Txq
             PROVE  txq_used'[p][i] = Cardinality(On(p, i)')
  BY DEF UsedNow
<1>1. txq_used \in [Port -> [Txq -> Int]] /\ txq_used[p][i] = Cardinality(On(p, i))
  BY DEF Typed, UsedNow
<1>2. CASE p = o /\ i = n
  <2>1. txq_used'[p][i] = txq_used[p][i] + 1
    BY <1>1, <1>2
  <2>2. On(p, i)' = On(p, i) \cup {t} /\ t \notin On(p, i)
    BY <1>2 DEF On
  <2>3. Cardinality(On(p, i) \cup {t}) = Cardinality(On(p, i)) + 1
    BY <2>2, OnNat, FS_AddElement
  <2> QED
    BY <1>1, <2>1, <2>2, <2>3
<1>3. CASE ~(p = o /\ i = n)
  <2>1. txq_used'[p][i] = txq_used[p][i]
    BY <1>1, <1>3
  <2>2. On(p, i)' = On(p, i)
    BY <1>3 DEF On
  <2> QED
    BY <1>1, <2>1, <2>2
<1> QED
  BY <1>2, <1>3

(* Whatever leaves the threads' choices alone leaves the counts alone.     *)
LEMMA UsedStep ==
  ASSUME Typed, Blank, OwnIds, Counted, Signals, PortsKept, Next
  PROVE  UsedNow'
<1>1. CASE ReloadNonPmd
  <2>1. /\ txq_used' = Purge(NonPmd, Port) /\ \A u \in Thread \ {NonPmd} : th'[u] = th[u]
        /\ NonPmd \in Thread
    BY <1>1, ReloadNonPmdEffect, Members DEF Others, ReloadNonPmd
  <2>2. DOMAIN th[NonPmd].xps \subseteq Port
    BY <2>1, XpsTypes DEF Typed, LocalType
  <2>3. /\ DOMAIN th'[NonPmd].xps = DOMAIN th[NonPmd].xps \ Port
        /\ \A o \in DOMAIN th'[NonPmd].xps : th'[NonPmd].xps[o] = th[NonPmd].xps[o]
    BY <1>1, <2>2, ReloadNonPmdEffect
  <2>4. UsedNow
    BY DEF Counted, UsedNow
  <2> QED
    BY <2>1, <2>3, <2>4, PurgeCounts
<1>2. ASSUME NEW t \in Core, JoinPmd(t)
      PROVE  UsedNow'
  <2>1. txq_used' = txq_used /\ th[t].pc = "gone"
    BY <1>2 DEF JoinPmd
  <2>2. ASSUME NEW u \in Thread
        PROVE  SameXps(u)
    BY <1>2, <2>1, CoreIsThread, JoinPmdEffect DEF Others, SameXps, Counted, XpsOf
  <2>3. UsedNow
    BY DEF Counted, UsedNow
  <2> QED
    BY <2>1, <2>2, <2>3, OnSame
<1>3. CASE CreatePmds
  <2>1. txq_used' = txq_used
    BY <1>3 DEF CreatePmds
  <2>2. ASSUME NEW u \in Thread
        PROVE  SameXps(u)
    BY <1>3, CreatePmdsEffect DEF SameXps, Blank, BlankOf
  <2>3. UsedNow
    BY DEF Counted, UsedNow
  <2> QED
    BY <2>1, <2>2, <2>3, OnSame
<1>4. ASSUME NEW p \in Port, Reconfigure(p)
      PROVE  UsedNow'
  <2>1. pc = "ports" /\ p \in need /\ th' = th
    BY <1>4 DEF Reconfigure
  <2>2. \A u \in Thread : p \notin DOMAIN th[u].xps
    BY <2>1 DEF PortsKept, PortsThere, Uses, Counted, XpsOf
  <2>3. \A i \in Txq : Cardinality(On(p, i)) = 0
    BY <2>2, FS_EmptySet DEF On
  <2>4. txq_used' = txq_used \/ txq_used' = [txq_used EXCEPT ![p] = [i \in Txq |-> 0]]
    BY <1>4 DEF Reconfigure, Typed
  <2>5. txq_used \in [Port -> [Txq -> Int]] /\ UsedNow
    BY DEF Typed, Counted, UsedNow
  <2>6. \A o \in Port, i \in Txq : txq_used'[o][i] = Cardinality(On(o, i))
    BY <2>3, <2>4, <2>5 DEF UsedNow
  <2>7. \A o \in Port, i \in Txq : On(o, i)' = On(o, i)
    BY <2>1 DEF On
  <2> QED
    BY <2>6, <2>7 DEF UsedNow
<1>5. ASSUME NEW t \in Thread, ThreadMove(t)
      PROVE  UsedNow'
  <2>1. UsedNow /\ \A u \in Thread \ {t} : th'[u] = th[u]
    BY <1>5 DEF Counted, UsedNow, ThreadMove, Others
  <2>2. CASE txq_used' = txq_used /\ SameXps(t)
    <3>1. \A u \in Thread : SameXps(u)
      BY <2>1, <2>2 DEF SameXps
    <3> QED
      BY <2>1, <2>2, <3>1, OnSame
  <2>3. CASE \E ps : GivesBack(t, ps)
    BY <2>1, <2>3, PurgeCounts DEF GivesBack
  <2>4. CASE \E p \in Port, i \in Txq : Takes(t, p, i)
    BY <2>1, <2>4, TakeCounts DEF Takes
  <2> QED
    BY <1>5, <2>2, <2>3, <2>4 DEF ThreadMove, XpsMove
<1>6. ASSUME \/ Idle \/ (\E p \in Port : AddPort(p)) \/ (\E p \in Port : DelPort(p))
             \/ (\E t \in Thread : BumpSeq(t)) \/ StoreReload
             \/ (\E r, k : Waited(r, k)) \/ CheckThreads \/ (\E t \in Core : DelPmd(t))
             \/ DeleteDone \/ RemoveStale \/ ReconfigureDone \/ Placing \/ Comply
             \/ FillStart \/ (\E t \in Thread : Fill(t)) \/ FillTxStart \/ FillDone \/ Finish
      PROVE  UsedNow'
  <2>1. txq_used' = txq_used /\ th' = th
    <3>1. CASE (\E t \in Thread : BumpSeq(t))
      BY <3>1, BumpSeqEffect DEF BumpSeq, mainVars, confVars, portVars, schedVars
    <3>2. CASE StoreReload
      BY <3>2, StoreReloadEffect DEF StoreReload, mainVars, confVars, portVars, schedVars
    <3>3. CASE (\E r, k : Waited(r, k))
      BY <3>3, AwaitEffect, AwaitKeeps DEF Waited, Waits, ConfKept
    <3>4. CASE CheckThreads
      BY <3>4, CheckThreadsEffect DEF CheckThreads, mainVars, confVars, portVars, schedVars
    <3>5. CASE (\E t \in Core : DelPmd(t))
      BY <3>5, CoreIsThread, DelPmdEffect DEF DelPmd, mainVars, confVars, portVars, schedVars
    <3> QED
      BY <1>6, <3>1, <3>2, <3>3, <3>4, <3>5, ListsKeep
         DEF Idle, AllKept, AddPort, mainVars, confVars, portVars, schedVars, DelPort,
             DeleteDone, ConfKept, ReconfigureDone, Placing, FillStart, FillTxStart, FillDone, Finish
  <2>2. \A u \in Thread : SameXps(u)
    BY <2>1 DEF SameXps
  <2>3. UsedNow
    BY DEF Counted, UsedNow
  <2> QED
    BY <2>1, <2>2, <2>3, OnSame
<1> QED
  BY <1>1, <1>2, <1>3, <1>4, <1>5, <1>6, NextCases

AllHold == \A t \in Thread : HoldsId(t)

(* Every step leaves an id with a thread exactly between taking and giving *)
(* back.                                                                   *)
LEMMA HoldsStep ==
  ASSUME Typed, Blank, OwnIds, Counted, Next
  PROVE  AllHold'
<1>1. CASE Calm
  BY <1>1, Members DEF AllHold, Calm, OwnIds, HoldsId
<1>2. CASE ReloadNonPmd
  BY <1>2, ReloadNonPmdEffect, Members
     DEF AllHold, ReloadNonPmd, mainVars, confVars, portVars, schedVars, OwnIds, HoldsId, Blank,
         BlankOf
<1>3. ASSUME NEW t \in Core, JoinPmd(t)
      PROVE  AllHold'
  BY <1>3, CoreIsThread, JoinPmdEffect, Members
     DEF AllHold, JoinPmd, Others, mainVars, confVars, portVars, schedVars, OwnIds, HoldsId
<1>4. CASE CreatePmds
  BY <1>4, CreatePmdsEffect, Members
     DEF AllHold, CreatePmds, mainVars, confVars, portVars, schedVars, OwnIds, HoldsId, Blank,
         BlankOf
<1>5. CASE RemoveStale
  BY <1>5, RemoveStaleEffect, ListsKeep, Members DEF AllHold, ConfKept, OwnIds, HoldsId
<1>6. CASE Comply
  BY <1>6, ComplyEffect, ListsKeep, Members DEF AllHold, ConfKept, OwnIds, HoldsId
<1>7. ASSUME NEW t \in Thread, Fill(t)
      PROVE  AllHold'
  BY <1>7, FillEffect, ListsKeep, Members DEF AllHold, ConfKept, OwnIds, HoldsId
<1>8. ASSUME NEW t \in Thread, ThreadMove(t)
      PROVE  AllHold'
  <2>1. Others(t) /\ MainKept
    BY <1>8 DEF ThreadMove
  <2>2. ASSUME NEW u \in Thread, u = t
        PROVE  HoldsId(u)'
    BY <2>1, <2>2, <1>8, Members
       DEF ThreadMove, OwnIds, HoldsId, Txq, NoQid, Awake, Loads, TakesId, DropsId, Wakes,
           Answers, Ends, Sending, SameUse, SameXps, SameId, SameLists, MainKept, ConfKept
  <2>3. ASSUME NEW u \in Thread, u # t
        PROVE  HoldsId(u)'
    BY <2>1, <2>3, Members DEF Others, SameLists, MainKept, ConfKept, OwnIds, HoldsId
  <2> QED
    BY <2>2, <2>3 DEF AllHold
<1> QED
  BY <1>1, <1>2, <1>3, <1>4, <1>5, <1>6, <1>7, <1>8, ListCases

(* Every step keeps the ids distinct.                                      *)
LEMMA DistinctStep ==
  ASSUME Typed, Blank, OwnIds, Counted, Next
  PROVE  Distinct'
<1>1. CASE Calm
  BY <1>1 DEF Calm, OwnIds, Distinct
<1>2. CASE ReloadNonPmd
  <2>1. \A u \in Thread : th'[u].qid \in {th[u].qid, NoQid}
    BY <1>2, ReloadNonPmdEffect DEF Others
  <2> QED
    BY <2>1 DEF OwnIds, Distinct
<1>3. ASSUME NEW t \in Core, JoinPmd(t)
      PROVE  Distinct'
  <2>1. \A u \in Thread : th'[u].qid \in {th[u].qid, NoQid}
    BY <1>3, CoreIsThread, JoinPmdEffect DEF Others
  <2> QED
    BY <2>1 DEF OwnIds, Distinct
<1>4. CASE CreatePmds
  <2>1. \A u \in Thread : th'[u].qid \in {th[u].qid, NoQid}
    BY <1>4, CreatePmdsEffect DEF Others
  <2> QED
    BY <2>1 DEF OwnIds, Distinct
<1>5. CASE RemoveStale
  BY <1>5, RemoveStaleEffect, ListsKeep DEF ConfKept, OwnIds, Distinct
<1>6. CASE Comply
  BY <1>6, ComplyEffect, ListsKeep DEF ConfKept, OwnIds, Distinct
<1>7. ASSUME NEW t \in Thread, Fill(t)
      PROVE  Distinct'
  BY <1>7, FillEffect, ListsKeep DEF ConfKept, OwnIds, Distinct
<1>8. ASSUME NEW t \in Thread, ThreadMove(t)
      PROVE  Distinct'
  <2>1. /\ Others(t)
        /\ \/ th'[t].qid \in {th[t].qid, NoQid}
           \/ \A u \in Thread : th[u].qid # th'[t].qid
    BY <1>8 DEF ThreadMove, Loads, TakesId, DropsId, Wakes, Answers, Ends, Sending, SameId, HoldsId, OwnIds
  <2> QED
    BY <2>1 DEF Others, OwnIds, Distinct
<1> QED
  BY <1>1, <1>2, <1>3, <1>4, <1>5, <1>6, <1>7, <1>8, ListCases

(* Every step keeps the number of threads to what was wanted.              *)
LEMMA CountStep ==
  ASSUME Typed, Blank, OwnIds, Counted, Signals, ThreadsWanted, Next
  PROVE  CountFits'
<1>1. CASE Idle \/ Placing
  BY <1>1 DEF Idle, AllKept, Placing, ThreadsWanted, CountFits, Deleting, Changed
<1>2. ASSUME NEW p \in Port, AddPort(p)
      PROVE  CountFits'
  BY <1>2
     DEF AddPort, mainVars, confVars, portVars, schedVars, ThreadsWanted, CountFits, Deleting,
         Changed
<1>3. ASSUME NEW p \in Port, DelPort(p)
      PROVE  CountFits'
  BY <1>3
     DEF DelPort, mainVars, confVars, portVars, schedVars, ThreadsWanted, CountFits, Deleting,
         Changed
<1>4. ASSUME NEW t \in Thread, BumpSeq(t)
      PROVE  CountFits'
  BY <1>4, BumpSeqEffect
     DEF BumpSeq, SameFlags, mainVars, confVars, portVars, schedVars, ThreadsWanted, CountFits,
         Deleting, Changed, Reloads
<1>5. CASE StoreReload
  BY <1>5, StoreReloadEffect
     DEF StoreReload, mainVars, confVars, portVars, schedVars, ThreadsWanted, CountFits,
         Deleting, Changed, Reloads
<1>6. CASE ReloadNonPmd
  BY <1>6, ReloadNonPmdEffect
     DEF ReloadNonPmd, mainVars, confVars, portVars, schedVars, ThreadsWanted, CountFits,
         Deleting, Changed, Reloads
<1>7. ASSUME NEW r, NEW k, Waited(r, k)
      PROVE  CountFits'
  BY <1>7, AwaitEffect, AwaitKeeps
     DEF Waited, Waits, ConfKept, ThreadsWanted, CountFits, Deleting, Changed
<1>8. CASE CheckThreads
  BY <1>8, CheckThreadsEffect
     DEF CheckThreads, mainVars, confVars, portVars, schedVars, ThreadsWanted, CountFits,
         Deleting, Changed
<1>9. ASSUME NEW t \in Core, DelPmd(t)
      PROVE  CountFits'
  BY <1>9, CoreIsThread, DelPmdEffect
     DEF DelPmd, mainVars, confVars, portVars, schedVars, ThreadsWanted, CountFits, Deleting,
         Changed
<1>10. ASSUME NEW t \in Core, JoinPmd(t)
      PROVE  CountFits'
  <2>1. pc' = "delete" /\ wanted' = wanted /\ threads' = threads \ {t} /\ t \in threads
    BY <1>10 DEF JoinPmd
  <2>2. IsFiniteSet(threads) /\ Cardinality(threads) \in Nat /\ wanted \in Nat
    BY WantedTyped, ThreadCount DEF Typed
  <2>3. Cardinality(threads') = Cardinality(threads) - 1
    BY <2>1, <2>2, FS_RemoveElement
  <2> QED
    BY <2>1, <2>2, <2>3 DEF ThreadsWanted, CountFits, Deleting
<1>11. CASE DeleteDone \/ ReconfigureDone \/ FillStart \/ FillTxStart \/ FillDone \/ Finish
  BY <1>11
     DEF DeleteDone, mainVars, confVars, portVars, schedVars, ReconfigureDone, FillStart, FillTxStart,
         FillDone, Finish, ThreadsWanted, CountFits, Deleting, Changed
<1>12. CASE CreatePmds
  <2>1. pc' = "stale" /\ wanted' = Cardinality(threads') /\ threads' = threads \cup Wanted
    BY <1>12 DEF CreatePmds
  <2>2. Cardinality(threads') \in Nat
    BY <2>1, WantedTyped
  <2> QED
    BY <2>1, <2>2 DEF CountFits, Deleting, Changed
<1>13. CASE RemoveStale
  BY <1>13, RemoveStaleEffect, ListsKeep DEF ConfKept, ThreadsWanted, CountFits, Deleting, Changed
<1>14. ASSUME NEW p \in Port, Reconfigure(p)
      PROVE  CountFits'
  BY <1>14
     DEF Reconfigure, mainVars, confVars, portVars, schedVars, ThreadsWanted, CountFits,
         Deleting, Changed
<1>15. CASE Comply
  BY <1>15, ComplyEffect, ListsKeep DEF ConfKept, ThreadsWanted, CountFits, Deleting, Changed
<1>16. ASSUME NEW t \in Thread, Fill(t)
      PROVE  CountFits'
  BY <1>16, FillEffect, ListsKeep DEF ConfKept, ThreadsWanted, CountFits, Deleting, Changed
<1>17. ASSUME NEW t \in Thread, ThreadMove(t)
      PROVE  CountFits'
  <2>1. MainKept
    BY <1>17 DEF ThreadMove
  <2> QED
    BY <2>1 DEF MainKept, ThreadsWanted, CountFits
<1> QED
  BY <1>1, <1>2, <1>3, <1>4, <1>5, <1>6, <1>7, <1>8, <1>9, <1>10, <1>11, <1>12, <1>13, <1>14,
     <1>15, <1>16, <1>17, NextCases

KeptOf(t) == t \in Live => Stays(t)
AllStay == \A t \in Thread : KeptOf(t)

(* Every step keeps apart the threads that stay and those to end.          *)
LEMMA StaysStep ==
  ASSUME Typed, Blank, OwnIds, Counted, Signals, ThreadsWanted, Next
  PROVE  AllStay'
<1>1. CASE Idle \/ Placing
  BY <1>1
     DEF Idle, AllKept, Placing, KeptOf, ThreadsWanted, Stays, Live, Wanted, Deleting, Changed,
         AllStay
<1>2. ASSUME NEW p \in Port, AddPort(p)
      PROVE  AllStay'
  BY <1>2, Members
     DEF AllStay, AddPort, mainVars, confVars, portVars, schedVars, KeptOf, ThreadsWanted,
         Stays, Live, Wanted, Deleting, Changed
<1>3. ASSUME NEW p \in Port, DelPort(p)
      PROVE  AllStay'
  BY <1>3, Members
     DEF AllStay, DelPort, mainVars, confVars, portVars, schedVars, KeptOf, ThreadsWanted,
         Stays, Live, Wanted, Deleting, Changed
<1>4. ASSUME NEW t \in Thread, BumpSeq(t)
      PROVE  AllStay'
  BY <1>4, BumpSeqEffect, Members
     DEF AllStay, BumpSeq, SameFlags, mainVars, confVars, portVars, schedVars, KeptOf,
         ThreadsWanted, Stays, Live, Wanted, Deleting, Changed, Reloads, Signals, Asked, Bumped,
         FlagsOf, OneExit
<1>5. CASE StoreReload
  BY <1>5, StoreReloadEffect, Members
     DEF AllStay, StoreReload, mainVars, confVars, portVars, schedVars, KeptOf, ThreadsWanted,
         Stays, Live, Wanted, Deleting, Changed, Reloads, Signals, Asked, Bumped, FlagsOf,
         OneExit
<1>6. CASE ReloadNonPmd
  BY <1>6, ReloadNonPmdEffect, Members
     DEF AllStay, ReloadNonPmd, mainVars, confVars, portVars, schedVars, KeptOf, ThreadsWanted,
         Stays, Live, Wanted, Deleting, Changed, Reloads, Signals, Asked, Bumped, FlagsOf,
         OneExit
<1>7. ASSUME NEW r, NEW k, Waited(r, k)
      PROVE  AllStay'
  BY <1>7, AwaitEffect, AwaitKeeps, Members
     DEF AllStay, Waited, Waits, ConfKept, KeptOf, ThreadsWanted, Stays, Live, Wanted, Deleting,
         Changed
<1>8. CASE CheckThreads
  BY <1>8, CheckThreadsEffect, Members
     DEF AllStay, CheckThreads, mainVars, confVars, portVars, schedVars, KeptOf, ThreadsWanted,
         Stays, Live, Wanted, Deleting, Changed, Reloads, Signals, Asked, Bumped, FlagsOf,
         OneExit, Unwanted
<1>9. ASSUME NEW t \in Core, DelPmd(t)
      PROVE  AllStay'
  <2>1. /\ pc = "delete" /\ pc' = "join" /\ UNCHANGED <<todo, threads, ports, cmask>>
        /\ t \in todo /\ t \in threads
    BY <1>9 DEF DelPmd, confVars, portVars, Typed
  <2>2. /\ \A u \in Thread : sh'[u].exit = (u = t \/ sh[u].exit)
        /\ Wanted' = Wanted /\ Live' = Live
    BY <1>9, <2>1, CoreIsThread, DelPmdEffect DEF Wanted, Live
  <2>3. t \notin Wanted
    BY <2>1, Members DEF ThreadsWanted, Stays, Live, Deleting
  <2> QED
    BY <2>1, <2>2, <2>3 DEF AllStay, KeptOf, ThreadsWanted, Stays, Deleting, Changed
<1>10. ASSUME NEW t \in Core, JoinPmd(t)
      PROVE  AllStay'
  BY <1>10, CoreIsThread, JoinPmdEffect, Members
     DEF AllStay, JoinPmd, Others, mainVars, confVars, portVars, schedVars, KeptOf,
         ThreadsWanted, Stays, Live, Wanted, Deleting, Changed, Reloads, Signals, Asked, Bumped,
         FlagsOf, OneExit
<1>11. CASE DeleteDone \/ ReconfigureDone \/ FillStart \/ FillTxStart \/ FillDone \/ Finish
  BY <1>11, Members
     DEF DeleteDone, mainVars, confVars, portVars, schedVars, ReconfigureDone, FillStart, FillTxStart,
         FillDone, Finish, KeptOf, ThreadsWanted, Stays, Live, Wanted, Deleting, Changed,
         AllStay, Signals, Asked, FlagsOf, Reloads
<1>12. CASE CreatePmds
  BY <1>12, CreatePmdsEffect, Members
     DEF AllStay, CreatePmds, mainVars, confVars, portVars, schedVars, KeptOf, ThreadsWanted,
         Stays, Live, Wanted, Deleting, Changed
<1>13. CASE RemoveStale
  BY <1>13, RemoveStaleEffect, ListsKeep, Members
     DEF AllStay, ConfKept, KeptOf, ThreadsWanted, Stays, Live, Wanted, Deleting, Changed
<1>14. ASSUME NEW p \in Port, Reconfigure(p)
      PROVE  AllStay'
  BY <1>14, Members
     DEF AllStay, Reconfigure, mainVars, confVars, portVars, schedVars, KeptOf, ThreadsWanted,
         Stays, Live, Wanted, Deleting, Changed
<1>15. CASE Comply
  BY <1>15, ComplyEffect, ListsKeep, Members
     DEF AllStay, ConfKept, KeptOf, ThreadsWanted, Stays, Live, Wanted, Deleting, Changed
<1>16. ASSUME NEW t \in Thread, Fill(t)
      PROVE  AllStay'
  BY <1>16, FillEffect, ListsKeep, Members
     DEF AllStay, ConfKept, KeptOf, ThreadsWanted, Stays, Live, Wanted, Deleting, Changed
<1>17. ASSUME NEW t \in Thread, ThreadMove(t)
      PROVE  AllStay'
  <2>1. MainKept /\ \A u \in Thread : sh'[u].exit = sh[u].exit
    BY <1>17 DEF ThreadMove, Others, Loads, TakesId, DropsId, Wakes, Answers, Ends, Sending, SameUse, SameXps, SameId
  <2>2. Wanted' = Wanted /\ Live' = Live
    BY <2>1 DEF MainKept, ConfKept, Wanted, Live
  <2> QED
    BY <2>1, <2>2 DEF MainKept, AllStay, KeptOf, ThreadsWanted, Stays
<1> QED
  BY <1>1, <1>2, <1>3, <1>4, <1>5, <1>6, <1>7, <1>8, <1>9, <1>10, <1>11, <1>12, <1>13, <1>14,
     <1>15, <1>16, <1>17, NextCases

(* What the main thread finds when it counts the threads.                  *)
LEMMA AdjustSeen ==
  ASSUME Typed, ThreadsWanted, pc = "threads"
  PROVE  Adjust <=> Fewer
<1>1. Cardinality(threads) = wanted /\ wanted \in Nat
  BY ThreadCount DEF ThreadsWanted, CountFits, Deleting, Changed, Typed
<1>2. Cardinality(Live) = wanted - 1
  BY <1>1, WantedTyped, Members, FS_RemoveElement DEF Live
<1>3. Cardinality(Wanted) \in Nat
  BY WantedTyped, ThreadCount, FS_Subset, FS_CardinalityType
<1> QED
  BY <1>1, <1>2, <1>3 DEF Adjust, Fewer

AllRenew == \A t \in Thread : Renews(t)

(* Every step asks for another id only threads that stay, while there are  *)
(* too many.                                                               *)
LEMMA RenewsStep ==
  ASSUME Typed, Blank, OwnIds, Counted, Signals, ThreadsWanted, Handover, Next
  PROVE  AllRenew'
<1>1. CASE Idle \/ Placing
  BY <1>1
     DEF Idle, AllKept, Placing, ThreadsWanted, Renews, Fewer, Wanted, Deleting, Changed,
         AllRenew
<1>2. ASSUME NEW p \in Port, AddPort(p)
      PROVE  AllRenew'
  BY <1>2, Members
     DEF AllRenew, AddPort, mainVars, confVars, portVars, schedVars, ThreadsWanted, Renews,
         Fewer, Wanted, Deleting, Changed
<1>3. ASSUME NEW p \in Port, DelPort(p)
      PROVE  AllRenew'
  BY <1>3, Members
     DEF AllRenew, DelPort, mainVars, confVars, portVars, schedVars, ThreadsWanted, Renews,
         Fewer, Wanted, Deleting, Changed
<1>4. ASSUME NEW t \in Thread, BumpSeq(t)
      PROVE  AllRenew'
  BY <1>4, BumpSeqEffect, Members
     DEF AllRenew, BumpSeq, SameFlags, mainVars, confVars, portVars, schedVars, ThreadsWanted,
         Renews, Fewer, Wanted, Deleting, Changed, Reloads, Bumped, Signals
<1>5. CASE StoreReload
  BY <1>5, StoreReloadEffect, Members
     DEF AllRenew, StoreReload, mainVars, confVars, portVars, schedVars, ThreadsWanted, Renews,
         Fewer, Wanted, Deleting, Changed, Reloads, Bumped, Signals
<1>6. CASE ReloadNonPmd
  BY <1>6, ReloadNonPmdEffect, Members
     DEF AllRenew, ReloadNonPmd, mainVars, confVars, portVars, schedVars, ThreadsWanted, Renews,
         Fewer, Wanted, Deleting, Changed, Reloads, Bumped, Signals, Typed
<1>7. ASSUME NEW r, NEW k, Waited(r, k)
      PROVE  AllRenew'
  <2>1. /\ pc = r /\ pc' = k /\ <<r, k>> \in Waits /\ r \in Reloads /\ todo = {} /\ Await(r, k)
        /\ ConfKept /\ wanted' = wanted
    BY <1>7, AwaitKeeps DEF Waited, Waits, Reloads
  <2>2. \A u \in Thread : ~sh[u].reload /\ sh'[u].reload_tx_qid = sh[u].reload_tx_qid
    BY <2>1, AwaitAll, AwaitEffect
  <2>3. \A u \in Thread : ~sh[u].reload_tx_qid
    BY <2>1, <2>2 DEF Waits, ThreadsWanted, Renews, Deleting
  <2> QED
    BY <2>2, <2>3 DEF AllRenew, Renews
<1>8. CASE CheckThreads
  <2>1. /\ pc = "threads" /\ pc' = "delete" /\ UNCHANGED <<wanted, ports, cmask>>
    BY <1>8 DEF CheckThreads, confVars, portVars
  <2>2. ASSUME NEW u \in Thread, sh'[u].reload_tx_qid
        PROVE  u \in Wanted /\ Adjust /\ sh'[u].need_reload
    BY <1>8, <2>1, <2>2, CheckThreadsEffect DEF ThreadsWanted, Renews, Deleting
  <2>3. Adjust => Fewer
    BY <2>1, AdjustSeen
  <2>4. Wanted' = Wanted /\ Fewer' = Fewer
    BY <2>1 DEF Wanted, Fewer
  <2> QED
    BY <2>1, <2>2, <2>3, <2>4 DEF AllRenew, Renews, Deleting
<1>9. ASSUME NEW t \in Core, DelPmd(t)
      PROVE  AllRenew'
  <2>1. /\ pc = "delete" /\ pc' = "join" /\ UNCHANGED <<wanted, ports, cmask, todo>>
    BY <1>9 DEF DelPmd, confVars, portVars
  <2>2. \A u \in Thread : /\ sh'[u].reload_tx_qid = sh[u].reload_tx_qid
                         /\ sh'[u].need_reload = sh[u].need_reload
    BY <1>9, CoreIsThread, DelPmdEffect
  <2>3. Wanted' = Wanted /\ Fewer' = Fewer
    BY <2>1 DEF Wanted, Fewer
  <2> QED
    BY <2>1, <2>2, <2>3 DEF AllRenew, ThreadsWanted, Renews, Deleting
<1>10. ASSUME NEW t \in Core, JoinPmd(t)
      PROVE  AllRenew'
  <2>1. ASSUME NEW u \in Thread, u = t
        PROVE  Renews(u)'
    BY <2>1, <1>10, CoreIsThread, JoinPmdEffect, Members
       DEF JoinPmd, Others, mainVars, confVars, portVars, schedVars, ThreadsWanted, Renews,
           Fewer, Wanted, Deleting, Changed
  <2>2. ASSUME NEW u \in Thread, u # t
        PROVE  Renews(u)'
    BY <2>2, <1>10, CoreIsThread, JoinPmdEffect, Members
       DEF JoinPmd, Others, mainVars, confVars, portVars, schedVars, ThreadsWanted, Renews,
           Fewer, Wanted, Deleting, Changed
  <2> QED
    BY <2>1, <2>2 DEF AllRenew
<1>11. CASE DeleteDone
  BY <1>11, Members
     DEF DeleteDone, mainVars, confVars, portVars, schedVars, ThreadsWanted, Renews, Fewer,
         Wanted, Deleting, Changed, AllRenew, Blank, BlankOf, NeedReload
<1>12. CASE CreatePmds
  BY <1>12, CreatePmdsEffect, Members
     DEF AllRenew, CreatePmds, mainVars, confVars, portVars, schedVars, ThreadsWanted, Renews,
         Fewer, Wanted, Deleting, Changed
<1>13. CASE RemoveStale
  BY <1>13, RemoveStaleEffect, ListsKeep, Members
     DEF AllRenew, ConfKept, ThreadsWanted, Renews, Fewer, Wanted, Deleting, Changed
<1>14. ASSUME NEW p \in Port, Reconfigure(p)
      PROVE  AllRenew'
  BY <1>14, Members
     DEF AllRenew, Reconfigure, mainVars, confVars, portVars, schedVars, ThreadsWanted, Renews,
         Fewer, Wanted, Deleting, Changed
<1>15. CASE ReconfigureDone \/ FillStart \/ FillTxStart \/ FillDone \/ Finish
  BY <1>15
     DEF ReconfigureDone, mainVars, confVars, portVars, schedVars, FillStart, FillTxStart, FillDone, Finish,
         ThreadsWanted, Renews, Fewer, Wanted, Deleting, Changed, AllRenew
<1>16. CASE Comply
  BY <1>16, ComplyEffect, ListsKeep, Members
     DEF AllRenew, ConfKept, ThreadsWanted, Renews, Fewer, Wanted, Deleting, Changed
<1>17. ASSUME NEW t \in Thread, Fill(t)
      PROVE  AllRenew'
  BY <1>17, FillEffect, ListsKeep, Members
     DEF AllRenew, ConfKept, ThreadsWanted, Renews, Fewer, Wanted, Deleting, Changed
<1>18. ASSUME NEW t \in Thread, ThreadMove(t)
      PROVE  AllRenew'
  <2>1. /\ MainKept
        /\ \A u \in Thread :
             /\ sh'[u].need_reload = sh[u].need_reload
             /\ sh'[u].reload_tx_qid => sh[u].reload_tx_qid /\ sh'[u].reload = sh[u].reload
    BY <1>18 DEF ThreadMove, Others, Loads, TakesId, DropsId, Wakes, Answers, Ends, Sending, SameUse, SameXps, SameId
  <2>2. Wanted' = Wanted /\ Fewer' = Fewer
    BY <2>1 DEF MainKept, ConfKept, Wanted, Fewer
  <2> QED
    BY <2>1, <2>2 DEF MainKept, AllRenew, ThreadsWanted, Renews
<1> QED
  BY <1>1, <1>2, <1>3, <1>4, <1>5, <1>6, <1>7, <1>8, <1>9, <1>10, <1>11, <1>12, <1>13, <1>14,
     <1>15, <1>16, <1>17, <1>18, NextCases

(* The ports a thread sends to or will: only Fill adds some.               *)
SendDown(t) == Sendable(t)' \subseteq Sendable(t) \cup (IF pc \in {"fill", "filltx"} /\ t \in todo \ todo' THEN ports ELSE {})
AllSend == \A t \in Thread : SendDown(t)

(* What creating the threads does to their number.                         *)
LEMMA CreateCount ==
  ASSUME Typed, ThreadsWanted, CreatePmds
  PROVE  /\ pc = "create" /\ pc' = "stale" /\ wanted' = Cardinality(Wanted) + 1
         /\ Cardinality(Wanted) \in Nat /\ wanted \in Nat /\ \A t \in Live : t \in Wanted
         /\ Fewer => wanted' < wanted
         /\ ~Fewer => wanted <= wanted'
         /\ UNCHANGED <<ports, need, n_txq, txq_mode, cmask, todo, bumped>>
         /\ wanted' # wanted => ports \subseteq reconf'
<1>1. /\ pc = "create" /\ pc' = "stale" /\ wanted' = Cardinality(threads \cup Wanted)
      /\ UNCHANGED <<ports, need, n_txq, txq_mode, cmask, todo, bumped>>
      /\ wanted' # wanted => ports \subseteq reconf'
  BY DEF CreatePmds, portVars
<1>2. \A t \in Live : t \in Wanted
  BY <1>1 DEF ThreadsWanted, Stays, Changed, Live, Typed
<1>3. threads \cup Wanted = Wanted \cup {NonPmd} /\ NonPmd \notin Wanted
  BY <1>2, Members, WantedTyped DEF Live
<1>4. IsFiniteSet(Wanted) /\ Cardinality(Wanted) \in Nat
  BY WantedTyped, ThreadCount, FS_Subset, FS_CardinalityType
<1>5. Cardinality(Wanted \cup {NonPmd}) = Cardinality(Wanted) + 1
  BY <1>3, <1>4, FS_AddElement
<1>6. wanted \in Nat
  BY ThreadCount DEF Typed
<1>7. wanted' = Cardinality(Wanted) + 1
  BY <1>1, <1>3, <1>5
<1>8. (Fewer => wanted' < wanted) /\ (~Fewer => wanted <= wanted')
  BY <1>4, <1>6, <1>7 DEF Fewer
<1> HIDE DEF Fewer, Live, Wanted
<1> QED
  BY <1>1, <1>2, <1>4, <1>6, <1>7, <1>8

(* Every step but Fill keeps the ports a thread sends to from growing.     *)
LEMMA SendStep ==
  ASSUME Typed, Blank, OwnIds, Counted, Signals, Next
  PROVE  AllSend
<1>1. CASE Calm
  BY <1>1, Members DEF AllSend, Calm, SendDown, Sendable, SameLists
<1>2. CASE ReloadNonPmd
  BY <1>2, ReloadNonPmdEffect, Members
     DEF AllSend, ReloadNonPmd, mainVars, confVars, portVars, schedVars, SendDown, Sendable,
         SameLists
<1>3. ASSUME NEW t \in Core, JoinPmd(t)
      PROVE  AllSend
  BY <1>3, CoreIsThread, JoinPmdEffect, Members
     DEF AllSend, JoinPmd, Others, mainVars, confVars, portVars, schedVars, SendDown, Sendable,
         SameLists
<1>4. CASE CreatePmds
  BY <1>4, CreatePmdsEffect, Members
     DEF AllSend, CreatePmds, mainVars, confVars, portVars, schedVars, SendDown, Sendable,
         SameLists, Blank, BlankOf
<1>5. CASE RemoveStale
  BY <1>5, RemoveStaleEffect, ListsKeep, Members
     DEF AllSend, ConfKept, SendDown, Sendable, SameLists
<1>6. CASE Comply
  BY <1>6, ComplyEffect, ListsKeep, Members DEF AllSend, ConfKept, SendDown, Sendable, SameLists
<1>7. ASSUME NEW t \in Thread, Fill(t)
      PROVE  AllSend
  BY <1>7, FillEffect, ListsKeep, Members DEF AllSend, ConfKept, SendDown, Sendable, SameLists
<1>8. ASSUME NEW t \in Thread, ThreadMove(t)
      PROVE  AllSend
  <2>1. Others(t) /\ MainKept
    BY <1>8 DEF ThreadMove
  <2>2. ASSUME NEW u \in Thread, u = t
        PROVE  SendDown(u)
    BY <2>1, <2>2, <1>8, Members
       DEF ThreadMove, SendDown, Sendable, SameLists, Loads, TakesId, DropsId, Wakes, Answers,
           Ends, Sending, SameUse, SameXps, SameId, MainKept, ConfKept
  <2>3. ASSUME NEW u \in Thread, u # t
        PROVE  SendDown(u)
    BY <2>1, <2>3, Members DEF Others, SameLists, MainKept, ConfKept, SendDown, Sendable
  <2> QED
    BY <2>2, <2>3 DEF AllSend
<1> QED
  BY <1>1, <1>2, <1>3, <1>4, <1>5, <1>6, <1>7, <1>8, ListCases

(* Once those to end are gone the threads fit the wanted number.           *)
LEMMA StayCount ==
  ASSUME Typed, ThreadsWanted, pc \in Changed
  PROVE  /\ Cardinality(threads) \in Nat /\ Cardinality(Wanted) \in Nat
         /\ Cardinality(threads) <= Cardinality(Wanted) + 1
<1>1. \A t \in Live : t \in Wanted
  BY DEF ThreadsWanted, Stays, Live, Typed
<1>2. IsFiniteSet(Wanted) /\ Cardinality(Wanted) \in Nat /\ NonPmd \notin Wanted
      /\ Cardinality(threads) \in Nat
  BY Members, WantedTyped, ThreadCount, FS_Subset, FS_CardinalityType
<1>3. Cardinality(Wanted \cup {NonPmd}) = Cardinality(Wanted) + 1
      /\ IsFiniteSet(Wanted \cup {NonPmd})
  BY <1>2, FS_AddElement
<1>4. threads \subseteq Wanted \cup {NonPmd}
  BY <1>1 DEF Live
<1>5. Cardinality(threads) <= Cardinality(Wanted \cup {NonPmd})
  BY <1>3, <1>4, FS_Subset
<1> QED
  BY <1>2, <1>3, <1>5

(* A thread that sees that it should take a new id does so while the main  *)
(* thread waits before it creates threads.                                 *)
LEMMA RenewalSeen ==
  ASSUME Typed, Blank, Signals, Handover, ThreadsWanted, NEW t \in Thread, th[t].pc = "loaded",
         sh[t].reload_tx_qid
  PROVE  Fewer /\ pc = "reload1" /\ t \in Wanted
<1>1. sh[t].reload /\ t \in threads
  BY DEF Handover, HandedOver, Blank, BlankOf
<1>2. t \in Core /\ (pc \in Reloads \/ (pc = "join" /\ sh[t].exit))
  BY <1>1 DEF Signals, FlagsOf
<1>3. Fewer /\ t \in Wanted /\ (pc \in Deleting \/ pc = "reload1")
  BY DEF ThreadsWanted, Renews
<1>4. pc \in Deleting => ~sh[t].exit
  BY <1>1, <1>2, <1>3, Members DEF ThreadsWanted, Stays, Live
<1> QED
  BY <1>2, <1>3, <1>4 DEF Deleting, Reloads

EnoughPorts == pc # "stale" => \A p \in ports \ need : PortFits(p)

(* Every step keeps a tx queue per thread at the static ports that are     *)
(* ready.                                                                  *)
LEMMA EnoughPortsStep ==
  ASSUME Typed, Blank, OwnIds, Counted, Signals, Handover, PortsKept, ThreadsWanted, IdsFit, TxqsEnough, Next
  PROVE  EnoughPorts'
<1>1. CASE Idle \/ Placing
  BY <1>1 DEF Idle, AllKept, Placing, EnoughPorts, PortFits, Static, TxqsEnough
<1>2. ASSUME NEW p \in Port, AddPort(p)
      PROVE  EnoughPorts'
  BY <1>2
     DEF AddPort, mainVars, confVars, portVars, schedVars, EnoughPorts, PortFits, Static,
         TxqsEnough, Typed
<1>3. ASSUME NEW p \in Port, DelPort(p)
      PROVE  EnoughPorts'
  BY <1>3
     DEF DelPort, mainVars, confVars, portVars, schedVars, EnoughPorts, PortFits, Static,
         TxqsEnough
<1>4. ASSUME NEW t \in Thread, BumpSeq(t)
      PROVE  EnoughPorts'
  BY <1>4, BumpSeqEffect
     DEF BumpSeq, SameFlags, mainVars, confVars, portVars, schedVars, EnoughPorts, PortFits,
         Static, TxqsEnough, Reloads, Signals, Bumped
<1>5. CASE StoreReload
  BY <1>5, StoreReloadEffect
     DEF StoreReload, mainVars, confVars, portVars, schedVars, EnoughPorts, PortFits, Static,
         TxqsEnough, Reloads, Signals, Bumped
<1>6. CASE ReloadNonPmd
  BY <1>6, ReloadNonPmdEffect
     DEF ReloadNonPmd, mainVars, confVars, portVars, schedVars, EnoughPorts, PortFits, Static,
         TxqsEnough, Reloads, Signals, Bumped
<1>7. ASSUME NEW r, NEW k, Waited(r, k)
      PROVE  EnoughPorts'
  BY <1>7, AwaitEffect, AwaitKeeps
     DEF Waited, Waits, ConfKept, EnoughPorts, PortFits, Static, TxqsEnough
<1>8. CASE CheckThreads
  BY <1>8, CheckThreadsEffect
     DEF CheckThreads, mainVars, confVars, portVars, schedVars, EnoughPorts, PortFits, Static,
         TxqsEnough
<1>9. ASSUME NEW t \in Core, DelPmd(t)
      PROVE  EnoughPorts'
  BY <1>9, CoreIsThread, DelPmdEffect
     DEF DelPmd, mainVars, confVars, portVars, schedVars, EnoughPorts, PortFits, Static,
         TxqsEnough
<1>10. ASSUME NEW t \in Core, JoinPmd(t)
      PROVE  EnoughPorts'
  BY <1>10, CoreIsThread, JoinPmdEffect
     DEF JoinPmd, Others, mainVars, confVars, portVars, schedVars, EnoughPorts, PortFits,
         Static, TxqsEnough
<1>11. CASE DeleteDone \/ ReconfigureDone \/ FillStart \/ FillTxStart \/ FillDone \/ Finish
  BY <1>11
     DEF DeleteDone, mainVars, confVars, portVars, schedVars, ReconfigureDone, FillStart, FillTxStart,
         FillDone, Finish, EnoughPorts, PortFits, Static, TxqsEnough
<1>12. CASE CreatePmds
  BY <1>12, CreatePmdsEffect
     DEF CreatePmds, mainVars, confVars, portVars, schedVars, EnoughPorts, PortFits, Static,
         TxqsEnough
<1>13. CASE RemoveStale
  BY <1>13, RemoveStaleEffect, ListsKeep, ThreadCount
     DEF ConfKept, EnoughPorts, PortFits, Static, TxqsEnough, Needing, Typed
<1>14. ASSUME NEW p \in Port, Reconfigure(p)
      PROVE  EnoughPorts'
  <2>1. /\ wanted' = wanted /\ need' = need \ {p} /\ pc = "ports" /\ pc' = "ports" /\ p \in ports
        /\ n_txq \in [Port -> Nat] /\ txq_mode \in [Port -> {"static", "xps"}] /\ wanted \in Nat
    BY <1>14, ThreadCount DEF Reconfigure, Typed
  <2>2. CASE ports' = ports \ {p} /\ n_txq' = n_txq /\ txq_mode' = txq_mode
    BY <2>1, <2>2 DEF TxqsEnough, EnoughPorts, PortFits, Static
  <2>3. CASE /\ ports' = ports /\ n_txq' = [n_txq EXCEPT ![p] = Min2(wanted, HwTxq[p])]
             /\ txq_mode' = [txq_mode EXCEPT ![p] = IF n_txq'[p] < wanted THEN "xps" ELSE "static"]
    <3>1. \A o \in ports \ need : PortFits(o)
      BY <2>1 DEF TxqsEnough
    <3> DEFINE m == Min2(wanted, HwTxq[p])
    <3>2. m \in Nat
      BY <2>1, ReloadAssumption DEF Min2
    <3> HIDE DEF m
    <3>3. n_txq'[p] = m /\ txq_mode'[p] = (IF m < wanted THEN "xps" ELSE "static")
      BY <2>1, <2>3 DEF m
    <3>4. PortFits(p)'
      BY <2>1, <3>2, <3>3 DEF PortFits, Static
    <3>5. ASSUME NEW o \in ports \ need, o # p
          PROVE  PortFits(o)'
      <4>1. n_txq'[o] = n_txq[o] /\ txq_mode'[o] = txq_mode[o]
        BY <2>1, <2>3, <3>5
      <4> QED
        BY <2>1, <3>1, <3>5, <4>1 DEF PortFits, Static
    <3> QED
      BY <2>1, <2>3, <3>4, <3>5 DEF EnoughPorts
  <2> QED
    BY <1>14, <2>2, <2>3 DEF Reconfigure
<1>15. CASE Comply
  BY <1>15, ComplyEffect, ListsKeep DEF ConfKept, EnoughPorts, PortFits, Static, TxqsEnough
<1>16. ASSUME NEW t \in Thread, Fill(t)
      PROVE  EnoughPorts'
  BY <1>16, FillEffect, ListsKeep DEF ConfKept, EnoughPorts, PortFits, Static, TxqsEnough
<1>17. ASSUME NEW t \in Thread, ThreadMove(t)
      PROVE  EnoughPorts'
  <2>1. MainKept
    BY <1>17 DEF ThreadMove
  <2> QED
    BY <2>1 DEF MainKept, ConfKept, EnoughPorts, PortFits, Static, TxqsEnough
<1> QED
  BY <1>1, <1>2, <1>3, <1>4, <1>5, <1>6, <1>7, <1>8, <1>9, <1>10, <1>11, <1>12, <1>13, <1>14,
     <1>15, <1>16, <1>17, NextCases

EnoughAll == \A t \in Thread : Enough(t)

(* Every step keeps enough tx queues for the threads that have no id yet.  *)
LEMMA EnoughStep ==
  ASSUME Typed, Blank, OwnIds, Counted, Signals, Handover, PortsKept, ThreadsWanted, IdsFit, TxqsEnough, Next
  PROVE  EnoughAll'
<1>1. CASE Idle \/ Placing
  BY <1>1
     DEF Idle, AllKept, Placing, TxqsEnough, Enough, PortFits, Static, SendDown, Unready,
         EnoughAll, Sendable
<1>2. ASSUME NEW p \in Port, AddPort(p)
      PROVE  EnoughAll'
  BY <1>2, SendStep
     DEF EnoughAll, AllSend, AddPort, mainVars, confVars, portVars, schedVars, TxqsEnough,
         Enough, PortFits, Static, SendDown, Unready, PortsKept, PortsThere, Listed, Uses,
         Sendable, Typed
<1>3. ASSUME NEW p \in Port, DelPort(p)
      PROVE  EnoughAll'
  BY <1>3, SendStep
     DEF EnoughAll, AllSend, DelPort, mainVars, confVars, portVars, schedVars, TxqsEnough,
         Enough, PortFits, Static, SendDown, Unready
<1>4. ASSUME NEW t \in Thread, BumpSeq(t)
      PROVE  EnoughAll'
  BY <1>4, SendStep, BumpSeqEffect
     DEF EnoughAll, AllSend, BumpSeq, SameFlags, mainVars, confVars, portVars, schedVars,
         TxqsEnough, Enough, PortFits, Static, SendDown, Unready, Signals, Reloads, Bumped
<1>5. CASE StoreReload
  BY <1>5, SendStep, StoreReloadEffect
     DEF EnoughAll, AllSend, StoreReload, mainVars, confVars, portVars, schedVars, TxqsEnough,
         Enough, PortFits, Static, SendDown, Unready, Signals, Reloads, Bumped
<1>6. CASE ReloadNonPmd
  BY <1>6, SendStep, ReloadNonPmdEffect
     DEF EnoughAll, AllSend, ReloadNonPmd, mainVars, confVars, portVars, schedVars, TxqsEnough,
         Enough, PortFits, Static, SendDown, Unready, Blank, BlankOf
<1>7. ASSUME NEW r, NEW k, Waited(r, k)
      PROVE  EnoughAll'
  <2> SUFFICES ASSUME NEW u \in Thread
               PROVE  Enough(u)'
    BY DEF EnoughAll
  <2>1. /\ pc = r /\ pc' = k /\ <<r, k>> \in Waits /\ r \in Reloads /\ th' = th /\ ConfKept
        /\ UNCHANGED <<wanted, need>> /\ Await(r, k)
    BY <1>7, AwaitKeeps DEF Waited, Waits, Reloads
  <2>2. Fresh(u) /\ SameLists(u)
    BY <2>1, AwaitAll, AwaitEffect
  <2>3. Sendable(u)' = Sendable(u) /\ Unready(u)' = Unready(u)
    BY <2>1, <2>2 DEF Sendable, SameLists, Unready
  <2>4. pc = "reload2" => Sendable(u) \subseteq ports \ need
    BY <2>2 DEF Fresh, Sendable, PortsKept, PortsThere, Listed
  <2>5. \A p \in Port : PortFits(p)' = PortFits(p)
    BY <2>1 DEF ConfKept, PortFits, Static
  <2>6. Sendable(u) \subseteq Port
    BY DEF Sendable, Typed, SharedType, LocalType
  <2> QED
    BY <2>1, <2>3, <2>4, <2>5, <2>6 DEF Waits, Enough, TxqsEnough
<1>8. CASE CheckThreads
  BY <1>8, SendStep, CheckThreadsEffect
     DEF EnoughAll, AllSend, CheckThreads, mainVars, confVars, portVars, schedVars, TxqsEnough,
         Enough, PortFits, Static, SendDown, Unready
<1>9. ASSUME NEW t \in Core, DelPmd(t)
      PROVE  EnoughAll'
  BY <1>9, SendStep, CoreIsThread, DelPmdEffect
     DEF EnoughAll, AllSend, DelPmd, mainVars, confVars, portVars, schedVars, TxqsEnough,
         Enough, PortFits, Static, SendDown, Unready
<1>10. ASSUME NEW t \in Core, JoinPmd(t)
      PROVE  EnoughAll'
  BY <1>10, SendStep, CoreIsThread, JoinPmdEffect
     DEF EnoughAll, AllSend, JoinPmd, Others, mainVars, confVars, portVars, schedVars,
         TxqsEnough, Enough, PortFits, Static, SendDown, Unready
<1>11. CASE DeleteDone \/ ReconfigureDone \/ FillStart \/ FillTxStart \/ FillDone \/ Finish
  BY <1>11
     DEF DeleteDone, mainVars, confVars, portVars, schedVars, ReconfigureDone, FillStart, FillTxStart,
         FillDone, Finish, TxqsEnough, Enough, PortFits, Static, SendDown, Unready, EnoughAll,
         Sendable
<1>12. CASE CreatePmds
  <2> SUFFICES ASSUME NEW u \in Thread, Unready(u)', NEW p \in Sendable(u)'
               PROVE  PortFits(p)'
    BY <1>12, CreateCount DEF EnoughAll, Enough
  <2>1. u \notin Wanted \ threads
    BY <1>12, CreatePmdsEffect DEF Sendable, Blank, BlankOf
  <2>2. th'[u] = th[u] /\ sh' = sh
    BY <1>12, <2>1, CreatePmdsEffect
  <2>3. Unready(u) /\ p \in Sendable(u)
    BY <2>2 DEF Unready, Sendable
  <2>4. Fewer /\ PortFits(p)
    BY <1>12, <2>3, CreateCount DEF TxqsEnough, Excused, Enough
  <2>5. p \in Port /\ n_txq \in [Port -> Nat]
    BY <2>3, ThreadCount DEF Sendable, Typed, SharedType, LocalType
  <2> QED
    BY <1>12, <2>4, <2>5, CreateCount DEF PortFits, Static
<1>13. CASE RemoveStale
  BY <1>13, SendStep, RemoveStaleEffect, ListsKeep
     DEF EnoughAll, AllSend, ConfKept, TxqsEnough, Enough, PortFits, Static, SendDown, Unready
<1>14. ASSUME NEW p \in Port, Reconfigure(p)
      PROVE  EnoughAll'
  BY <1>14, SendStep
     DEF EnoughAll, AllSend, Reconfigure, mainVars, confVars, portVars, schedVars, TxqsEnough,
         Enough, PortFits, Static, SendDown, Unready, PortsKept, PortsThere, Listed, Uses,
         Sendable, Typed
<1>15. CASE Comply
  BY <1>15, SendStep, ComplyEffect, ListsKeep
     DEF EnoughAll, AllSend, ConfKept, TxqsEnough, Enough, PortFits, Static, SendDown, Unready
<1>16. ASSUME NEW t \in Thread, Fill(t)
      PROVE  EnoughAll'
  BY <1>16, SendStep, FillEffect, ListsKeep
     DEF EnoughAll, AllSend, ConfKept, TxqsEnough, Enough, PortFits, Static, SendDown, Unready,
         PortsKept, Settled
<1>17. ASSUME NEW t \in Thread, ThreadMove(t)
      PROVE  EnoughAll'
  <2>1. AllSend /\ Others(t) /\ MainKept
    BY <1>17, SendStep DEF ThreadMove
  <2>2. ASSUME NEW u \in Thread, u = t, Unready(t)'
        PROVE  Unready(t) \/ pc = "reload1"
    <3>1. CASE Answers(t)
      BY <2>2, <3>1, RenewalSeen DEF Answers, Unready, Awake
    <3> QED
      BY <1>17, <2>2, <3>1 DEF ThreadMove, Loads, TakesId, DropsId, Wakes, Ends, Sending, Unready, Awake
  <2>3. ASSUME NEW u \in Thread
        PROVE  Enough(u)'
    <3>1. Sendable(u)' \subseteq Sendable(u) \cup (IF pc \in {"fill", "filltx"} /\ u \in todo \ todo' THEN ports ELSE {})
      BY <2>1 DEF AllSend, SendDown
    <3>2. Unready(u)' => Unready(u) \/ pc = "reload1"
      BY <2>1, <2>2 DEF Others, Unready
    <3> QED
      BY <2>1, <3>1, <3>2 DEF MainKept, ConfKept, TxqsEnough, Enough, PortFits, Static
  <2> QED
    BY <2>3 DEF EnoughAll
<1> QED
  BY <1>1, <1>2, <1>3, <1>4, <1>5, <1>6, <1>7, <1>8, <1>9, <1>10, <1>11, <1>12, <1>13, <1>14,
     <1>15, <1>16, <1>17, NextCases

ExcusedAll == \A t \in Thread : Excused(t)

(* Every step keeps the few reasons why a thread without an id has ports.  *)
LEMMA ExcusedStep ==
  ASSUME Typed, Blank, OwnIds, Counted, Signals, Handover, PortsKept, ThreadsWanted, IdsFit, TxqsEnough, Next
  PROVE  ExcusedAll'
<1>1. CASE Idle \/ Placing
  BY <1>1
     DEF Idle, AllKept, Placing, TxqsEnough, Excused, Unready, Fewer, Wanted, Changed, Reloads,
         SendDown, Pending, ExcusedAll, Sendable
<1>2. ASSUME NEW p \in Port, AddPort(p)
      PROVE  ExcusedAll'
  BY <1>2, SendStep
     DEF ExcusedAll, AllSend, AddPort, mainVars, confVars, portVars, schedVars, TxqsEnough,
         Excused, Unready, Fewer, Wanted, Changed, Reloads, SendDown, Pending
<1>3. ASSUME NEW p \in Port, DelPort(p)
      PROVE  ExcusedAll'
  BY <1>3, SendStep
     DEF ExcusedAll, AllSend, DelPort, mainVars, confVars, portVars, schedVars, TxqsEnough,
         Excused, Unready, Fewer, Wanted, Changed, Reloads, SendDown, Pending
<1>4. ASSUME NEW t \in Thread, BumpSeq(t)
      PROVE  ExcusedAll'
  BY <1>4, SendStep, BumpSeqEffect
     DEF ExcusedAll, AllSend, BumpSeq, SameFlags, mainVars, confVars, portVars, schedVars,
         TxqsEnough, Excused, Unready, Fewer, Wanted, Changed, Reloads, SendDown, Pending,
         Signals, Bumped
<1>5. CASE StoreReload
  BY <1>5, SendStep, StoreReloadEffect
     DEF ExcusedAll, AllSend, StoreReload, mainVars, confVars, portVars, schedVars, TxqsEnough,
         Excused, Unready, Fewer, Wanted, Changed, Reloads, SendDown, Pending, Signals, Bumped
<1>6. CASE ReloadNonPmd
  BY <1>6, SendStep, ReloadNonPmdEffect
     DEF ExcusedAll, AllSend, ReloadNonPmd, mainVars, confVars, portVars, schedVars, TxqsEnough,
         Excused, Unready, Fewer, Wanted, Changed, Reloads, SendDown, Pending, Blank, BlankOf
<1>7. ASSUME NEW r, NEW k, Waited(r, k)
      PROVE  ExcusedAll'
  <2> SUFFICES ASSUME NEW u \in Thread, Unready(u)', Sendable(u)' # {}
               PROVE  Excused(u)'
    BY DEF ExcusedAll, Excused
  <2>1. /\ pc = r /\ pc' = k /\ <<r, k>> \in Waits /\ r \in Reloads /\ todo = {} /\ th' = th
        /\ ConfKept /\ wanted' = wanted /\ Await(r, k)
    BY <1>7, AwaitKeeps DEF Waited, Waits, Reloads
  <2>2. ~Pending(u) /\ SameLists(u)
    BY <2>1, AwaitAll, AwaitEffect DEF Pending
  <2>3. Unready(u) /\ Sendable(u) # {}
    BY <2>1, <2>2 DEF Unready, Sendable, SameLists
  <2>4. r = "reload1" /\ Fewer
    BY <2>1, <2>2, <2>3 DEF TxqsEnough, Excused, Changed, Reloads
  <2> QED
    BY <2>1, <2>4 DEF Waits, ConfKept, Excused, Fewer, Wanted, Changed
<1>8. CASE CheckThreads
  BY <1>8, SendStep, CheckThreadsEffect
     DEF ExcusedAll, AllSend, CheckThreads, mainVars, confVars, portVars, schedVars, TxqsEnough,
         Excused, Unready, Fewer, Wanted, Changed, Reloads, SendDown, Pending
<1>9. ASSUME NEW t \in Core, DelPmd(t)
      PROVE  ExcusedAll'
  BY <1>9, SendStep, CoreIsThread, DelPmdEffect
     DEF ExcusedAll, AllSend, DelPmd, mainVars, confVars, portVars, schedVars, TxqsEnough,
         Excused, Unready, Fewer, Wanted, Changed, Reloads, SendDown, Pending
<1>10. ASSUME NEW t \in Core, JoinPmd(t)
      PROVE  ExcusedAll'
  BY <1>10, SendStep, CoreIsThread, JoinPmdEffect
     DEF ExcusedAll, AllSend, JoinPmd, Others, mainVars, confVars, portVars, schedVars,
         TxqsEnough, Excused, Unready, Fewer, Wanted, Changed, Reloads, SendDown, Pending
<1>11. CASE DeleteDone \/ FillStart \/ FillTxStart \/ FillDone
  BY <1>11, Members
     DEF DeleteDone, mainVars, confVars, portVars, schedVars, FillStart, FillTxStart, FillDone, TxqsEnough,
         Excused, Unready, Fewer, Wanted, Changed, Reloads, SendDown, Pending, ExcusedAll,
         Sendable, NeedReload, Blank, BlankOf
<1>12. CASE CreatePmds
  <2> SUFFICES ASSUME NEW u \in Thread, Unready(u)', Sendable(u)' # {}
               PROVE  Excused(u)'
    BY DEF ExcusedAll, Excused
  <2>1. u \notin Wanted \ threads
    BY <1>12, CreatePmdsEffect DEF Sendable, Blank, BlankOf
  <2>2. th'[u] = th[u] /\ sh' = sh
    BY <1>12, <2>1, CreatePmdsEffect
  <2>3. Unready(u) /\ Sendable(u) # {}
    BY <2>2 DEF Unready, Sendable
  <2>4. Fewer
    BY <1>12, <2>3, CreateCount DEF TxqsEnough, Excused
  <2>5. pc' = "stale" /\ ports \subseteq reconf' /\ ports' = ports
    BY <1>12, <2>4, CreateCount
  <2> QED
    BY <2>5 DEF Excused
<1>13. CASE RemoveStale
  <2> SUFFICES ASSUME NEW u \in Thread, Unready(u)', Sendable(u)' # {}
               PROVE  Excused(u)'
    BY DEF ExcusedAll, Excused
  <2>1. /\ pc = "stale" /\ pc' = "reload2" /\ th' = th /\ need' = Needing /\ ConfKept
        /\ todo' = {t \in threads : sh'[t].need_reload} /\ threads' = threads
    BY <1>13, ListsKeep
  <2>2. Unready(u) /\ Sendable(u) # {}
    BY <2>1, SendStep DEF Unready, AllSend, SendDown
  <2>3. ports \subseteq reconf
    BY <2>1, <2>2 DEF TxqsEnough, Excused, Changed
  <2>4. sh[u].tx_ports \in SUBSET Port /\ sh'[u].tx_ports = sh[u].tx_ports \ (need' \cup (Port \ ports))
    BY <1>13, RemoveStaleEffect DEF Typed, SharedType
  <2>5. sh'[u].tx_ports = {}
    BY <2>1, <2>3, <2>4 DEF Needing
  <2>6. Fresh(u)
    BY <2>1 DEF Handover, HandedOver, Pending, Reloads
  <2>7. sh[u].tx_ports # {}
    BY <2>2, <2>6 DEF Sendable, Fresh
  <2>8. u \in threads
    BY <2>7 DEF Blank, BlankOf
  <2>9. sh'[u].need_reload
    BY <1>13, <2>5, <2>7, RemoveStaleEffect DEF SameLists
  <2> QED
    BY <2>1, <2>5, <2>8, <2>9 DEF Excused, Pending
<1>14. ASSUME NEW p \in Port, Reconfigure(p)
      PROVE  ExcusedAll'
  BY <1>14, SendStep
     DEF ExcusedAll, AllSend, Reconfigure, mainVars, confVars, portVars, schedVars, TxqsEnough,
         Excused, Unready, Fewer, Wanted, Changed, Reloads, SendDown, Pending
<1>15. CASE ReconfigureDone \/ Finish
  BY <1>15
     DEF ReconfigureDone, mainVars, confVars, portVars, schedVars, Finish, TxqsEnough, Excused,
         Unready, Fewer, Wanted, Changed, Reloads, SendDown, Pending, ExcusedAll, Sendable
<1>16. CASE Comply
  BY <1>16, SendStep, ComplyEffect, ListsKeep
     DEF ExcusedAll, AllSend, ConfKept, TxqsEnough, Excused, Unready, Fewer, Wanted, Changed,
         Reloads, SendDown, Pending
<1>17. ASSUME NEW t \in Thread, Fill(t)
      PROVE  ExcusedAll'
  BY <1>17, SendStep, FillEffect, ListsKeep
     DEF ExcusedAll, AllSend, ConfKept, TxqsEnough, Excused, Unready, Fewer, Wanted, Changed,
         Reloads, SendDown, Pending, Sendable, SameLists
<1>18. ASSUME NEW t \in Thread, ThreadMove(t)
      PROVE  ExcusedAll'
  <2>1. AllSend /\ Others(t) /\ MainKept
    BY <1>18, SendStep DEF ThreadMove
  <2>2. ASSUME NEW u \in Thread, u = t
        PROVE  Excused(u)'
    <3>1. CASE Answers(t) /\ sh[t].reload_tx_qid
      <4>1. Fewer /\ pc = "reload1"
        BY <3>1, RenewalSeen DEF Answers
      <4> QED
        BY <2>1, <4>1 DEF MainKept, ConfKept, Excused, Fewer, Wanted, Changed
    <3>2. CASE Answers(t) /\ ~sh[t].reload_tx_qid
      BY <2>2, <3>2 DEF Answers, Excused, Unready, Awake
    <3>3. CASE Loads(t) \/ TakesId(t) \/ DropsId(t)
      <4>1. /\ sh' = sh /\ (Unready(t)' => Unready(t)) /\ Fewer' = Fewer
            /\ (Sendable(t)' # {} => Sendable(t) # {})
        BY <2>1, <3>3
           DEF Loads, TakesId, DropsId, SameUse, Unready, Awake, Sendable, MainKept, ConfKept, Fewer, Wanted
      <4> QED
        BY <2>1, <2>2, <4>1 DEF MainKept, ConfKept, TxqsEnough, Excused, Pending
    <3>4. CASE Wakes(t) \/ Ends(t) \/ Sending(t)
      BY <2>2, <3>4 DEF Wakes, Ends, Sending, Excused, Unready
    <3> QED
      BY <1>18, <3>1, <3>2, <3>3, <3>4 DEF ThreadMove
  <2>3. ASSUME NEW u \in Thread, u # t
        PROVE  Excused(u)'
    BY <2>1, <2>3
       DEF TxqsEnough, Excused, Unready, Fewer, Wanted, Changed, Sendable, Pending, Others, MainKept,
           ConfKept
  <2> QED
    BY <2>2, <2>3 DEF ExcusedAll
<1> QED
  BY <1>1, <1>2, <1>3, <1>4, <1>5, <1>6, <1>7, <1>8, <1>9, <1>10, <1>11, <1>12, <1>13, <1>14,
     <1>15, <1>16, <1>17, <1>18, NextCases

IdFitsAll == \A t \in Thread : IdFits(t)

(* Every step keeps ids below the number of threads and of tx queues.      *)
LEMMA IdFitsStep ==
  ASSUME Typed, Blank, OwnIds, Counted, Signals, Handover, PortsKept, ThreadsWanted, IdsFit, TxqsEnough, Next
  PROVE  IdFitsAll'
<1>1. CASE Idle \/ Placing
  BY <1>1 DEF Idle, AllKept, Placing, IdsFit, IdFits, Steady, Static, SendDown, IdFitsAll, Sendable
<1>2. ASSUME NEW p \in Port, AddPort(p)
      PROVE  IdFitsAll'
  BY <1>2, SendStep
     DEF IdFitsAll, AllSend, AddPort, mainVars, confVars, portVars, schedVars, IdsFit, IdFits,
         Steady, Static, SendDown, PortsKept, PortsThere, Listed, Uses, Sendable, Typed
<1>3. ASSUME NEW p \in Port, DelPort(p)
      PROVE  IdFitsAll'
  BY <1>3, SendStep
     DEF IdFitsAll, AllSend, DelPort, mainVars, confVars, portVars, schedVars, IdsFit, IdFits,
         Steady, Static, SendDown
<1>4. ASSUME NEW t \in Thread, BumpSeq(t)
      PROVE  IdFitsAll'
  BY <1>4, SendStep, BumpSeqEffect
     DEF IdFitsAll, AllSend, BumpSeq, SameFlags, mainVars, confVars, portVars, schedVars,
         IdsFit, IdFits, Steady, Static, SendDown, Signals, Reloads, Bumped
<1>5. CASE StoreReload
  BY <1>5, SendStep, StoreReloadEffect
     DEF IdFitsAll, AllSend, StoreReload, mainVars, confVars, portVars, schedVars, IdsFit,
         IdFits, Steady, Static, SendDown, Signals, Reloads, Bumped
<1>6. CASE ReloadNonPmd
  BY <1>6, SendStep, ReloadNonPmdEffect
     DEF IdFitsAll, AllSend, ReloadNonPmd, mainVars, confVars, portVars, schedVars, IdsFit,
         IdFits, Steady, Static, SendDown, Blank, BlankOf
<1>7. ASSUME NEW r, NEW k, Waited(r, k)
      PROVE  IdFitsAll'
  BY <1>7, SendStep, AwaitEffect, AwaitKeeps
     DEF IdFitsAll, AllSend, Waited, Waits, ConfKept, IdsFit, IdFits, Steady, Static, SendDown
<1>8. CASE CheckThreads
  BY <1>8, SendStep, CheckThreadsEffect
     DEF IdFitsAll, AllSend, CheckThreads, mainVars, confVars, portVars, schedVars, IdsFit,
         IdFits, Steady, Static, SendDown
<1>9. ASSUME NEW t \in Core, DelPmd(t)
      PROVE  IdFitsAll'
  BY <1>9, SendStep, CoreIsThread, DelPmdEffect
     DEF IdFitsAll, AllSend, DelPmd, mainVars, confVars, portVars, schedVars, IdsFit, IdFits,
         Steady, Static, SendDown
<1>10. ASSUME NEW t \in Core, JoinPmd(t)
      PROVE  IdFitsAll'
  BY <1>10, SendStep, CoreIsThread, JoinPmdEffect
     DEF IdFitsAll, AllSend, JoinPmd, Others, mainVars, confVars, portVars, schedVars, IdsFit,
         IdFits, Steady, Static, SendDown
<1>11. CASE DeleteDone \/ ReconfigureDone \/ FillStart \/ FillTxStart \/ FillDone \/ Finish
  BY <1>11
     DEF DeleteDone, mainVars, confVars, portVars, schedVars, ReconfigureDone, FillStart, FillTxStart,
         FillDone, Finish, IdsFit, IdFits, Steady, Static, SendDown, IdFitsAll, Sendable
<1>12. CASE CreatePmds
  <2> SUFFICES ASSUME NEW u \in Thread, Steady(u)'
               PROVE  IdFits(u)'
    BY DEF IdFitsAll, IdFits
  <2>1. u \notin Wanted \ threads
    BY <1>12, CreatePmdsEffect DEF Steady
  <2>2. th'[u] = th[u] /\ sh' = sh
    BY <1>12, <2>1, CreatePmdsEffect
  <2>3. Steady(u) /\ Sendable(u)' = Sendable(u) /\ u \in threads
    BY <2>2 DEF Steady, Sendable, Blank, BlankOf
  <2>4. th[u].qid < wanted /\ \A p \in Sendable(u) : Static(p) => th[u].qid < n_txq[p]
    BY <2>3 DEF IdsFit, IdFits
  <2>5. Fewer => th[u].qid <= Cardinality(Wanted)
    BY <1>12, <2>3, CreateCount DEF IdsFit, Renewed, ThreadsWanted, Renews, Changed, Deleting
  <2>6. th[u].qid \in Int /\ wanted' = Cardinality(Wanted) + 1
        /\ Cardinality(Wanted) \in Nat /\ wanted \in Nat /\ (~Fewer => wanted <= wanted')
    BY <1>12, CreateCount, ThreadCount DEF Typed, LocalType, Txq, NoQid
  <2>7. th[u].qid < wanted'
    BY <2>4, <2>5, <2>6
  <2> QED
    BY <1>12, <2>2, <2>3, <2>4, <2>7, CreateCount DEF IdFits, Static
<1>13. CASE RemoveStale
  BY <1>13, SendStep, RemoveStaleEffect, ListsKeep
     DEF IdFitsAll, AllSend, ConfKept, IdsFit, IdFits, Steady, Static, SendDown
<1>14. ASSUME NEW p \in Port, Reconfigure(p)
      PROVE  IdFitsAll'
  <2> SUFFICES ASSUME NEW u \in Thread
               PROVE  IdFits(u)'
    BY DEF IdFitsAll
  <2>1. pc = "ports" /\ p \in need /\ th' = th /\ sh' = sh /\ wanted' = wanted
    BY <1>14 DEF Reconfigure
  <2>2. \A o \in Port \ {p} : n_txq'[o] = n_txq[o] /\ txq_mode'[o] = txq_mode[o]
    BY <1>14 DEF Reconfigure, Typed
  <2>3. Sendable(u) \subseteq Port \ {p}
    BY <2>1 DEF Typed, PortsKept, PortsThere, Listed, Uses, Sendable
  <2>4. IdFits(u) /\ Sendable(u)' = Sendable(u)
    BY <2>1 DEF IdsFit, Sendable
  <2> QED
    BY <2>1, <2>2, <2>3, <2>4 DEF IdFits, Steady, Static
<1>15. CASE Comply
  BY <1>15, SendStep, ComplyEffect, ListsKeep
     DEF IdFitsAll, AllSend, ConfKept, IdsFit, IdFits, Steady, Static, SendDown
<1>16. ASSUME NEW t \in Thread, Fill(t)
      PROVE  IdFitsAll'
  <2> SUFFICES ASSUME NEW u \in Thread, Steady(u)
               PROVE  IdFits(u)'
    BY <1>16, ListsKeep DEF IdFitsAll, IdFits, Steady
  <2>1. pc \in {"fill", "filltx"} /\ th' = th /\ wanted' = wanted /\ ConfKept
    BY <1>16, ListsKeep
  <2>2. Sendable(u)' \subseteq Sendable(u) \cup ports
    BY <1>16, SendStep DEF AllSend, SendDown
  <2>3. \A p \in ports : Static(p) => n_txq[p] >= wanted
    BY <2>1 DEF PortsKept, Settled, TxqsEnough, PortFits
  <2>4. th[u].qid \in Int /\ wanted \in Nat /\ \A p \in ports : n_txq[p] \in Nat
    BY ThreadCount DEF Typed, LocalType, Txq, NoQid
  <2>5. /\ th[u].qid < wanted
        /\ \A p \in Sendable(u) : Static(p) => th[u].qid < n_txq[p]
    BY DEF IdsFit, IdFits
  <2>6. \A p \in Sendable(u)' : Static(p) => th[u].qid < n_txq[p]
    BY <2>2, <2>3, <2>4, <2>5
  <2> QED
    BY <2>1, <2>5, <2>6 DEF IdFits, ConfKept, Static
<1>17. ASSUME NEW t \in Thread, ThreadMove(t)
      PROVE  IdFitsAll'
  <2>1. AllSend /\ Others(t) /\ MainKept
    BY <1>17, SendStep DEF ThreadMove
  <2>2. ASSUME NEW u \in Thread, u = t
        PROVE  IdFits(u)'
    <3>1. Sendable(t)' \subseteq Sendable(t)
      BY <2>1 DEF AllSend, SendDown, MainKept
    <3>2. CASE TakesId(t)
      <4>1. /\ Unready(t) /\ th'[t].qid \in Nat
            /\ th'[t].qid < Cardinality(threads) /\ Cardinality(threads) \in Nat
        BY <3>2, ThreadCount DEF TakesId, Unready, Txq
      <4>2. Cardinality(threads) <= wanted /\ wanted \in Nat
        BY ThreadCount DEF Typed, ThreadsWanted, CountFits
      <4>3. \A p \in Sendable(t) : Static(p) => n_txq[p] >= wanted
        BY <4>1 DEF TxqsEnough, Enough, PortFits
      <4>4. \A p \in Sendable(t) : n_txq[p] \in Nat
        BY ThreadCount DEF Typed, Sendable, SharedType, LocalType
      <4>5. th'[t].qid < wanted /\ \A p \in Sendable(t)' : Static(p) => th'[t].qid < n_txq[p]
        BY <3>1, <4>1, <4>2, <4>3, <4>4
      <4> QED
        BY <2>1, <2>2, <4>5 DEF IdFits, MainKept, ConfKept, Static
    <3>3. CASE ~TakesId(t)
      <4>1. Steady(t)' => Steady(t) /\ th'[t].qid = th[t].qid
        BY <1>17, <3>3
           DEF ThreadMove, Loads, DropsId, Wakes, Answers, Ends, Sending, SameId, Steady, Awake
      <4> QED
        BY <2>1, <2>2, <3>1, <4>1 DEF IdsFit, IdFits, MainKept, ConfKept, Static
    <3> QED
      BY <3>2, <3>3
  <2>3. ASSUME NEW u \in Thread, u # t
        PROVE  IdFits(u)'
    BY <2>1, <2>3 DEF IdsFit, IdFits, Steady, Static, Sendable, Others, MainKept, ConfKept
  <2> QED
    BY <2>2, <2>3 DEF IdFitsAll
<1> QED
  BY <1>1, <1>2, <1>3, <1>4, <1>5, <1>6, <1>7, <1>8, <1>9, <1>10, <1>11, <1>12, <1>13, <1>14,
     <1>15, <1>16, <1>17, NextCases

RenewedAll == \A t \in Thread : Renewed(t)

(* Every step leaves an id too large only with a thread asked for another. *)
LEMMA RenewedStep ==
  ASSUME Typed, Blank, OwnIds, Counted, Signals, Handover, PortsKept, ThreadsWanted, IdsFit, TxqsEnough, Next
  PROVE  RenewedAll'
<1>1. CASE Idle \/ Placing
  BY <1>1
     DEF Idle, AllKept, Placing, IdsFit, Renewed, Steady, Changed, Deleting, Fewer, Wanted,
         Live, RenewedAll
<1>2. ASSUME NEW p \in Port, AddPort(p)
      PROVE  RenewedAll'
  BY <1>2
     DEF RenewedAll, AddPort, mainVars, confVars, portVars, schedVars, IdsFit, Renewed, Steady,
         Changed, Deleting, Fewer, Wanted, Live
<1>3. ASSUME NEW p \in Port, DelPort(p)
      PROVE  RenewedAll'
  BY <1>3
     DEF RenewedAll, DelPort, mainVars, confVars, portVars, schedVars, IdsFit, Renewed, Steady,
         Changed, Deleting, Fewer, Wanted, Live
<1>4. ASSUME NEW t \in Thread, BumpSeq(t)
      PROVE  RenewedAll'
  BY <1>4, BumpSeqEffect
     DEF RenewedAll, BumpSeq, SameFlags, mainVars, confVars, portVars, schedVars, IdsFit,
         Renewed, Steady, Changed, Deleting, Fewer, Wanted, Live, Signals, Reloads, Bumped
<1>5. CASE StoreReload
  BY <1>5, StoreReloadEffect
     DEF RenewedAll, StoreReload, mainVars, confVars, portVars, schedVars, IdsFit, Renewed,
         Steady, Changed, Deleting, Fewer, Wanted, Live, Signals, Reloads, Bumped
<1>6. CASE ReloadNonPmd
  BY <1>6, ReloadNonPmdEffect
     DEF RenewedAll, ReloadNonPmd, mainVars, confVars, portVars, schedVars, IdsFit, Renewed,
         Steady, Changed, Deleting, Fewer, Wanted, Live, Blank, BlankOf
<1>7. ASSUME NEW r, NEW k, Waited(r, k)
      PROVE  RenewedAll'
  <2> SUFFICES ASSUME NEW u \in Thread
               PROVE  Renewed(u)'
    BY DEF RenewedAll
  <2>1. /\ pc = r /\ pc' = k /\ <<r, k>> \in Waits /\ th' = th /\ ConfKept
        /\ UNCHANGED <<wanted, threads>> /\ Await(r, k)
    BY <1>7, AwaitKeeps DEF Waited, Waits
  <2>2. Fewer' = Fewer /\ Wanted' = Wanted
    BY <2>1 DEF ConfKept, Fewer, Wanted
  <2>3. sh'[u].reload_tx_qid = sh[u].reload_tx_qid
    BY <2>1, AwaitEffect
  <2> QED
    BY <2>1, <2>2, <2>3 DEF Waits, IdsFit, Renewed, Steady, Changed, Deleting
<1>8. CASE CheckThreads
  <2> SUFFICES ASSUME NEW u \in Thread
               PROVE  Renewed(u)'
    BY DEF RenewedAll
  <2>1. /\ pc = "threads" /\ pc' = "delete" /\ UNCHANGED <<wanted, ports, cmask, threads>>
    BY <1>8 DEF CheckThreads, confVars, portVars
  <2>2. Wanted' = Wanted /\ Fewer' = Fewer /\ Live' = Live
    BY <2>1 DEF Wanted, Fewer, Live
  <2>3. Fewer => Adjust
    BY <2>1, AdjustSeen
  <2>4. u \in Live \cap Wanted /\ Adjust => sh'[u].reload_tx_qid
    BY <1>8, CheckThreadsEffect
  <2> QED
    BY <2>1, <2>2, <2>3, <2>4 DEF Renewed, Changed
<1>9. ASSUME NEW t \in Core, DelPmd(t)
      PROVE  RenewedAll'
  BY <1>9, CoreIsThread, DelPmdEffect
     DEF RenewedAll, DelPmd, mainVars, confVars, portVars, schedVars, IdsFit, Renewed, Steady,
         Changed, Deleting, Fewer, Wanted, Live
<1>10. ASSUME NEW t \in Core, JoinPmd(t)
      PROVE  RenewedAll'
  BY <1>10, CoreIsThread, JoinPmdEffect
     DEF RenewedAll, JoinPmd, Others, mainVars, confVars, portVars, schedVars, IdsFit, Renewed,
         Steady, Changed, Deleting, Fewer, Wanted, Live
<1>11. CASE DeleteDone
  <2> SUFFICES ASSUME NEW u \in threads, Fewer
               PROVE  sh[u].reload_tx_qid \/ th[u].qid <= Cardinality(Wanted)
    BY <1>11 DEF DeleteDone, RenewedAll, Renewed, Changed, Deleting, Fewer, Wanted, Steady, confVars, portVars
  <2>1. pc = "delete" /\ todo = {} /\ u \in Thread
    BY <1>11 DEF DeleteDone, Typed
  <2>2. CASE u = NonPmd
    BY <2>1, <2>2, WantedTyped, ThreadCount, FS_Subset, FS_CardinalityType DEF Blank, BlankOf
  <2>3. CASE u # NonPmd
    <3>1. u \in Live /\ ~sh[u].exit
      BY <2>1, <2>3 DEF Live, Signals, FlagsOf
    <3>2. u \in Wanted
      BY <2>1, <3>1 DEF ThreadsWanted, Stays, Deleting
    <3> QED
      BY <2>1, <3>1, <3>2 DEF IdsFit, Renewed, Deleting
  <2> QED
    BY <2>2, <2>3
<1>12. CASE CreatePmds
  BY <1>12, CreatePmdsEffect
     DEF RenewedAll, CreatePmds, mainVars, confVars, portVars, schedVars, IdsFit, Renewed,
         Steady, Changed, Deleting, Fewer, Wanted, Live
<1>13. CASE RemoveStale
  BY <1>13, RemoveStaleEffect, ListsKeep
     DEF RenewedAll, ConfKept, IdsFit, Renewed, Steady, Changed, Deleting, Fewer, Wanted, Live
<1>14. ASSUME NEW p \in Port, Reconfigure(p)
      PROVE  RenewedAll'
  BY <1>14
     DEF RenewedAll, Reconfigure, mainVars, confVars, portVars, schedVars, IdsFit, Renewed,
         Steady, Changed, Deleting, Fewer, Wanted, Live
<1>15. CASE ReconfigureDone \/ FillStart \/ FillTxStart \/ FillDone \/ Finish
  BY <1>15
     DEF ReconfigureDone, mainVars, confVars, portVars, schedVars, FillStart, FillTxStart, FillDone, Finish,
         IdsFit, Renewed, Steady, Changed, Deleting, Fewer, Wanted, Live, RenewedAll
<1>16. CASE Comply
  BY <1>16, ComplyEffect, ListsKeep
     DEF RenewedAll, ConfKept, IdsFit, Renewed, Steady, Changed, Deleting, Fewer, Wanted, Live
<1>17. ASSUME NEW t \in Thread, Fill(t)
      PROVE  RenewedAll'
  BY <1>17, FillEffect, ListsKeep
     DEF RenewedAll, ConfKept, IdsFit, Renewed, Steady, Changed, Deleting, Fewer, Wanted, Live
<1>18. ASSUME NEW t \in Thread, ThreadMove(t)
      PROVE  RenewedAll'
  <2>1. Others(t) /\ MainKept /\ Fewer' = Fewer /\ Wanted' = Wanted /\ Live' = Live
    BY <1>18 DEF ThreadMove, MainKept, ConfKept, Fewer, Wanted, Live
  <2>2. ASSUME NEW u \in Thread, u = t
        PROVE  Renewed(u)'
    <3>1. CASE TakesId(t)
      <4>1. /\ th'[t].qid \in Nat /\ th'[t].qid < Cardinality(threads)
            /\ Cardinality(threads) \in Nat /\ sh' = sh
        BY <3>1, ThreadCount DEF TakesId, Txq
      <4>2. pc \in Changed => th'[t].qid <= Cardinality(Wanted)
        BY <4>1, StayCount
      <4> QED
        BY <2>1, <2>2, <4>1, <4>2 DEF IdsFit, Renewed, MainKept
    <3>2. CASE Answers(t) /\ sh[t].reload_tx_qid
      <4>1. pc = "reload1" /\ th'[t].pc = "freeqid"
        BY <3>2, RenewalSeen DEF Answers
      <4> QED
        BY <2>1, <2>2, <4>1 DEF MainKept, Renewed, Steady, Deleting
    <3>3. CASE ~TakesId(t) /\ ~(Answers(t) /\ sh[t].reload_tx_qid)
      <4>1. /\ Steady(t)' => Steady(t) /\ th'[t].qid = th[t].qid
            /\ sh[t].reload_tx_qid => sh'[t].reload_tx_qid
        BY <1>18, <3>3
           DEF ThreadMove, Loads, DropsId, Wakes, Answers, Ends, Sending, SameId, Steady, Awake
      <4> QED
        BY <2>1, <2>2, <4>1 DEF IdsFit, Renewed, MainKept
    <3> QED
      BY <3>1, <3>2, <3>3
  <2>3. ASSUME NEW u \in Thread, u # t
        PROVE  Renewed(u)'
    BY <2>1, <2>3 DEF IdsFit, Renewed, Steady, Others, MainKept
  <2> QED
    BY <2>2, <2>3 DEF RenewedAll
<1> QED
  BY <1>1, <1>2, <1>3, <1>4, <1>5, <1>6, <1>7, <1>8, <1>9, <1>10, <1>11, <1>12, <1>13, <1>14,
     <1>15, <1>16, <1>17, <1>18, NextCases

-----------------------------------------------------------------------------
(* The invariant, and what follows from it.                                *)

Inv ==
  /\ Typed /\ Blank /\ Signals /\ Handover /\ OneOwner /\ PortsKept /\ Counted /\ OwnIds
  /\ ThreadsWanted /\ IdsFit /\ TxqsEnough

(* At first there are no ports and no PMD threads.                         *)
LEMMA InitInv == Init => Inv
<1> SUFFICES ASSUME Init
             PROVE  Inv
  OBVIOUS
<1>1. /\ NonPmd \in Thread /\ NonPmd \notin Core /\ NoCore \notin Port /\ NonPmd # NoCore
      /\ IsFiniteSet({NonPmd}) /\ Cardinality({NonPmd}) = 1
      /\ Cardinality(Thread) \in Nat /\ Cardinality(Thread) >= 1
  <2>1. /\ NonPmd \in Thread /\ NonPmd \notin Core /\ NoCore \notin Port /\ NonPmd # NoCore
    BY ReloadAssumption, Members DEF Thread
  <2>2. IsFiniteSet({NonPmd}) /\ Cardinality({NonPmd}) = 1
    BY FS_Singleton
  <2>3. Cardinality(Thread) \in Nat /\ Cardinality(Thread) >= 1
    BY ThreadCount
  <2> QED
    BY <2>1, <2>2, <2>3
<1>2. /\ pc = "idle" /\ cmask \in SUBSET Core /\ ports = {} /\ exists = {} /\ leaving = NoCore
      /\ need = {} /\ wanted = 1 /\ threads = {NonPmd} /\ todo = {} /\ bumped = NoCore
      /\ n_txq = [p \in Port |-> 1] /\ txq_mode = [p \in Port |-> "static"]
      /\ txq_used = [p \in Port |-> [i \in Txq |-> 0]]
  BY ReloadAssumption DEF Init, Txq
<1>3. /\ sh \in [Thread -> SharedType]
      /\ \A t \in Thread :
           /\ ~sh[t].need_reload /\ ~sh[t].reload /\ ~sh[t].exit /\ ~sh[t].reload_tx_qid
           /\ sh[t].poll_list = {} /\ sh[t].tx_ports = {}
  <2>1. sh = [t \in Thread |-> NewShared]
    BY DEF Init
  <2> QED
    BY <2>1, BlankTypes DEF NewShared
<1>4. /\ th \in [Thread -> LocalType]
      /\ \A t \in Thread :
           /\ th[t].pc = (IF t = NonPmd THEN "main" ELSE "none")
           /\ th[t].polled = {} /\ th[t].sending = {} /\ DOMAIN th[t].xps = {}
           /\ ~th[t].exiting /\ th[t].qid = (IF t = NonPmd THEN 0 ELSE NoQid)
  <2>1. /\ NewThread \in LocalType /\ NewThread.pc = "none" /\ NewThread.polled = {}
        /\ NewThread.sending = {} /\ DOMAIN NewThread.xps = {} /\ ~NewThread.exiting
        /\ NewThread.qid = NoQid
    BY BlankTypes DEF NewThread
  <2>2. th = [t \in Thread |-> IF t = NonPmd THEN [NewThread EXCEPT !.pc = "main", !.qid = 0]
                               ELSE NewThread]
    BY DEF Init
  <2>3. 0 \in Txq
    BY ThreadCount DEF Txq
  <2> HIDE DEF NewThread
  <2>4. /\ [NewThread EXCEPT !.pc = "main", !.qid = 0] \in LocalType
        /\ [NewThread EXCEPT !.pc = "main", !.qid = 0].pc = "main"
        /\ [NewThread EXCEPT !.pc = "main", !.qid = 0].polled = {}
        /\ [NewThread EXCEPT !.pc = "main", !.qid = 0].sending = {}
        /\ DOMAIN [NewThread EXCEPT !.pc = "main", !.qid = 0].xps = {}
        /\ ~[NewThread EXCEPT !.pc = "main", !.qid = 0].exiting
        /\ [NewThread EXCEPT !.pc = "main", !.qid = 0].qid = 0
    BY <2>1, <2>3 DEF LocalType, ThreadPc
  <2> QED
    BY <2>1, <2>2, <2>4
<1>5. Typed
  BY <1>1, <1>2, <1>3, <1>4 DEF Typed, MainPc
<1>6. Blank
  BY <1>2, <1>3, <1>4 DEF Blank, BlankOf
<1>7. Signals
  BY <1>2, <1>3, <1>4 DEF Signals, Asked, Bumped, FlagsOf, OneExit, Reloads
<1>8. Handover
  BY <1>2, <1>3, <1>4 DEF Handover, HandedOver, Fresh
<1>9. OneOwner
  BY <1>2, <1>3, <1>4 DEF OneOwner, OwnedBy, Queues
<1>10. PortsKept
  BY <1>2, <1>3, <1>4 DEF PortsKept, Settled, PortsThere, Listed, Uses, PortsOf
<1>11. Counted
  <2>1. \A t \in Thread : XpsOf(t)
    BY <1>4 DEF XpsOf
  <2>2. \A p \in Port, i \in Txq : On(p, i) = {}
    BY <1>4 DEF On
  <2> QED
    BY <1>2, <2>1, <2>2, FS_EmptySet DEF Counted
<1>12. OwnIds
  BY <1>4 DEF OwnIds, HoldsId, Distinct, NoQid
<1>13. ThreadsWanted
  BY <1>1, <1>2, <1>3 DEF ThreadsWanted, CountFits, Stays, Renews, Deleting, Changed, Live
<1>14. IdsFit
  BY <1>2, <1>3, <1>4 DEF IdsFit, IdFits, Renewed, Steady, Sendable, Deleting, Changed
<1>15. TxqsEnough
  BY <1>2, <1>3, <1>4 DEF TxqsEnough, PortFits, Enough, Excused, Sendable, Unready
<1> QED
  BY <1>5, <1>6, <1>7, <1>8, <1>9, <1>10, <1>11, <1>12, <1>13, <1>14, <1>15 DEF Inv

(* Every step keeps it.                                                    *)
LEMMA NextInv == Inv /\ Next => Inv'
<1> SUFFICES ASSUME Inv, Next
             PROVE  Inv'
  OBVIOUS
<1> USE DEF Inv
<1>1. Typed'
  BY TypedStep
<1>2. Blank'
  BY BlankStep
<1>3. Signals'
  BY AskedStep, BumpedStep, FlagsStep, OneExitStep DEF Signals, Flags
<1>4. Handover'
  BY HandoverStep
<1>5. OneOwner'
  BY OwnersStep, OneOwnerStep
<1>6. PortsKept'
  BY SettledStep, PortsStep DEF PortsKept, PortsHere
<1>7. Counted'
  BY XpsStep, UsedStep DEF Counted, AllXps, UsedNow
<1>8. OwnIds'
  BY HoldsStep, DistinctStep DEF OwnIds, AllHold
<1>9. ThreadsWanted'
  BY CountStep, StaysStep, RenewsStep DEF ThreadsWanted, AllStay, KeptOf, AllRenew
<1>10. IdsFit'
  BY IdFitsStep, RenewedStep DEF IdsFit, IdFitsAll, RenewedAll
<1>11. TxqsEnough'
  BY EnoughPortsStep, EnoughStep, ExcusedStep DEF TxqsEnough, EnoughPorts, EnoughAll, ExcusedAll
<1> QED
  BY <1>1, <1>2, <1>3, <1>4, <1>5, <1>6, <1>7, <1>8, <1>9, <1>10, <1>11

(* A step that changes nothing keeps the invariant.                        *)
LEMMA StutterInv == Inv /\ UNCHANGED vars => Inv'
<1> SUFFICES ASSUME Inv, UNCHANGED vars
             PROVE  Inv'
  OBVIOUS
<1>1. UNCHANGED <<pc, cmask, reconf, ports, exists, leaving, need, wanted, n_txq, txq_mode, txq_used,
                  rxq_pmd, threads, todo, bumped, sh, th>>
  BY DEF vars, mainVars, confVars, portVars, schedVars
<1>2. Wanted' = Wanted /\ Live' = Live /\ Fewer' = Fewer
  BY <1>1 DEF Wanted, Live, Fewer
<1>3. Typed' /\ Blank' /\ Signals'
  BY <1>1 DEF Inv, Typed, Blank, BlankOf, Signals, Asked, Bumped, FlagsOf, OneExit
<1>4. Handover' /\ OneOwner'
  BY <1>1 DEF Inv, Handover, HandedOver, Fresh, Pending, OneOwner, OwnedBy, Queues
<1>5. PortsKept'
  BY <1>1 DEF Inv, PortsKept, Settled, PortsThere, Listed, Uses, PortsOf
<1>6. Counted' /\ OwnIds'
  BY <1>1 DEF Inv, Counted, XpsOf, On, OwnIds, HoldsId, Distinct
<1>7. ThreadsWanted' /\ IdsFit'
  BY <1>1, <1>2 DEF Inv, ThreadsWanted, CountFits, Stays, Renews, IdsFit, IdFits, Renewed, Steady,
                    Sendable, Static
<1>8. TxqsEnough'
  BY <1>1, <1>2 DEF Inv, TxqsEnough, PortFits, Enough, Excused, Unready, Sendable, Static, Pending
<1> QED
  BY <1>3, <1>4, <1>5, <1>6, <1>7, <1>8 DEF Inv

(* The inductive invariant holds whatever the ports, the cores, the masks  *)
(* and the number of requests.                                             *)
THEOREM Invariance == Spec => []Inv
<1>1. Inv /\ [Next]_vars => Inv'
  BY NextInv, StutterInv
<1> QED
  BY InitInv, <1>1, PTL DEF Spec

(* The numbers of rx queues are a function on the ports.                   *)
RxqCounts == DOMAIN n_rxq = Port

LEMMA NoRxqChange ==
  /\ Requests => \/ n_rxq' = n_rxq
                 \/ \E p \in Port : n_rxq' = [n_rxq EXCEPT ![p] = 0]
  /\ MainStep => \/ n_rxq' = n_rxq
                 \/ \E p \in Port, n \in Nat : n_rxq' = [n_rxq EXCEPT ![p] = n]
<1>1. Requests => \/ n_rxq' = n_rxq
                  \/ \E p \in Port : n_rxq' = [n_rxq EXCEPT ![p] = 0]
  BY Zenon DEF Requests, SetCmask, Request, RequestReconf, AddPort, DelPort, portVars
<1>2. Run \/ Reloading => n_rxq' = n_rxq
  BY Zenon DEF Run, Reloading, BumpSeq, StoreReload, ReloadNonPmd, Await, portVars
<1>3. ASSUME Steps
      PROVE  \/ n_rxq' = n_rxq
             \/ \E p \in Port, n \in Nat : n_rxq' = [n_rxq EXCEPT ![p] = n]
  <2>1. ASSUME NEW p \in Port, Reconfigure(p)
        PROVE  \E n \in Nat : n_rxq' = [n_rxq EXCEPT ![p] = n]
    BY <2>1, ReloadAssumption DEF Reconfigure
  <2> QED
    BY <1>3, <2>1, Zenon
       DEF Steps, CheckThreads, DelPmd, JoinPmd, DeleteDone, CreatePmds, RemoveStale,
           ReconfigureDone, SchedulePinned, ScheduleNext, PutInPlace, ScheduleStep, Comply,
           FillStart, Fill, FillTxStart, FillDone, Finish, portVars
<1> QED
  BY <1>1, <1>2, <1>3 DEF MainStep

(* No step of a thread changes the ports or the requests.                  *)
LEMMA ThreadsTouchNot ==
  ASSUME NEW t \in Thread, PmdStep(t) \/ \E p \in Port : TakeTxq(t, p) \/ GiveBackTxq(t, p)
  PROVE  UNCHANGED <<exists, n_rxq, n_txq, txq_mode, reconf>>
BY Zenon DEF PmdStep, Start, FirstQid, WakeUp, Load, Acknowledge, FreeOldQid, AllocQid, Exit, TakeTxq,
             GiveBackTxq, ByThread, confVars, portVars

LEMMA RxqCountsKept == Spec => []RxqCounts
<1>1. Init => RxqCounts
  BY DEF Init, RxqCounts
<1>2. RxqCounts /\ [Next]_vars => RxqCounts'
  <2> SUFFICES ASSUME RxqCounts, [Next]_vars
               PROVE  RxqCounts'
    OBVIOUS
  <2>1. CASE UNCHANGED vars
    BY <2>1 DEF vars, portVars, RxqCounts
  <2>2. CASE Requests \/ MainStep
    BY <2>2, NoRxqChange DEF RxqCounts
  <2>3. ASSUME NEW t \in Thread,
               PmdStep(t) \/ \E p \in Port : TakeTxq(t, p) \/ GiveBackTxq(t, p)
        PROVE  RxqCounts'
    BY <2>3, ThreadsTouchNot DEF RxqCounts
  <2> QED
    BY <2>1, <2>2, <2>3 DEF Next
<1> QED
  BY <1>1, <1>2, PTL DEF Spec

(* A step that touches a port adds it, reconfigures it or, back in         *)
(* do_del_port, destroys it.                                               *)
LEMMA TouchCases ==
  ASSUME Typed, RxqCounts, [Next]_vars, NEW p \in exists, Touched(p)
  PROVE  AddPort(p) \/ Reconfigure(p) \/ (Finish /\ p = leaving)
<1> DEFINE Same == exists \subseteq exists' /\ reconf \subseteq reconf'
                   /\ UNCHANGED <<n_rxq, n_txq, txq_mode>>
<1>1. ~Same
  BY DEF Touched
<1>2. p \in Port /\ DOMAIN n_rxq = Port /\ DOMAIN n_txq = Port /\ DOMAIN txq_mode = Port
  BY DEF Typed, RxqCounts
<1>3. UNCHANGED vars => Same
  BY DEF vars, portVars, confVars
<1>4. ASSUME NEW t \in Thread,
             PmdStep(t) \/ \E o \in Port : TakeTxq(t, o) \/ GiveBackTxq(t, o)
      PROVE  Same
  BY <1>4, ThreadsTouchNot
<1>5. SetCmask \/ Run \/ Reloading => Same
  BY DEF SetCmask, Request, Run, Reloading, BumpSeq, StoreReload, ReloadNonPmd, Await, portVars,
         confVars
<1>6. ASSUME NEW o \in Port, RequestReconf(o) \/ DelPort(o)
      PROVE  Same
  BY <1>6 DEF RequestReconf, DelPort, portVars
<1>7. CheckThreads \/ (\E t \in Core : DelPmd(t) \/ JoinPmd(t)) \/ DeleteDone \/ RemoveStale
      \/ ReconfigureDone \/ Comply \/ FillStart \/ (\E t \in Thread : Fill(t)) \/ FillTxStart
      \/ FillDone => UNCHANGED <<exists, n_rxq, n_txq, txq_mode, reconf>>
  BY Zenon DEF CheckThreads, DelPmd, JoinPmd, DeleteDone, RemoveStale, ReconfigureDone, Comply,
               FillStart, Fill, FillTxStart, FillDone, portVars, confVars
<1>8. SchedulePinned \/ ScheduleNext \/ PutInPlace => UNCHANGED <<exists, n_rxq, n_txq, txq_mode, reconf>>
  BY Zenon DEF SchedulePinned, ScheduleNext, PutInPlace, ScheduleStep, portVars, confVars
<1>9. CreatePmds => Same
  BY DEF CreatePmds, portVars
<1>10. ASSUME NEW o \in Port, AddPort(o)
       PROVE  AddPort(p)
  <2>1. CASE o = p
    BY <1>10, <2>1
  <2>2. CASE o # p
    BY <1>2, <1>10, <2>2 DEF AddPort, Touched
  <2> QED
    BY <2>1, <2>2
<1>11. ASSUME NEW o \in Port, Reconfigure(o)
       PROVE  Reconfigure(p)
  <2>1. CASE o = p
    BY <1>11, <2>1
  <2>2. CASE o # p
    BY <1>2, <1>11, <2>2 DEF Reconfigure, Touched
  <2> QED
    BY <2>1, <2>2
<1>12. CASE Finish
  BY <1>2, <1>12 DEF Finish, Touched, confVars
<1> QED
  BY <1>1, <1>3, <1>4, <1>5, <1>6, <1>7, <1>8, <1>9, <1>10, <1>11, <1>12
     DEF Next, Requests, MainStep, Steps

(* No thread uses a port when a step reconfigures or destroys it, and none *)
(* one that has been destroyed (dpif-netdev.c:6437), though devices ask    *)
(* for reconfiguration at any time.                                        *)
THEOREM NotUsed == Spec => UnusedWhenReconfigured
<1>1. Inv => \A t \in Thread : Uses(t) \subseteq exists
  BY DEF Inv, PortsKept, PortsThere
<1>2. Inv /\ RxqCounts /\ [Next]_vars =>
        [\A p \in exists : Touched(p) => \A t \in Thread : p \notin Uses(t)]_vars
  <2> SUFFICES ASSUME Inv, RxqCounts, [Next]_vars, NEW p \in exists, Touched(p), NEW t \in Thread
               PROVE  p \notin Uses(t)
    OBVIOUS
  <2>1. PortsThere(t) /\ Settled
    BY DEF Inv, PortsKept
  <2>2. CASE AddPort(p)
    BY <2>1, <2>2 DEF AddPort, PortsThere
  <2>3. CASE Reconfigure(p)
    BY <2>1, <2>3 DEF Reconfigure, PortsThere
  <2>4. CASE Finish /\ p = leaving
    BY <2>1, <2>4 DEF Finish, PortsThere, Settled
  <2> QED
    BY <2>2, <2>3, <2>4, TouchCases DEF Inv
<1>3. Spec => [][Next]_vars
  BY PTL DEF Spec
<1> QED
  BY <1>1, <1>2, Invariance, RxqCountsKept, PTL DEF Spec, UnusedWhenReconfigured

(* A queue is polled by one thread at a time (dpif-netdev.c:6516).         *)
THEOREM OnePoller == Spec => []OnePollerPerRxq
<1>1. Inv => OnePollerPerRxq
  BY DEF Inv, OneOwner, Queues, OnePollerPerRxq, Thread
<1> QED
  BY <1>1, Invariance, PTL

(* In static mode the port has the tx queue a thread sends on, and no      *)
(* other thread sends on it, also while the ids of the threads change.     *)
THEOREM OwnTxq == Spec => []StaticTxqOwn
<1>1. ASSUME Inv, NEW p \in Port, NEW t \in Thread, Sends(t, p)
      PROVE  th[t].qid \in 0 .. n_txq[p] - 1 /\ th[t].qid # NoQid
  <2>1. th[t].qid # NoQid
    BY <1>1 DEF Inv, OwnIds, HoldsId, Sends
  <2>2. th[t].qid \in Nat /\ n_txq[p] \in Nat \ {0}
    BY <1>1, <2>1, ThreadCount DEF Inv, Typed, LocalType, Txq
  <2>3. th[t].qid < n_txq[p]
    BY <1>1 DEF Inv, IdsFit, IdFits, Steady, Sendable, Static, Sends
  <2> QED
    BY <2>1, <2>2, <2>3
<1>2. Inv => StaticTxqOwn
  BY <1>1 DEF Inv, OwnIds, Distinct, StaticTxqOwn
<1> QED
  BY <1>2, Invariance, PTL

(* The number of threads on a tx queue is what the threads hold of it, and *)
(* never below zero.                                                       *)
THEOREM Counts == Spec => []XpsCounts
<1>1. ASSUME Inv
      PROVE  XpsCounts
  <2>1. /\ \A p \in Port : DOMAIN txq_used[p] = Txq
        /\ \A p \in Port, i \in Txq : txq_used[p][i] = Cardinality(On(p, i))
    BY <1>1 DEF Inv, Typed, Counted
  <2>2. \A p \in Port : \A i \in DOMAIN txq_used[p] : txq_used[p][i] \in 0 .. Cardinality(Thread)
    BY <2>1, OnNat
  <2>3. \A t \in Thread : /\ sh[t].poll_list \subseteq Rxq /\ sh[t].tx_ports \subseteq Port
                          /\ th[t].polled \subseteq Rxq /\ th[t].sending \subseteq Port
                          /\ DOMAIN th[t].xps \subseteq Port
    BY <1>1, XpsTypes DEF Inv, Typed, SharedType, LocalType
  <2>4. \A t \in Thread : th[t].qid \in NoQid .. Cardinality(Core)
    BY <1>1, ThreadCount DEF Inv, Typed, LocalType, Txq, NoQid
  <2>5. TypeOK
    BY <1>1, <2>2, <2>3, <2>4 DEF Inv, Typed, TypeOK
  <2> QED
    BY <2>1, <2>5 DEF XpsCounts, On
<1> QED
  BY <1>1, Invariance, PTL

-----------------------------------------------------------------------------
(* Induction.                                                              *)

(* A set with 0 and the successors of its members has every number.        *)
LEMMA AllNat ==
  ASSUME NEW S, 0 \in S, \A n \in Nat : n \in S => n + 1 \in S
  PROVE  Nat \subseteq S
<1> DEFINE T == Nat \ S
           R == OpToRel(<, Nat)
<1> SUFFICES ASSUME T # {}
             PROVE  FALSE
  OBVIOUS
<1>1. IsWellFoundedOn(R, Nat)
  BY NatLessThanWellFounded
<1>a. \A x, y \in Nat : x < y => <<x, y>> \in R
  BY DEF OpToRel
<1>2. T \subseteq Nat
  OBVIOUS
<1> HIDE DEF R
<1> HIDE DEF T
<1>3. PICK x \in T : \A y \in T : ~ (<<y, x>> \in R)
  BY <1>1, <1>2, WFMin
<1> USE DEF T
<1>4. x # 0 /\ x \in Nat
  BY <1>3
<1>5. x - 1 \in Nat /\ x - 1 < x /\ (x - 1) + 1 = x
  BY <1>4
<1>6. x - 1 \in S
  BY <1>a, <1>3, <1>4, <1>5
<1> QED
  BY <1>3, <1>5, <1>6

(* Induction over the number of members, for a set of finite sets.         *)
LEMMA AllFinite ==
  ASSUME NEW D, IsFiniteSet(D), NEW P, {} \in P,
         \A s \in SUBSET D : s # {} /\ (\A x \in s : s \ {x} \in P) => s \in P
  PROVE  SUBSET D \subseteq P
<1> DEFINE S == {n \in Nat : \A s \in SUBSET D : Cardinality(s) = n => s \in P}
<1>0. \A s \in SUBSET D : IsFiniteSet(s) /\ Cardinality(s) \in Nat
  BY FS_Subset, FS_CardinalityType
<1>1. 0 \in S
  <2> SUFFICES ASSUME NEW s \in SUBSET D, Cardinality(s) = 0
               PROVE  s \in P
    OBVIOUS
  <2>1. s = {}
    BY <1>0, FS_EmptySet
  <2> QED
    BY <2>1
<1>2. ASSUME NEW n \in Nat, n \in S
      PROVE  n + 1 \in S
  <2> SUFFICES ASSUME NEW s \in SUBSET D, Cardinality(s) = n + 1
               PROVE  s \in P
    BY <1>2
  <2>1. s # {}
    <3> SUFFICES ASSUME s = {}
                 PROVE  FALSE
      OBVIOUS
    <3>1. Cardinality(s) = 0
      BY FS_EmptySet
    <3> QED
      BY <3>1
  <2>2. ASSUME NEW x \in s
        PROVE  s \ {x} \in P
    <3>1. s \ {x} \in SUBSET D /\ Cardinality(s \ {x}) = Cardinality(s) - 1
      BY <1>0, FS_RemoveElement
    <3>2. Cardinality(s \ {x}) = n
      BY <3>1
    <3> QED
      BY <1>2, <3>1, <3>2
  <2> QED
    BY <2>1, <2>2
<1> HIDE DEF S
<1>3. Nat \subseteq S
  BY <1>1, <1>2, AllNat
<1> QED
  BY <1>0, <1>3 DEF S


(* A set of numbers has a least one.                                       *)
LEMMA LeastNat ==
  ASSUME NEW T \in SUBSET Nat, T # {}
  PROVE  \E x \in T : \A y \in T : x <= y
<1> DEFINE R == OpToRel(<, Nat)
<1>1. IsWellFoundedOn(R, Nat)
  BY NatLessThanWellFounded
<1>2. \A x, y \in Nat : x < y => <<x, y>> \in R
  BY DEF OpToRel
<1> HIDE DEF R
<1>3. PICK x \in T : \A y \in T : ~ (<<y, x>> \in R)
  BY <1>1, WFMin
<1>4. ASSUME NEW y \in T
      PROVE  x <= y
  <2>1. ~ (y < x)
    BY <1>2, <1>3
  <2>2. x \in Nat /\ y \in Nat
    OBVIOUS
  <2> QED
    BY <2>1, <2>2
<1> QED
  BY <1>4

(* The least of some numbers, as Min gives it.                             *)
LEMMA MinOfNats ==
  ASSUME NEW T \in SUBSET Nat, T # {}
  PROVE  Min(T) \in T /\ \A y \in T : Min(T) <= y
<1>1. \E x \in T : \A y \in T : x <= y
  BY LeastNat
<1> QED
  BY <1>1 DEF Min

-----------------------------------------------------------------------------
(* Sets in order.                                                          *)

(* R orders the members of S one after the other.                          *)
Orders(R, S) ==
  /\ \A x \in S : <<x, x>> \notin R
  /\ \A x, y, z \in S : <<x, y>> \in R /\ <<y, z>> \in R => <<x, z>> \in R
  /\ \A x, y \in S : x # y => <<x, y>> \in R \/ <<y, x>> \in R

InOrderBy(R, s, n) == \A i, j \in 1 .. n : i < j => <<s[i], s[j]>> \in R

(* A finite ordered set has a last member.                                 *)
LEMMA LastOf ==
  ASSUME NEW S, IsFiniteSet(S), S # {}, NEW R, Orders(R, S)
  PROVE  \E m \in S : \A x \in S \ {m} : <<x, m>> \in R
<1> DEFINE P == {s \in SUBSET S : s # {} => \E m \in s : \A x \in s \ {m} : <<x, m>> \in R}
<1>1. {} \in P
  OBVIOUS
<1>2. ASSUME NEW s \in SUBSET S, s # {}, \A x \in s : s \ {x} \in P
      PROVE  s \in P
  <2>1. PICK x \in s : TRUE
    BY <1>2
  <2>2. CASE s \ {x} = {}
    <3>1. \A y \in s \ {x} : <<y, x>> \in R
      BY <2>2
    <3> QED
      BY <2>1, <3>1
  <2>3. CASE s \ {x} # {}
    <3>1. PICK m \in s \ {x} : \A y \in (s \ {x}) \ {m} : <<y, m>> \in R
      BY <1>2, <2>3
    <3>2. x \in S /\ m \in S /\ x # m
      BY <3>1
    <3>3. CASE <<x, m>> \in R
      <4>1. \A y \in s \ {m} : <<y, m>> \in R
        BY <3>1, <3>3
      <4> QED
        BY <3>1, <4>1
    <3>4. CASE <<m, x>> \in R
      <4>1. \A y \in s \ {x} : <<y, x>> \in R
        BY <3>1, <3>2, <3>4 DEF Orders
      <4> QED
        BY <2>1, <4>1
    <3> QED
      BY <3>2, <3>3, <3>4 DEF Orders
  <2> QED
    BY <2>2, <2>3
<1> HIDE DEF P
<1>3. SUBSET S \subseteq P
  BY <1>1, <1>2, AllFinite
<1>4. S \in P
  BY <1>3
<1> QED
  BY <1>4 DEF P

(* So there is a sequence that has them in that order, each once.          *)
LEMMA SortExists ==
  ASSUME NEW S, IsFiniteSet(S), NEW R, Orders(R, S)
  PROVE  \E s \in [1 .. Cardinality(S) -> S] : InOrderBy(R, s, Cardinality(S))
<1> DEFINE C(s) == Cardinality(s)
           P == {s \in SUBSET S : \E f \in [1 .. C(s) -> s] : InOrderBy(R, f, C(s))}
<1>0. \A s \in SUBSET S : IsFiniteSet(s) /\ Cardinality(s) \in Nat
  BY FS_Subset, FS_CardinalityType
<1>1. {} \in P
  <2>1. Cardinality({}) = 0
    BY FS_EmptySet
  <2>2. [i \in 1 .. 0 |-> i] \in [1 .. 0 -> {}] /\ InOrderBy(R, [i \in 1 .. 0 |-> i], 0)
    BY DEF InOrderBy
  <2> QED
    BY <2>1, <2>2
<1>2. ASSUME NEW s \in SUBSET S, s # {}, \A x \in s : s \ {x} \in P
      PROVE  s \in P
  <2>1. Orders(R, s)
    BY DEF Orders
  <2>2. PICK m \in s : \A x \in s \ {m} : <<x, m>> \in R
    <3>1. IsFiniteSet(s)
      BY <1>0
    <3> HIDE DEF P
    <3> QED
      BY <1>2, <2>1, <3>1, LastOf
  <2>3. PICK n \in Nat : n = Cardinality(s \ {m})
    BY <1>0
  <2>4. Cardinality(s) = n + 1
    BY <1>0, <2>3, FS_RemoveElement
  <2>5. PICK f \in [1 .. n -> s \ {m}] : InOrderBy(R, f, n)
    BY <1>2, <2>3
  <2> DEFINE g == [i \in 1 .. n + 1 |-> IF i = n + 1 THEN m ELSE f[i]]
  <2>6. g \in [1 .. n + 1 -> s]
    BY <2>5
  <2>7. InOrderBy(R, g, n + 1)
    <3> SUFFICES ASSUME NEW i \in 1 .. n + 1, NEW j \in 1 .. n + 1, i < j
                 PROVE  <<g[i], g[j]>> \in R
      BY DEF InOrderBy
    <3>1. i \in 1 .. n /\ g[i] = f[i] /\ f[i] \in s \ {m}
      BY <2>5
    <3>2. CASE j = n + 1
      BY <2>2, <3>1, <3>2
    <3>3. CASE j # n + 1
      <4>1. j \in 1 .. n /\ g[j] = f[j]
        BY <3>3
      <4> QED
        BY <2>5, <3>1, <4>1 DEF InOrderBy
    <3> QED
      BY <3>2, <3>3
  <2> HIDE DEF g
  <2> QED
    BY <2>4, <2>6, <2>7
<1> HIDE DEF P
<1>3. SUBSET S \subseteq P
  BY <1>1, <1>2, AllFinite
<1>4. S \in P
  BY <1>3
<1> QED
  BY <1>4 DEF P

(* An ordered listing of a set has each of its members once.               *)
Listing(s, S, n) ==
  /\ s \in Seq(S) /\ Len(s) = n /\ n \in Nat
  /\ \A x \in S : \E i \in 1 .. n : s[i] = x
  /\ \A i, j \in 1 .. n : s[i] = s[j] => i = j

LEMMA SortedHas ==
  ASSUME NEW S, IsFiniteSet(S), NEW R, Orders(R, S), NEW n, n = Cardinality(S),
         NEW s \in [1 .. n -> S], InOrderBy(R, s, n)
  PROVE  Listing(s, S, n)
<1>1. n \in Nat
  BY FS_CardinalityType
<1>2. \A i, j \in 1 .. n : s[i] = s[j] => i = j
  <2> SUFFICES ASSUME NEW i \in 1 .. n, NEW j \in 1 .. n, s[i] = s[j], i # j
               PROVE  FALSE
    OBVIOUS
  <2>1. i < j \/ j < i
    BY <1>1
  <2>2. <<s[i], s[i]>> \in R /\ s[i] \in S
    BY <2>1 DEF InOrderBy
  <2> QED
    BY <2>2 DEF Orders
<1>3. \A x \in S : \E i \in 1 .. n : s[i] = x
  <2>1. IsFiniteSet(1 .. n) /\ Cardinality(1 .. n) = n
    <3>1. 1 \in Int /\ n \in Int
      BY <1>1
    <3> QED
      BY <1>1, <3>1, FS_Interval
  <2>2. s \in Injection(1 .. n, S)
    BY <1>2 DEF Injection, IsInjective
  <2>3. s \in Surjection(1 .. n, S)
    BY <2>1, <2>2, FS_Injection
  <2> QED
    BY <2>3 DEF Surjection
<1>4. s \in Seq(S) /\ Len(s) = n
  BY <1>1
<1> QED
  BY <1>1, <1>2, <1>3, <1>4 DEF Listing

(* Numbers in order.                                                       *)
LEMMA NumbersInOrder ==
  ASSUME NEW S \in SUBSET Nat, IsFiniteSet(S), NEW s, s = Ascending(S)
  PROVE  /\ s \in Seq(S) /\ Len(s) = Cardinality(S) /\ Cardinality(S) \in Nat
         /\ \A x \in S : \E i \in 1 .. Len(s) : s[i] = x
<1> DEFINE R == {p \in S \X S : p[1] < p[2]}
           n == Cardinality(S)
<1>1. \A x, y \in S : <<x, y>> \in R <=> x < y
  OBVIOUS
<1> HIDE DEF R
<1>2. Orders(R, S)
  <2>1. ASSUME NEW x \in S
        PROVE  <<x, x>> \notin R
    <3>1. ~ (x < x)
      <4>1. PICK u \in Nat : u = x
        OBVIOUS
      <4> QED
        BY <4>1
    <3> QED
      BY <1>1, <3>1
  <2>2. ASSUME NEW x \in S, NEW y \in S, NEW z \in S, <<x, y>> \in R, <<y, z>> \in R
        PROVE  <<x, z>> \in R
    <3>1. x < y /\ y < z
      BY <1>1, <2>2
    <3>2. x < z
      <4>1. PICK u \in Nat, v \in Nat, w \in Nat : u = x /\ v = y /\ w = z
        OBVIOUS
      <4> QED
        BY <3>1, <4>1
    <3> QED
      BY <1>1, <3>2
  <2>3. ASSUME NEW x \in S, NEW y \in S, x # y
        PROVE  <<x, y>> \in R \/ <<y, x>> \in R
    <3>1. x < y \/ y < x
      <4>1. PICK u \in Nat, v \in Nat : u = x /\ v = y
        OBVIOUS
      <4> QED
        BY <2>3, <4>1
    <3> QED
      BY <1>1, <3>1
  <2> QED
    BY <2>1, <2>2, <2>3 DEF Orders
<1>3. s \in [1 .. n -> S] /\ InOrderBy(R, s, n)
  <2>1. PICK f \in [1 .. n -> S] : InOrderBy(R, f, n)
    BY <1>2, SortExists
  <2>2. \A i, j \in 1 .. n : i < j => f[i] < f[j]
    <3> TAKE i, j \in 1 .. n
    <3>1. f[i] \in S /\ f[j] \in S
      OBVIOUS
    <3> QED
      BY <1>1, <2>1, <3>1 DEF InOrderBy
  <2>3. s \in [1 .. n -> S] /\ \A i, j \in 1 .. n : i < j => s[i] < s[j]
    BY <2>2 DEF Ascending, InOrder
  <2>4. \A i, j \in 1 .. n : i < j => <<s[i], s[j]>> \in R
    <3> TAKE i, j \in 1 .. n
    <3>1. s[i] \in S /\ s[j] \in S
      BY <2>3
    <3> QED
      BY <1>1, <2>3, <3>1
  <2> QED
    BY <2>3, <2>4 DEF InOrderBy
<1>4. PICK m : m = n
  OBVIOUS
<1> HIDE DEF n
<1>5. m = Cardinality(S) /\ s \in [1 .. m -> S] /\ InOrderBy(R, s, m)
  BY <1>3, <1>4 DEF n
<1>6. /\ s \in Seq(S) /\ Len(s) = m /\ m \in Nat
      /\ \A x \in S : \E i \in 1 .. m : s[i] = x
  <2>1. Listing(s, S, m)
    BY <1>2, <1>5, SortedHas
  <2> QED
    BY <2>1 DEF Listing
<1> QED
  BY <1>5, <1>6

(* compare_rxq_cycles is an order, and queues come with the most cycles    *)
(* first.                                                                  *)
Before(a, b) == a[1] < b[1] \/ (a[1] = b[1] /\ a[2] < b[2])
Precedes(a, b, hist, how) ==
  IF how # "roundrobin" /\ hist[a] # hist[b] THEN hist[a] > hist[b] ELSE Before(a, b)

(* Port and queue numbers order the queues.                                *)
LEMMA BeforeOrders ==
  ASSUME NEW a \in Nat \X Nat, NEW b \in Nat \X Nat, NEW c \in Nat \X Nat
  PROVE  /\ ~Before(a, a)
         /\ Before(a, b) /\ Before(b, c) => Before(a, c)
         /\ a # b => Before(a, b) \/ Before(b, a)
<1>1. /\ a[1] \in Nat /\ a[2] \in Nat /\ b[1] \in Nat /\ b[2] \in Nat
      /\ c[1] \in Nat /\ c[2] \in Nat
  OBVIOUS
<1>2. a # b => a[1] # b[1] \/ a[2] # b[2]
  OBVIOUS
<1> QED
  BY <1>1, <1>2 DEF Before

(* So does compare_rxq_cycles, most cycles first.                          *)
LEMMA PrecedesOrders ==
  ASSUME NEW a \in Nat \X Nat, NEW b \in Nat \X Nat, NEW c \in Nat \X Nat,
         NEW hist, hist[a] \in Nat, hist[b] \in Nat, hist[c] \in Nat, NEW how
  PROVE  /\ ~Precedes(a, a, hist, how)
         /\ Precedes(a, b, hist, how) /\ Precedes(b, c, hist, how) => Precedes(a, c, hist, how)
         /\ a # b => Precedes(a, b, hist, how) \/ Precedes(b, a, hist, how)
         /\ how # "roundrobin" /\ Precedes(a, b, hist, how) => hist[a] >= hist[b]
<1>1. /\ ~Before(a, a)
      /\ Before(a, b) /\ Before(b, c) => Before(a, c)
      /\ a # b => Before(a, b) \/ Before(b, a)
  BY BeforeOrders
<1>2. PICK x \in Nat, y \in Nat, z \in Nat : x = hist[a] /\ y = hist[b] /\ z = hist[c]
  OBVIOUS
<1>3. CASE how = "roundrobin"
  BY <1>1, <1>3 DEF Precedes
<1>4. CASE how # "roundrobin"
  <2>1. /\ Precedes(a, a, hist, how) <=> Before(a, a)
        /\ Precedes(a, b, hist, how) <=> x > y \/ (x = y /\ Before(a, b))
        /\ Precedes(b, a, hist, how) <=> y > x \/ (x = y /\ Before(b, a))
        /\ Precedes(b, c, hist, how) <=> y > z \/ (y = z /\ Before(b, c))
        /\ Precedes(a, c, hist, how) <=> x > z \/ (x = z /\ Before(a, c))
    <3>1. ASSUME NEW p, NEW q, NEW u \in Nat, NEW v \in Nat, u = hist[p], v = hist[q]
          PROVE  Precedes(p, q, hist, how) <=> u > v \/ (u = v /\ Before(p, q))
      <4>1. CASE u = v
        <5>1. ~ (u > v)
          BY <4>1
        <5> QED
          BY <1>4, <3>1, <4>1, <5>1 DEF Precedes
      <4>2. CASE u # v
        BY <1>4, <3>1, <4>2 DEF Precedes
      <4> QED
        BY <4>1, <4>2
    <3>2. ~ (x > x)
      OBVIOUS
    <3> QED
      BY <1>2, <3>1, <3>2
  <2>2. x > y \/ x = y \/ y > x
    OBVIOUS
  <2>3. /\ x > y /\ y > z => x > z
        /\ x > y /\ y = z => x > z
        /\ x = y /\ y > z => x > z
        /\ x > y => x >= y
        /\ x = y => x >= y
    OBVIOUS
  <2>4. Precedes(a, b, hist, how) /\ Precedes(b, c, hist, how) => Precedes(a, c, hist, how)
    BY <1>1, <2>1, <2>3, Zenon
  <2>5. a # b => Precedes(a, b, hist, how) \/ Precedes(b, a, hist, how)
    BY <1>1, <2>1, <2>2, Zenon
  <2>6. Precedes(a, b, hist, how) => x >= y
    BY <2>1, <2>3, Zenon
  <2> QED
    BY <1>1, <1>2, <2>1, <2>4, <2>5, <2>6
<1> QED
  BY <1>3, <1>4

(* Unless the algorithm is round robin, the cycles of s do not grow.        *)
Descends(s, hist, how) ==
  how # "roundrobin" => \A i, j \in 1 .. Len(s) : i < j => hist[s[i]] >= hist[s[j]]

Arranged(s, qs, hist, how) ==
  /\ s \in Seq(qs)
  /\ \A x \in qs : \E i \in 1 .. Len(s) : s[i] = x
  /\ \A i, j \in 1 .. Len(s) : s[i] = s[j] => i = j
  /\ Descends(s, hist, how)

(* What the sorting of queues returns: each once, most cycles first.       *)
LEMMA SortedIs ==
  ASSUME NEW qs, NEW hist, NEW how, NEW s,
         qs \in SUBSET (Nat \X Nat), IsFiniteSet(qs), \A q \in qs : hist[q] \in Nat,
         s = Sorted(qs, hist, how)
  PROVE  Arranged(s, qs, hist, how)
<1> DEFINE R == {p \in qs \X qs : Precedes(p[1], p[2], hist, how)}
           n == Cardinality(qs)
<1>0. \A x \in qs : x \in Nat \X Nat
  OBVIOUS
<1>1. \A x, y \in qs : <<x, y>> \in R <=> Precedes(x, y, hist, how)
  OBVIOUS
<1> HIDE DEF R
<1>2. Orders(R, qs)
  <2>1. \A x \in qs : <<x, x>> \notin R
    BY <1>0, <1>1, PrecedesOrders
  <2>2. ASSUME NEW x \in qs, NEW y \in qs, NEW z \in qs, <<x, y>> \in R, <<y, z>> \in R
        PROVE  <<x, z>> \in R
    BY <1>0, <1>1, <2>2, PrecedesOrders
  <2>3. ASSUME NEW x \in qs, NEW y \in qs, x # y
        PROVE  <<x, y>> \in R \/ <<y, x>> \in R
    BY <1>0, <1>1, <2>3, PrecedesOrders
  <2> QED
    BY <2>1, <2>2, <2>3 DEF Orders
<1>3. s \in [1 .. n -> qs] /\ \A i, j \in 1 .. n : i < j => Precedes(s[i], s[j], hist, how)
  <2>1. PICK f \in [1 .. n -> qs] : InOrderBy(R, f, n)
    BY <1>2, SortExists
  <2>2. \A i, j \in 1 .. n : i < j => Precedes(f[i], f[j], hist, how)
    <3> TAKE i, j \in 1 .. n
    <3>1. f[i] \in qs /\ f[j] \in qs
      OBVIOUS
    <3> QED
      BY <1>1, <2>1, <3>1 DEF InOrderBy
  <2>3. s = CHOOSE t \in [1 .. n -> qs] :
              \A i, j \in 1 .. n : i < j => Precedes(t[i], t[j], hist, how)
    BY DEF Sorted, InOrder, Precedes, Before
  <2> QED
    BY <2>2, <2>3
<1>4. InOrderBy(R, s, n)
  <2> SUFFICES ASSUME NEW i \in 1 .. n, NEW j \in 1 .. n, i < j
               PROVE  <<s[i], s[j]>> \in R
    BY DEF InOrderBy
  <2>1. s[i] \in qs /\ s[j] \in qs
    BY <1>3
  <2> QED
    BY <1>1, <1>3, <2>1
<1>5. /\ s \in Seq(qs) /\ Len(s) = n
      /\ \A x \in qs : \E i \in 1 .. n : s[i] = x
      /\ \A i, j \in 1 .. n : s[i] = s[j] => i = j
  <2>1. PICK m : m = n
    OBVIOUS
  <2> HIDE DEF n
  <2>2. m = Cardinality(qs) /\ s \in [1 .. m -> qs] /\ InOrderBy(R, s, m)
    BY <1>3, <1>4, <2>1 DEF n
  <2>3. /\ s \in Seq(qs) /\ Len(s) = m
        /\ \A x \in qs : \E i \in 1 .. m : s[i] = x
        /\ \A i, j \in 1 .. m : s[i] = s[j] => i = j
    <3>1. Listing(s, qs, m)
      BY <1>2, <2>2, SortedHas
    <3> QED
      BY <3>1 DEF Listing
  <2> QED
    BY <2>1, <2>3
<1>6. ASSUME how # "roundrobin", NEW i \in 1 .. n, NEW j \in 1 .. n, i < j
      PROVE  hist[s[i]] >= hist[s[j]]
  <2>1. s[i] \in qs /\ s[j] \in qs /\ Precedes(s[i], s[j], hist, how)
    BY <1>3, <1>6
  <2>2. PICK a \in qs, b \in qs : a = s[i] /\ b = s[j]
    BY <2>1
  <2>3. hist[a] >= hist[b]
    BY <1>0, <1>6, <2>1, <2>2, PrecedesOrders
  <2> QED
    BY <2>2, <2>3
<1>7. Descends(s, hist, how)
  BY <1>5, <1>6 DEF Descends
<1> QED
  BY <1>5, <1>7 DEF Arranged

(* A whole turn around a circle changes no place.                          *)
LEMMA Shift ==
  ASSUME NEW C \in Nat \ {0}, NEW a \in Nat
  PROVE  (a + C) % C = a % C
<1>1. PICK d \in Int, r \in 0 .. C - 1 : a = C * d + r /\ r = a % C
  <2>1. a = C * (a \div C) + (a % C) /\ a % C \in 0 .. C - 1 /\ a \div C \in Int
    OBVIOUS
  <2> QED
    BY <2>1
<1>2. PICK e \in Int, s \in 0 .. C - 1 : a + C = C * e + s /\ s = (a + C) % C
  <2>0. a + C \in Nat
    OBVIOUS
  <2>1. a + C = C * ((a + C) \div C) + ((a + C) % C) /\ (a + C) % C \in 0 .. C - 1 /\ (a + C) \div C \in Int
    BY <2>0
  <2> QED
    BY <2>1
<1>3. PICK m \in Int : m = d + 1 - e /\ C * m = s - r
  <2>1. C * (d + 1 - e) = s - r
    BY <1>1, <1>2
  <2> QED
    BY <2>1
<1>4. C * m < C /\ C * m > -C
  BY <1>3
<1>5. m >= 1 => C * m >= C
  OBVIOUS
<1>6. m <= -1 => C * m <= -C
  OBVIOUS
<1>7. m = 0
  BY <1>4, <1>5, <1>6
<1>8. C * 0 = 0
  OBVIOUS
<1>9. C * m = 0
  BY <1>7, <1>8
<1>10. s = r
  BY <1>3, <1>9
<1> QED
  BY <1>1, <1>2, <1>10

(* Going around a circle from any place one comes by every place.          *)
LEMMA Around ==
  ASSUME NEW C \in Nat \ {0}, NEW a \in Nat, NEW j \in 0 .. C - 1
  PROVE  \E k \in 0 .. C - 1 : (a + k) % C = j
<1> DEFINE S == {b \in Nat : \E k \in 0 .. C - 1 : (b + k) % C = j}
<1>1. 0 \in S
  <2>1. (0 + j) % C = j
    OBVIOUS
  <2> QED
    BY <2>1
<1>2. ASSUME NEW b \in Nat, b \in S
      PROVE  b + 1 \in S
  <2>1. PICK k \in 0 .. C - 1 : (b + k) % C = j
    BY <1>2
  <2>2. CASE k # 0
    <3>1. k - 1 \in 0 .. C - 1 /\ (b + 1) + (k - 1) = b + k
      BY <2>2
    <3> QED
      BY <2>1, <3>1
  <2>3. CASE k = 0
    <3>1. C - 1 \in 0 .. C - 1 /\ (b + 1) + (C - 1) = b + C /\ b + 0 = b
      OBVIOUS
    <3>2. (b + C) % C = b % C
      BY Shift
    <3>3. ((b + 1) + (C - 1)) % C = j
      BY <2>1, <2>3, <3>1, <3>2
    <3> QED
      BY <3>1, <3>3
  <2> QED
    BY <2>2, <2>3
<1> HIDE DEF S
<1>3. Nat \subseteq S
  BY <1>1, <1>2, AllNat
<1> QED
  BY <1>3 DEF S

ListType(L, Q) ==
  [live : {L}, isolated : SUBSET L,
   pmds : {[n \in Numas |-> Ascending({c \in L : NumaOf[c] = n})]},
   numas : {Ascending({NumaOf[c] : c \in L})},
   n_rxq : [L -> Nat], proc_cycles : [L -> Nat], at : [Numas -> Nat],
   last : Numas \cup {NoCore}, pmd : UNION {[d -> L \cup {NoCore}] : d \in SUBSET Q}]

(* A queue given to a thread leaves the map of queues one.                 *)
LEMMA PmdTypes ==
  ASSUME NEW L, NEW Q, NEW m, NEW q \in Q, NEW c \in L \cup {NoCore},
         m \in UNION {[d -> L \cup {NoCore}] : d \in SUBSET Q}
  PROVE  /\ DOMAIN m \in SUBSET Q /\ \A p \in DOMAIN m : m[p] \in L \cup {NoCore}
         /\ Given(m, q, c) \in UNION {[d -> L \cup {NoCore}] : d \in SUBSET Q}
<1>1. PICK d \in SUBSET Q : m \in [d -> L \cup {NoCore}]
  OBVIOUS
<1>2. DOMAIN m = d
  BY <1>1
<1>3. Given(m, q, c) \in [d \cup {q} -> L \cup {NoCore}]
  BY <1>1, <1>2 DEF Given
<1>4. d \cup {q} \in SUBSET Q
  OBVIOUS
<1> QED
  BY <1>1, <1>2, <1>3, <1>4

(* What sched_pmd_add_rxq changes.                                         *)
LEMMA AddRxqEffect ==
  ASSUME NEW L, NEW Q, NEW s \in ListType(L, Q), NEW c \in L, NEW q \in Q, NEW w \in Nat,
         NEW r, r = AddRxq(s, c, q, w)
  PROVE  /\ r \in ListType(L, Q)
         /\ r.isolated = s.isolated /\ r.pmd = Given(s.pmd, q, c)
         /\ r.proc_cycles = [s.proc_cycles EXCEPT ![c] = @ + w]
<1>1. Given(s.pmd, q, c) \in UNION {[d -> L \cup {NoCore}] : d \in SUBSET Q}
  <2>1. c \in L \cup {NoCore} /\ s.pmd \in UNION {[d -> L \cup {NoCore}] : d \in SUBSET Q}
    BY DEF ListType
  <2> QED
    BY <2>1, PmdTypes
<1>2. [s.n_rxq EXCEPT ![c] = @ + 1] \in [L -> Nat] /\ [s.proc_cycles EXCEPT ![c] = @ + w] \in [L -> Nat]
  BY DEF ListType
<1>3. PICK t \in UNION {[d -> L \cup {NoCore}] : d \in SUBSET Q}, n \in [L -> Nat], p \in [L -> Nat] :
         /\ t = Given(s.pmd, q, c) /\ n = [s.n_rxq EXCEPT ![c] = @ + 1]
         /\ p = [s.proc_cycles EXCEPT ![c] = @ + w]
  BY <1>1, <1>2
<1>4. r = [s EXCEPT !.n_rxq = n, !.proc_cycles = p, !.pmd = t]
  BY <1>3 DEF AddRxq
<1>5. r \in ListType(L, Q) /\ r.isolated = s.isolated /\ r.pmd = t /\ r.proc_cycles = p
  BY <1>4 DEF ListType
<1> QED
  BY <1>3, <1>5

-----------------------------------------------------------------------------
(* The choice of a thread.                                                 *)
Free(s) == s.live \ s.isolated
Weight(s, c, hasCycles) == IF hasCycles THEN s.proc_cycles[c] ELSE s.n_rxq[c]

(* sched_pmd_get_lowest returns a thread that is not isolated, and with cycles*)
(* one that has no more of them than another.                              *)
LEMMA LowestIs ==
  ASSUME NEW L \in SUBSET Core, NEW Q, NEW s \in ListType(L, Q), NEW n, NEW hasCycles \in BOOLEAN,
         NonIso(s, n) # {}
  PROVE  /\ Lowest(s, n, hasCycles) \in NonIso(s, n)
         /\ hasCycles => \A d \in NonIso(s, n) :
              s.proc_cycles[Lowest(s, n, hasCycles)] <= s.proc_cycles[d]
<1> DEFINE N == NonIso(s, n)
           T == {Weight(s, c, hasCycles) : c \in N}
<1>0. N \in SUBSET L /\ N # {} /\ L \subseteq Nat
  BY CoreAssumption DEF NonIso, ListType
<1>1. \A c \in L : Weight(s, c, hasCycles) \in Nat
  BY DEF Weight, ListType
<1> HIDE DEF N
<1>2. T \in SUBSET Nat /\ T # {}
  BY <1>0, <1>1
<1>3. PICK m \in T : \A y \in T : m <= y
  <2> HIDE DEF T
  <2> QED
    BY <1>2, LeastNat
<1> DEFINE U == {c \in N : Weight(s, c, hasCycles) = m}
<1>4. U \in SUBSET Nat /\ U # {}
  BY <1>0, <1>3
<1>5. PICK a \in U : \A y \in U : a <= y
  <2> HIDE DEF U
  <2> QED
    BY <1>4, LeastNat
<1>6. a \in N /\ a \in Nat /\ m \in Nat /\ Weight(s, a, hasCycles) = m
  BY <1>0, <1>2, <1>3, <1>5
<1>7. \A d \in N : /\ Weight(s, a, hasCycles) <= Weight(s, d, hasCycles)
                   /\ d < a => Weight(s, a, hasCycles) < Weight(s, d, hasCycles)
  <2> TAKE d \in N
  <2>1. d \in Nat /\ Weight(s, d, hasCycles) \in Nat /\ m <= Weight(s, d, hasCycles)
    BY <1>0, <1>1, <1>3
  <2>2. ASSUME d < a
        PROVE  Weight(s, d, hasCycles) # m
    <3> SUFFICES ASSUME Weight(s, d, hasCycles) = m
                 PROVE  FALSE
      OBVIOUS
    <3>1. a <= d
      BY <1>5
    <3> QED
      BY <1>6, <2>1, <2>2, <3>1
  <2> QED
    BY <1>6, <2>1, <2>2
<1> DEFINE c == CHOOSE c \in N : \A d \in N : /\ Weight(s, c, hasCycles) <= Weight(s, d, hasCycles)
                                              /\ d < c => Weight(s, c, hasCycles) < Weight(s, d, hasCycles)
<1>8. c = Lowest(s, n, hasCycles)
  BY DEF Lowest, Weight, N
<1>9. c \in N /\ \A d \in N : Weight(s, c, hasCycles) <= Weight(s, d, hasCycles)
  BY <1>6, <1>7
<1> HIDE DEF c
<1>10. hasCycles => \A d \in N : s.proc_cycles[c] <= s.proc_cycles[d]
  BY <1>9 DEF Weight
<1> QED
  BY <1>8, <1>9, <1>10 DEF N

(* The threads of a node in the order of their cores.                      *)
LEMMA RowIs ==
  ASSUME NEW L \in SUBSET Core, NEW Q, NEW s \in ListType(L, Q), NEW n \in Numas
  PROVE  /\ s.pmds[n] \in Seq({c \in L : NumaOf[c] = n}) /\ Len(s.pmds[n]) \in Nat
         /\ \A c \in L : NumaOf[c] = n => \E i \in 1 .. Len(s.pmds[n]) : s.pmds[n][i] = c
         /\ \A i \in 1 .. Len(s.pmds[n]) : s.pmds[n][i] \in L /\ NumaOf[s.pmds[n][i]] = n
<1> DEFINE S == {c \in L : NumaOf[c] = n}
<1>1. s.pmds[n] = Ascending(S)
  BY DEF ListType
<1>2. S \in SUBSET Nat /\ IsFiniteSet(S)
  BY CoreAssumption, FS_Subset
<1>3. PICK t : t = s.pmds[n]
  OBVIOUS
<1>4. \A x \in S : x \in L /\ NumaOf[x] = n
  OBVIOUS
<1>5. \A c \in L : NumaOf[c] = n => c \in S
  OBVIOUS
<1> HIDE DEF S
<1>6. t \in Seq(S) /\ Len(t) = Cardinality(S) /\ Cardinality(S) \in Nat
      /\ \A x \in S : \E i \in 1 .. Len(t) : t[i] = x
  BY <1>1, <1>2, <1>3, NumbersInOrder
<1>7. \A i \in 1 .. Len(t) : t[i] \in S
  BY <1>6
<1>8. Len(t) \in Nat
  BY <1>6
<1> QED
  BY <1>3, <1>4, <1>5, <1>6, <1>7, <1>8 DEF S

(* The walk over a node finds a thread that is free, if there is one.      *)
LEMMA WalkFinds ==
  ASSUME NEW L \in SUBSET Core, NEW Q, NEW s \in ListType(L, Q), NEW n, NEW updown \in BOOLEAN,
         NonIso(s, n) # {}
  PROVE  RrCore(s, n, updown) \in NonIso(s, n) /\ RrAt(s, n, updown) \in Nat /\ n \in Numas
<1>1. PICK f \in L \ s.isolated : NumaOf[f] = n
  BY DEF NonIso, ListType
<1>2. n \in Numas
  BY <1>1 DEF Numas
<1>3. PICK len, row : len = Len(s.pmds[n]) /\ row = s.pmds[n]
  OBVIOUS
<1>4. /\ len \in Nat
      /\ \A c \in L : NumaOf[c] = n => \E i \in 1 .. len : row[i] = c
      /\ \A i \in 1 .. len : row[i] \in L /\ NumaOf[row[i]] = n
  <2>1. /\ Len(s.pmds[n]) \in Nat
        /\ \A c \in L : NumaOf[c] = n => \E i \in 1 .. Len(s.pmds[n]) : s.pmds[n][i] = c
        /\ \A i \in 1 .. Len(s.pmds[n]) : s.pmds[n][i] \in L /\ NumaOf[s.pmds[n][i]] = n
    BY <1>2, RowIs
  <2> QED
    BY <1>3, <2>1
<1>5. PICK a \in Nat : a = s.at[n]
  BY <1>2 DEF ListType
<1>6. PICK j \in 1 .. len : row[j] = f
  BY <1>1, <1>4
<1>7. PICK C \in Nat \ {0} : C = Circle(s, n, updown) /\ (C = len \/ C = 2 * len)
  <2>1. len \in Nat \ {0}
    BY <1>4, <1>6
  <2>2. CASE updown
    <3>1. Circle(s, n, updown) = 2 * len
      BY <1>3, <2>2 DEF Circle
    <3> QED
      BY <2>1, <3>1
  <2>3. CASE ~updown
    <3>1. Circle(s, n, updown) = 1 * len
      BY <1>3, <2>3 DEF Circle
    <3> QED
      BY <2>1, <3>1
  <2> QED
    BY <2>2, <2>3
<1> DEFINE At(k) == CoreAt(s, n, (a + k) % C)
           T == {k \in 0 .. 2 * len - 1 : At(k) \notin s.isolated}
<1>8. T = Shown(s, n, updown)
  BY <1>3, <1>5, <1>7 DEF Shown
<1>9. \A i \in 0 .. C - 1 : CoreAt(s, n, i) = row[IF i < len THEN i + 1 ELSE 2 * len - i]
  BY <1>3 DEF CoreAt
<1>10. \A k \in Nat : At(k) \in L /\ NumaOf[At(k)] = n
  <2> TAKE k \in Nat
  <2>1. PICK i \in 0 .. C - 1 : i = (a + k) % C
    OBVIOUS
  <2>2. PICK x \in 1 .. len : x = IF i < len THEN i + 1 ELSE 2 * len - i
    BY <1>4, <1>7
  <2>3. At(k) = row[x]
    BY <1>9, <2>1, <2>2
  <2> HIDE DEF At
  <2> QED
    BY <1>4, <2>3
<1>11. PICK k \in 0 .. C - 1 : (a + k) % C = j - 1
  <2>1. j - 1 \in 0 .. C - 1
    BY <1>4, <1>7
  <2> QED
    BY <2>1, Around
<1>12. k \in T
  <2>1. At(k) = row[j]
    <3>1. j - 1 \in 0 .. C - 1 /\ j - 1 < len /\ (j - 1) + 1 = j
      BY <1>4, <1>7
    <3> QED
      BY <1>9, <1>11, <3>1
  <2>2. k \in 0 .. 2 * len - 1
    BY <1>4, <1>7
  <2> QED
    BY <1>1, <1>6, <2>1, <2>2
<1>13. T \in SUBSET Nat /\ T # {}
  BY <1>12
<1>14. PICK m \in T : m = Min(T)
  <2> HIDE DEF T
  <2> QED
    BY <1>13, MinOfNats
<1>15. m \in Nat /\ At(m) \in L /\ NumaOf[At(m)] = n /\ At(m) \notin s.isolated
  <2> HIDE DEF At
  <2>1. m \in 0 .. 2 * len - 1 /\ At(m) \notin s.isolated
    BY <1>14
  <2>2. m \in Nat
    BY <2>1
  <2> QED
    BY <1>10, <2>1, <2>2
<1>16. RrCore(s, n, updown) = At(m) /\ RrAt(s, n, updown) = (a + m + 1) % C
  <2> HIDE DEF T
  <2>1. Shown(s, n, updown) # {} /\ Min(Shown(s, n, updown)) = m
    BY <1>8, <1>13, <1>14
  <2> QED
    BY <1>5, <1>7, <2>1 DEF RrCore, RrAt
<1>17. (a + m + 1) % C \in Nat
  BY <1>15
<1>18. At(m) \in NonIso(s, n)
  <2> HIDE DEF At
  <2> QED
    BY <1>15 DEF NonIso, ListType
<1> HIDE DEF At
<1> QED
  BY <1>2, <1>16, <1>17, <1>18

(* The node that is picked: the node of the queue where it has a free      *)
(* thread, else one that has, and none only when no thread is free.        *)
NodeAt(s, a, k) == s.numas[((a + k) % Len(s.numas)) + 1]
Hits(s, a) == {k \in 0 .. Len(s.numas) - 1 : NonIso(s, NodeAt(s, a, k)) # {}}

(* The node taken is the queue's, or the first hit of a walk from somewhere.*)
LEMMA PickNumaFrom ==
  ASSUME NEW s, NEW n
  PROVE  \E a \in Nat : PickNuma(s, n) = (IF NonIso(s, n) # {} THEN n
                                          ELSE IF Hits(s, a) = {} THEN NoCore
                                          ELSE NodeAt(s, a, Min(Hits(s, a))))
<1> DEFINE I == {i \in 1 .. Len(s.numas) : s.numas[i] = s.last}
           a == IF I # {} THEN Min(I) ELSE 0
<1>1. a \in Nat
  <2>1. I \in SUBSET Nat
    OBVIOUS
  <2> HIDE DEF I
  <2> QED
    BY <2>1, MinOfNats
<1>2. PickNuma(s, n) = (IF NonIso(s, n) # {} THEN n
                        ELSE IF Hits(s, a) = {} THEN NoCore
                        ELSE NodeAt(s, a, Min(Hits(s, a))))
  BY DEF PickNuma, SelectInSeq, NodeAt, Hits
<1> HIDE DEF a
<1> QED
  BY <1>1, <1>2

(* It has a thread for the queue whenever any node has.                    *)
LEMMA PickNumaIs ==
  ASSUME NEW L \in SUBSET Core, NEW Q, NEW s \in ListType(L, Q), NEW n
  PROVE  /\ NonIso(s, n) # {} => PickNuma(s, n) = n
         /\ Free(s) # {} => PickNuma(s, n) # NoCore /\ NonIso(s, PickNuma(s, n)) # {}
         /\ Free(s) = {} => PickNuma(s, n) = NoCore
<1>1. PICK a \in Nat : PickNuma(s, n) = (IF NonIso(s, n) # {} THEN n
                                          ELSE IF Hits(s, a) = {} THEN NoCore
                                          ELSE NodeAt(s, a, Min(Hits(s, a))))
  BY PickNumaFrom
<1>2. \A m : NonIso(s, m) # {} => m # NoCore /\ Free(s) # {}
  <2> SUFFICES ASSUME NEW m, NEW c \in NonIso(s, m)
               PROVE  m # NoCore /\ Free(s) # {}
    OBVIOUS
  <2>1. c \in Free(s) /\ c \in Core /\ NumaOf[c] = m
    BY DEF NonIso, Free, ListType
  <2> QED
    BY <2>1, NumaAssumption
<1>3. ASSUME Hits(s, a) # {}
      PROVE  NonIso(s, NodeAt(s, a, Min(Hits(s, a)))) # {}
  <2>1. Hits(s, a) \in SUBSET Nat
    BY DEF Hits
  <2>2. PICK m \in Hits(s, a) : m = Min(Hits(s, a))
    BY <1>3, <2>1, MinOfNats
  <2>3. NonIso(s, NodeAt(s, a, m)) # {}
    BY <2>2 DEF Hits
  <2> QED
    BY <2>2, <2>3
<1>4. ASSUME Free(s) # {}
      PROVE  Hits(s, a) # {}
  <2> DEFINE S == {NumaOf[c] : c \in L}
  <2>1. PICK d \in Free(s) : TRUE
    BY <1>4
  <2>2. d \in L /\ d \in NonIso(s, NumaOf[d]) /\ s.live = L /\ s.numas = Ascending(S)
    BY <2>1 DEF Free, NonIso, ListType
  <2>3. NumaOf[d] \in S
    BY <2>2
  <2>4. S \in SUBSET Nat
    BY NumaAssumption
  <2>5. IsFiniteSet(S)
    <3>1. IsFiniteSet(L)
      BY CoreAssumption, FS_Subset
    <3>2. [c \in L |-> NumaOf[c]] \in Surjection(L, S)
      BY DEF Surjection
    <3> QED
      BY <3>1, <3>2, FS_Surjection
  <2> HIDE DEF S
  <2>6. PICK t : t = s.numas
    OBVIOUS
  <2>7. Len(t) \in Nat /\ \A x \in S : \E i \in 1 .. Len(t) : t[i] = x
    BY <2>2, <2>4, <2>5, <2>6, NumbersInOrder
  <2>8. PICK i \in 1 .. Len(t) : t[i] = NumaOf[d]
    BY <2>3, <2>7
  <2>9. PICK N \in Nat \ {0} : N = Len(t)
    BY <2>7, <2>8
  <2>10. PICK k \in 0 .. N - 1 : (a + k) % N = i - 1
    <3>1. i - 1 \in 0 .. N - 1
      BY <2>7, <2>9
    <3> QED
      BY <3>1, Around
  <2>11. NodeAt(s, a, k) = NumaOf[d]
    <3>1. ((a + k) % N) + 1 = i
      BY <2>10
    <3> QED
      BY <2>6, <2>8, <2>9, <3>1 DEF NodeAt
  <2>12. k \in 0 .. Len(s.numas) - 1
    BY <2>6, <2>9
  <2> QED
    BY <2>2, <2>11, <2>12 DEF Hits
<1> QED
  BY <1>1, <1>2, <1>3, <1>4

(* The thread that sched_pmd_next gives, and where it leaves the walk.     *)
LEMMA NextPmdIs ==
  ASSUME NEW L \in SUBSET Core, NEW Q, NEW s \in ListType(L, Q), NEW n, NEW how,
         NEW w \in Nat, NonIso(s, n) # {}
  PROVE  /\ NextPmd(s, n, how, w > 0) \in NonIso(s, n)
         /\ how = "group" /\ w > 0 => \A d \in NonIso(s, n) :
              s.proc_cycles[NextPmd(s, n, how, w > 0)] <= s.proc_cycles[d]
         /\ RrAt(s, n, how = "cycles") \in Nat /\ n \in Numas
<1>1. PICK b \in BOOLEAN : b <=> w > 0
  OBVIOUS
<1>2. PICK u \in BOOLEAN : u <=> how = "cycles"
  OBVIOUS
<1>3. b = (w > 0) /\ u = (how = "cycles")
  BY <1>1, <1>2
<1>4. /\ Lowest(s, n, b) \in NonIso(s, n)
      /\ b => \A d \in NonIso(s, n) : s.proc_cycles[Lowest(s, n, b)] <= s.proc_cycles[d]
  BY LowestIs
<1>5. RrCore(s, n, u) \in NonIso(s, n) /\ RrAt(s, n, u) \in Nat /\ n \in Numas
  BY WalkFinds
<1>6. NextPmd(s, n, how, b) = IF how = "group" THEN Lowest(s, n, b) ELSE RrCore(s, n, u)
  BY <1>3 DEF NextPmd
<1>7. /\ NextPmd(s, n, how, b) \in NonIso(s, n)
      /\ how = "group" /\ b => \A d \in NonIso(s, n) :
           s.proc_cycles[NextPmd(s, n, how, b)] <= s.proc_cycles[d]
  BY <1>4, <1>5, <1>6
<1> QED
  BY <1>1, <1>3, <1>5, <1>7, Zenon

(* What one round of the second loop does: a queue goes to a free thread,  *)
(* of its own node where there is one, and to none when none is free; with *)
(* the group algorithm to the one with the least cycles of its node.       *)
GoesTo(s, r, q, c, hist, how) ==
  /\ r.isolated = s.isolated /\ r.pmd = Given(s.pmd, q, c)
  /\ c = NoCore => Free(s) = {} /\ r.proc_cycles = s.proc_cycles
  /\ c # NoCore =>
       /\ c \in Free(s) /\ r.proc_cycles = [s.proc_cycles EXCEPT ![c] = @ + hist[q]]
       /\ (\E d \in Free(s) : NumaOf[d] = PortNuma[q[1]]) => NumaOf[c] = PortNuma[q[1]]
       /\ how = "group" /\ hist[q] > 0 =>
            \A d \in Free(s) : NumaOf[d] = NumaOf[c] => s.proc_cycles[c] <= s.proc_cycles[d]

(* A round of the second loop gives the queue to one thread, or to none.   *)
LEMMA PlaceOneEffect ==
  ASSUME NEW L \in SUBSET Core, NEW Q, NEW s \in ListType(L, Q), NEW q \in Q, NEW hist,
         hist[q] \in Nat, NEW how, NEW r, r = PlaceOne(s, q, hist, how)
  PROVE  r \in ListType(L, Q) /\ \E c \in L \cup {NoCore} : GoesTo(s, r, q, c, hist, how)
<1>0. NoCore \notin L
  BY CoreAssumption
<1>1. PICK w, h : w = hist[q] /\ w \in Nat /\ h = PortNuma[q[1]]
  OBVIOUS
<1>2. PICK n : n = PickNuma(s, h)
  OBVIOUS
<1>3. /\ NonIso(s, h) # {} => n = h
      /\ Free(s) # {} => n # NoCore /\ NonIso(s, n) # {}
      /\ Free(s) = {} => n = NoCore
  <2>1. /\ NonIso(s, h) # {} => PickNuma(s, h) = h
        /\ Free(s) # {} => PickNuma(s, h) # NoCore /\ NonIso(s, PickNuma(s, h)) # {}
        /\ Free(s) = {} => PickNuma(s, h) = NoCore
    BY PickNumaIs, Zenon
  <2> QED
    BY <1>2, <2>1
<1>4. \A m : NonIso(s, m) = {d \in Free(s) : NumaOf[d] = m}
  BY DEF NonIso, Free
<1>5. CASE Free(s) = {}
  <2>1. n = NoCore
    BY <1>3, <1>5
  <2>2. PICK l \in Numas \cup {NoCore} : l = IF n = h THEN s.last ELSE n
    BY <2>1 DEF ListType
  <2>3. PICK m \in UNION {[d -> L \cup {NoCore}] : d \in SUBSET Q} : m = Given(s.pmd, q, NoCore)
    <3>1. NoCore \in L \cup {NoCore} /\ s.pmd \in UNION {[d -> L \cup {NoCore}] : d \in SUBSET Q}
      BY DEF ListType
    <3>2. Given(s.pmd, q, NoCore) \in UNION {[d -> L \cup {NoCore}] : d \in SUBSET Q}
      BY <3>1, PmdTypes
    <3> QED
      BY <3>2
  <2>4. r = [[s EXCEPT !.last = l, !.at = @] EXCEPT !.pmd = Given(@, q, NoCore)]
    BY <1>1, <1>2, <2>1, <2>2 DEF PlaceOne
  <2>6. [s EXCEPT !.last = l, !.at = @].pmd = s.pmd
    BY DEF ListType
  <2>7. r = [[s EXCEPT !.last = l, !.at = @] EXCEPT !.pmd = m]
    BY <2>3, <2>4, <2>6
  <2>8. /\ r \in ListType(L, Q) /\ r.isolated = s.isolated /\ r.pmd = m
        /\ r.proc_cycles = s.proc_cycles
    BY <2>7 DEF ListType
  <2>9. GoesTo(s, r, q, NoCore, hist, how)
    BY <1>5, <2>3, <2>8 DEF GoesTo
  <2> QED
    BY <2>8, <2>9
<1>6. CASE Free(s) # {}
  <2>1. n # NoCore /\ NonIso(s, n) # {}
    BY <1>3, <1>6
  <2>2. PICK c : c = NextPmd(s, n, how, w > 0)
    OBVIOUS
  <2>3. /\ c \in NonIso(s, n)
        /\ how = "group" /\ w > 0 => \A d \in NonIso(s, n) : s.proc_cycles[c] <= s.proc_cycles[d]
        /\ RrAt(s, n, how = "cycles") \in Nat /\ n \in Numas
    <3>1. /\ NextPmd(s, n, how, w > 0) \in NonIso(s, n)
          /\ how = "group" /\ w > 0 => \A d \in NonIso(s, n) :
               s.proc_cycles[NextPmd(s, n, how, w > 0)] <= s.proc_cycles[d]
          /\ RrAt(s, n, how = "cycles") \in Nat /\ n \in Numas
      BY <1>1, <2>1, NextPmdIs
    <3> QED
      BY <2>2, <3>1, Zenon
  <2>4. c \in L /\ c # NoCore /\ c \in Free(s) /\ NumaOf[c] = n
    BY <1>0, <1>4, <2>3 DEF Free, ListType
  <2>5. PICK l \in Numas \cup {NoCore} : l = IF n = h THEN s.last ELSE n
    BY <2>3 DEF ListType
  <2>6. PICK a \in [Numas -> Nat] :
          a = IF how = "group" THEN s.at ELSE [s.at EXCEPT ![n] = RrAt(s, n, how = "cycles")]
    BY <2>3 DEF ListType
  <2>7. PICK t : t = [s EXCEPT !.last = l, !.at = a]
    OBVIOUS
  <2>8. r = AddRxq(t, c, q, w)
    <3>1. t = [s EXCEPT !.last = IF n = h THEN @ ELSE n,
                        !.at = IF n = NoCore \/ how = "group" THEN @
                               ELSE [@ EXCEPT ![n] = RrAt(s, n, how = "cycles")]]
      BY <2>1, <2>5, <2>6, <2>7
    <3> QED
      BY <1>1, <1>2, <2>1, <2>2, <2>4, <3>1 DEF PlaceOne
  <2>9. /\ t \in ListType(L, Q) /\ t.isolated = s.isolated /\ t.pmd = s.pmd
        /\ t.proc_cycles = s.proc_cycles
    BY <2>7 DEF ListType
  <2>10. /\ r \in ListType(L, Q) /\ r.isolated = s.isolated /\ r.pmd = Given(s.pmd, q, c)
         /\ r.proc_cycles = [s.proc_cycles EXCEPT ![c] = @ + w]
    <3>1. t \in ListType(L, Q) /\ c \in L /\ w \in Nat
      BY <1>1, <2>4, <2>9
    <3>2. /\ r \in ListType(L, Q) /\ r.isolated = t.isolated /\ r.pmd = Given(t.pmd, q, c)
          /\ r.proc_cycles = [t.proc_cycles EXCEPT ![c] = @ + w]
      BY <2>8, <3>1, AddRxqEffect
    <3> QED
      BY <2>9, <3>2
  <2>11. (\E d \in Free(s) : NumaOf[d] = h) => NumaOf[c] = h
    BY <1>3, <1>4, <2>4
  <2>12. how = "group" /\ w > 0 =>
           \A d \in Free(s) : NumaOf[d] = NumaOf[c] => s.proc_cycles[c] <= s.proc_cycles[d]
    BY <1>4, <2>3, <2>4
  <2>13. GoesTo(s, r, q, c, hist, how)
    BY <1>1, <2>4, <2>10, <2>11, <2>12 DEF GoesTo
  <2> QED
    BY <2>4, <2>10, <2>13
<1> QED
  BY <1>5, <1>6

-----------------------------------------------------------------------------
(* The cycles a thread has been given.                                     *)

(* One pair for each cycle that f counts for the members of s.             *)
Tally(f, s) == {x \in s \X Nat : x[2] \in 1 .. f[x[1]]}

(* The pairs of one member are as many as f says.                          *)
LEMMA TallyOne ==
  ASSUME NEW f, NEW x, f[x] \in Nat
  PROVE  IsFiniteSet(Tally(f, {x})) /\ Cardinality(Tally(f, {x})) = f[x]
<1> DEFINE A == 1 .. f[x]
           g == [i \in A |-> <<x, i>>]
<1>1. IsFiniteSet(A) /\ Cardinality(A) = f[x]
  <2>1. 1 \in Int /\ f[x] \in Int
    OBVIOUS
  <2> QED
    BY <2>1, FS_Interval
<1>2. g \in Bijection(A, Tally(f, {x}))
  <2>1. g \in [A -> Tally(f, {x})]
    BY DEF Tally
  <2>2. IsInjective(g)
    BY DEF IsInjective
  <2>3. \A t \in Tally(f, {x}) : \E s \in A : g[s] = t
    BY DEF Tally
  <2> QED
    BY <2>1, <2>2, <2>3 DEF Bijection, Injection, Surjection
<1> QED
  BY <1>1, <1>2, FS_Bijection DEF ExistsBijection

(* Splitting off one member.                                               *)
LEMMA TallySplit ==
  ASSUME NEW f, NEW s, NEW x \in s, f[x] \in Nat, IsFiniteSet(Tally(f, s \ {x}))
  PROVE  /\ IsFiniteSet(Tally(f, s))
         /\ Cardinality(Tally(f, s)) = Cardinality(Tally(f, s \ {x})) + f[x]
<1> DEFINE A == Tally(f, s \ {x})
           B == Tally(f, {x})
<1>1. IsFiniteSet(B) /\ Cardinality(B) = f[x]
  BY TallyOne
<1>2. Tally(f, s) = A \cup B /\ A \cap B = {}
  BY DEF Tally
<1> HIDE DEF A, B
<1>3. IsFiniteSet(A)
  BY DEF A
<1>4. Cardinality(A) \in Nat /\ Cardinality(B) \in Nat
  BY <1>1, <1>3, FS_CardinalityType
<1>5. Cardinality(A \cap B) = 0
  BY <1>2, FS_EmptySet
<1>6. /\ IsFiniteSet(A \cup B)
      /\ Cardinality(A \cup B) = Cardinality(A) + Cardinality(B) - Cardinality(A \cap B)
  BY <1>1, <1>3, FS_Union
<1>7. Cardinality(A \cup B) = Cardinality(A) + f[x]
  BY <1>1, <1>4, <1>5, <1>6
<1> QED
  BY <1>2, <1>6, <1>7 DEF A

(* The tally of a finite set of numbers is finite.                         *)
LEMMA TallyFinite ==
  ASSUME NEW D, IsFiniteSet(D), NEW f, \A x \in D : f[x] \in Nat
  PROVE  /\ \A s \in SUBSET D : IsFiniteSet(Tally(f, s)) /\ Cardinality(Tally(f, s)) \in Nat
         /\ Cardinality(Tally(f, {})) = 0
         /\ \A s \in SUBSET D : \A x \in s :
              Cardinality(Tally(f, s)) = Cardinality(Tally(f, s \ {x})) + f[x]
<1> DEFINE P == {s \in SUBSET D : IsFiniteSet(Tally(f, s))}
<1>1. Tally(f, {}) = {}
  BY DEF Tally
<1>2. {} \in P
  BY <1>1, FS_EmptySet
<1>3. ASSUME NEW s \in SUBSET D, s # {}, \A x \in s : s \ {x} \in P
      PROVE  s \in P
  <2>1. PICK x \in s : TRUE
    BY <1>3
  <2> QED
    BY <1>3, <2>1, TallySplit
<1> HIDE DEF P
<1>4. SUBSET D \subseteq P
  BY <1>2, <1>3, AllFinite
<1>5. \A s \in SUBSET D : IsFiniteSet(Tally(f, s))
  BY <1>4 DEF P
<1>6. ASSUME NEW s \in SUBSET D, NEW x \in s
      PROVE  Cardinality(Tally(f, s)) = Cardinality(Tally(f, s \ {x})) + f[x]
  <2>1. s \ {x} \in SUBSET D /\ f[x] \in Nat
    OBVIOUS
  <2> QED
    BY <2>1, <1>5, TallySplit
<1> QED
  BY <1>1, <1>5, <1>6, FS_CardinalityType, FS_EmptySet

(* The fold of the library adds up what the tally counts.                  *)
LEMMA FoldTallies ==
  ASSUME NEW D, IsFiniteSet(D), NEW f, \A x \in D : f[x] \in Nat
  PROVE  MapThenSumSet(LAMBDA x : f[x], D) = Cardinality(Tally(f, D))
<1> DEFINE g == [s \in SUBSET D |-> Cardinality(Tally(f, s))]
           Rec(it) == it = [s \in SUBSET D |->
                              IF s = {} THEN 0
                              ELSE LET x == CHOOSE y \in s : TRUE
                                   IN  f[x] + it[s \ {x}]]
           it == CHOOSE h : Rec(h)
<1>1. /\ \A s \in SUBSET D : Cardinality(Tally(f, s)) \in Nat
      /\ Cardinality(Tally(f, {})) = 0
      /\ \A s \in SUBSET D : \A x \in s :
           Cardinality(Tally(f, s)) = Cardinality(Tally(f, s \ {x})) + f[x]
  BY TallyFinite
<1>2. Rec(g)
  <2> SUFFICES ASSUME NEW s \in SUBSET D, s # {}
               PROVE  g[s] = LET x == CHOOSE y \in s : TRUE IN  f[x] + g[s \ {x}]
    BY <1>1
  <2> DEFINE x == CHOOSE y \in s : TRUE
  <2>1. x \in s
    OBVIOUS
  <2> HIDE DEF x
  <2>2. g[s] = g[s \ {x}] + f[x] /\ g[s \ {x}] \in Nat /\ f[x] \in Nat
    BY <1>1, <2>1
  <2>3. g[s] = f[x] + g[s \ {x}]
    BY <2>2
  <2> QED
    BY <2>3 DEF x
<1>3. Rec(it)
  BY <1>2
<1>4. MapThenSumSet(LAMBDA x : f[x], D) = it[D]
  BY DEF MapThenSumSet, MapThenFoldSet
<1> HIDE DEF it
<1> DEFINE P == {s \in SUBSET D : it[s] = Cardinality(Tally(f, s))}
<1>5. {} \in P
  BY <1>1, <1>3
<1>6. ASSUME NEW s \in SUBSET D, s # {}, \A x \in s : s \ {x} \in P
      PROVE  s \in P
  <2> DEFINE x == CHOOSE y \in s : TRUE
  <2>1. x \in s
    BY <1>6
  <2>2. it[s] = f[x] + it[s \ {x}]
    BY <1>3, <1>6
  <2> HIDE DEF x
  <2>3. it[s \ {x}] = Cardinality(Tally(f, s \ {x})) /\ f[x] \in Nat
    BY <1>6, <2>1
  <2>4. /\ Cardinality(Tally(f, s)) = Cardinality(Tally(f, s \ {x})) + f[x]
        /\ Cardinality(Tally(f, s \ {x})) \in Nat
    BY <1>1, <2>1
  <2> QED
    BY <2>2, <2>3, <2>4
<1> HIDE DEF P
<1>7. SUBSET D \subseteq P
  BY <1>5, <1>6, AllFinite
<1> QED
  BY <1>4, <1>7 DEF P

(* The queues of a thread, and the cycles of a set of queues.              *)
QueuesOf(m, c) == {q \in DOMAIN m : m[q] = c}
Cycles(hist, qs) == Cardinality(Tally(hist, qs))

(* proc_cycles is the sum of the cycles of a thread's queues.              *)
Sums(s, hist) == \A c \in s.live : s.proc_cycles[c] = Cycles(hist, QueuesOf(s.pmd, c))

(* The cycles of a thread that is given a queue; no other's change.        *)
LEMMA GivenAdds ==
  ASSUME NEW Q, IsFiniteSet(Q), NEW hist, \A p \in Q : hist[p] \in Nat,
         NEW m, DOMAIN m \in SUBSET Q, NEW q \in Q, q \notin DOMAIN m, NEW c
  PROVE  /\ Cycles(hist, QueuesOf(Given(m, q, c), c)) = Cycles(hist, QueuesOf(m, c)) + hist[q]
         /\ \A d : d # c => QueuesOf(Given(m, q, c), d) = QueuesOf(m, d)
<1>1. /\ QueuesOf(Given(m, q, c), c) = QueuesOf(m, c) \cup {q}
      /\ QueuesOf(m, c) \in SUBSET Q /\ q \notin QueuesOf(m, c)
  BY DEF QueuesOf, Given
<1>2. \A d : d # c => QueuesOf(Given(m, q, c), d) = QueuesOf(m, d)
  BY DEF QueuesOf, Given
<1>3. PICK s \in SUBSET Q : s = QueuesOf(m, c)
  BY <1>1
<1>4. s \cup {q} \in SUBSET Q /\ q \in s \cup {q} /\ (s \cup {q}) \ {q} = s
  BY <1>1, <1>3
<1>5. Cardinality(Tally(hist, s \cup {q})) = Cardinality(Tally(hist, (s \cup {q}) \ {q})) + hist[q]
  BY <1>4, TallyFinite
<1> QED
  BY <1>1, <1>2, <1>3, <1>4, <1>5 DEF Cycles

(* Thread c, or none, gets queue q.                                        *)
Gets(s, r, q, c, hist) ==
  /\ r.pmd = Given(s.pmd, q, c)
  /\ c = NoCore => r.proc_cycles = s.proc_cycles
  /\ c # NoCore => r.proc_cycles = [s.proc_cycles EXCEPT ![c] = @ + hist[q]]

(* Giving a queue to a thread keeps the sums right.                        *)
LEMMA SumsKept ==
  ASSUME NEW L \in SUBSET Core, NEW Q, IsFiniteSet(Q), NEW s \in ListType(L, Q), NEW hist,
         \A p \in Q : hist[p] \in Nat, NEW q \in Q, q \notin DOMAIN s.pmd, Sums(s, hist),
         NEW r \in ListType(L, Q), NEW c \in L \cup {NoCore}, Gets(s, r, q, c, hist)
  PROVE  Sums(r, hist)
<1>0. /\ r.pmd = Given(s.pmd, q, c)
      /\ c = NoCore => r.proc_cycles = s.proc_cycles
      /\ c # NoCore => r.proc_cycles = [s.proc_cycles EXCEPT ![c] = @ + hist[q]]
  BY DEF Gets
<1>1. DOMAIN s.pmd \in SUBSET Q
  BY PmdTypes DEF ListType
<1>2. /\ Cycles(hist, QueuesOf(r.pmd, c)) = Cycles(hist, QueuesOf(s.pmd, c)) + hist[q]
      /\ \A d : d # c => QueuesOf(r.pmd, d) = QueuesOf(s.pmd, d)
  BY <1>0, <1>1, GivenAdds
<1>3. s.live = L /\ r.live = L /\ s.proc_cycles \in [L -> Nat] /\ NoCore \notin L
  BY CoreAssumption DEF ListType
<1> SUFFICES ASSUME NEW d \in L
             PROVE  r.proc_cycles[d] = Cycles(hist, QueuesOf(r.pmd, d))
  BY <1>3 DEF Sums
<1>4. s.proc_cycles[d] = Cycles(hist, QueuesOf(s.pmd, d))
  BY <1>3 DEF Sums
<1>5. CASE d = c
  <2>1. r.proc_cycles[d] = s.proc_cycles[d] + hist[q]
    BY <1>0, <1>3, <1>5
  <2> QED
    BY <1>2, <1>4, <1>5, <2>1
<1>6. CASE d # c
  <2>1. r.proc_cycles[d] = s.proc_cycles[d]
    BY <1>0, <1>3, <1>6
  <2> QED
    BY <1>2, <1>4, <1>6, <2>1
<1> QED
  BY <1>5, <1>6

-----------------------------------------------------------------------------
(* The loop over the pinned queues.                                        *)

(* The fold of the library takes the last element of a sequence last.      *)
LEMMA LastMax ==
  ASSUME NEW n \in Nat, NEW s \in SUBSET (1 .. n + 1), n + 1 \in s
  PROVE  Max(s) = n + 1
<1>1. \A y \in s : n + 1 >= y /\ y \in Nat
  OBVIOUS
<1> DEFINE m == Max(s)
<1>2. m \in s /\ \A y \in s : m >= y
  BY <1>1 DEF Max
<1> HIDE DEF m
<1>3. m >= n + 1 /\ n + 1 >= m /\ m \in Nat
  BY <1>1, <1>2
<1>4. m = n + 1
  BY <1>3
<1> QED
  BY <1>4 DEF m

(* One round of it.                                                        *)
PinStep(r, q, hist, alone) ==
  AddRxq([r EXCEPT !.isolated = @ \cup IF alone THEN {Pin[q]} ELSE {}], Pin[q], q, hist[q])

Folding(g, base, sq, n, hist, alone) ==
  g = [s \in SUBSET (1 .. n) |->
         IF s = {} THEN base ELSE PinStep(g[s \ {Max(s)}], sq[Max(s)], hist, alone)]

(* The first loop has its list after any number of queues.                 *)
LEMMA FoldExists ==
  ASSUME NEW base, NEW sq, NEW n \in Nat, NEW hist, NEW alone
  PROVE  \E g : Folding(g, base, sq, n, hist, alone)
<1> DEFINE S == {k \in Nat : \E g : Folding(g, base, sq, k, hist, alone)}
<1>1. 0 \in S
  <2>1. SUBSET (1 .. 0) = {{}}
    OBVIOUS
  <2>2. Folding([s \in SUBSET (1 .. 0) |-> base], base, sq, 0, hist, alone)
    BY <2>1 DEF Folding
  <2> QED
    BY <2>2
<1>2. ASSUME NEW k \in Nat, k \in S
      PROVE  k + 1 \in S
  <2>1. PICK g : Folding(g, base, sq, k, hist, alone)
    BY <1>2
  <2> DEFINE h == [s \in SUBSET (1 .. k + 1) |->
                     IF k + 1 \in s THEN PinStep(g[s \ {k + 1}], sq[k + 1], hist, alone) ELSE g[s]]
  <2>2. ASSUME NEW s \in SUBSET (1 .. k + 1)
        PROVE  h[s] = IF s = {} THEN base ELSE PinStep(h[s \ {Max(s)}], sq[Max(s)], hist, alone)
    <3>1. CASE k + 1 \in s
      <4>1. Max(s) = k + 1 /\ s # {}
        BY <3>1, LastMax
      <4>2. s \ {k + 1} \in SUBSET (1 .. k + 1) /\ k + 1 \notin s \ {k + 1}
        OBVIOUS
      <4>3. h[s \ {k + 1}] = g[s \ {k + 1}]
        BY <4>2
      <4>4. h[s] = PinStep(g[s \ {k + 1}], sq[k + 1], hist, alone)
        BY <3>1
      <4> HIDE DEF h
      <4> QED
        BY <4>1, <4>3, <4>4
    <3>2. CASE k + 1 \notin s
      <4>1. s \in SUBSET (1 .. k)
        BY <3>2
      <4>2. g[s] = IF s = {} THEN base ELSE PinStep(g[s \ {Max(s)}], sq[Max(s)], hist, alone)
        BY <2>1, <4>1 DEF Folding
      <4>3. h[s] = g[s]
        BY <3>2
      <4>4. k + 1 \notin s \ {Max(s)} /\ s \ {Max(s)} \in SUBSET (1 .. k + 1)
        BY <3>2
      <4>5. h[s \ {Max(s)}] = g[s \ {Max(s)}]
        BY <4>4
      <4> HIDE DEF h
      <4> QED
        BY <4>2, <4>3, <4>5
    <3> QED
      BY <3>1, <3>2
  <2>3. h = [s \in SUBSET (1 .. k + 1) |-> h[s]]
    OBVIOUS
  <2> HIDE DEF h
  <2>4. Folding(h, base, sq, k + 1, hist, alone)
    BY <2>2, <2>3 DEF Folding
  <2> QED
    BY <2>4
<1> HIDE DEF S
<1>3. n \in S
  BY <1>1, <1>2, AllNat
<1> QED
  BY <1>3 DEF S

(* The fold takes the queues one by one.                                   *)
LEMMA PinnedSteps ==
  ASSUME NEW base, NEW qs, NEW hist, NEW alone, NEW sq, sq = Sorted(qs, hist, "roundrobin"),
         NEW n \in Nat, DOMAIN sq = 1 .. n
  PROVE  \E it : /\ it[0] = base
                 /\ \A k \in 1 .. n : it[k] = PinStep(it[k - 1], sq[k], hist, alone)
                 /\ PlacePinned(base, qs, hist, alone) = it[n]
<1> DEFINE g == CHOOSE iter : iter = [s \in SUBSET (1 .. n) |->
                  IF s = {} THEN base ELSE PinStep(iter[s \ {Max(s)}], sq[Max(s)], hist, alone)]
           it == [k \in 0 .. n |-> g[1 .. k]]
<1>1. Folding(g, base, sq, n, hist, alone)
  <2>1. \E iter : Folding(iter, base, sq, n, hist, alone)
    BY FoldExists
  <2> QED
    BY <2>1 DEF Folding
<1>2. PlacePinned(base, qs, hist, alone) = g[1 .. n]
  BY ZenonT(60) DEF PlacePinned, FoldLeft, MapThenFoldSet, PinStep
<1> HIDE DEF g
<1>3. it[0] = base
  <2>1. 1 .. 0 = {} /\ {} \in SUBSET (1 .. n)
    OBVIOUS
  <2>2. g[{}] = base
    BY <1>1, <2>1 DEF Folding
  <2> QED
    BY <2>1, <2>2
<1>4. ASSUME NEW k \in 1 .. n
      PROVE  it[k] = PinStep(it[k - 1], sq[k], hist, alone)
  <2>1. (1 .. k) \in SUBSET (1 .. n) /\ (1 .. k) # {} /\ k - 1 \in Nat /\ k - 1 \in 0 .. n
        /\ k \in 0 .. n
    OBVIOUS
  <2>2. Max(1 .. k) = k
    <3>1. (1 .. k) \in SUBSET (1 .. (k - 1) + 1) /\ (k - 1) + 1 \in 1 .. k /\ (k - 1) + 1 = k
      BY <2>1
    <3> QED
      BY <2>1, <3>1, LastMax
  <2>3. (1 .. k) \ {k} = 1 .. k - 1
    OBVIOUS
  <2>4. g[1 .. k] = PinStep(g[(1 .. k) \ {Max(1 .. k)}], sq[Max(1 .. k)], hist, alone)
    BY <1>1, <2>1 DEF Folding
  <2> QED
    BY <2>1, <2>2, <2>3, <2>4
<1>5. PlacePinned(base, qs, hist, alone) = it[n]
  BY <1>2
<1> HIDE DEF it
<1> QED
  BY <1>3, <1>4, <1>5

(* What the list is like once the queues of D have been pinned.            *)
PinnedTo(s, L, Q, hist, D) ==
  /\ s \in ListType(L, Q) /\ DOMAIN s.pmd = D /\ Sums(s, hist)
  /\ \A q \in D : s.pmd[q] = Pin[q]

(* One queue of the first loop.                                            *)
LEMMA PinStepKeeps ==
  ASSUME NEW L \in SUBSET Core, NEW Q, IsFiniteSet(Q), NEW hist, \A p \in Q : hist[p] \in Nat,
         NEW D \in SUBSET Q, NEW s, PinnedTo(s, L, Q, hist, D), NEW q \in Q, q \notin D,
         Pin[q] \in L, NEW alone, NEW r, r = PinStep(s, q, hist, alone)
  PROVE  PinnedTo(r, L, Q, hist, D \cup {q})
<1>1. PICK i \in SUBSET L : i = s.isolated \cup IF alone THEN {Pin[q]} ELSE {}
  BY DEF PinnedTo, ListType
<1>2. PICK t : t = [s EXCEPT !.isolated = i]
  OBVIOUS
<1>3. r = AddRxq(t, Pin[q], q, hist[q])
  BY <1>1, <1>2 DEF PinStep
<1>4. t \in ListType(L, Q) /\ t.pmd = s.pmd /\ t.proc_cycles = s.proc_cycles /\ t.live = s.live
  BY <1>2 DEF PinnedTo, ListType
<1>5. /\ r \in ListType(L, Q) /\ r.pmd = Given(s.pmd, q, Pin[q])
      /\ r.proc_cycles = [s.proc_cycles EXCEPT ![Pin[q]] = @ + hist[q]]
  BY <1>3, <1>4, AddRxqEffect
<1>6. Sums(r, hist)
  <2>1. Pin[q] \in L \cup {NoCore} /\ Pin[q] # NoCore
    BY CoreAssumption
  <2>2. s \in ListType(L, Q) /\ Sums(s, hist) /\ q \notin DOMAIN s.pmd
    BY DEF PinnedTo
  <2>3. PICK c \in L \cup {NoCore} : c = Pin[q]
    BY <2>1
  <2>4. Gets(s, r, q, c, hist)
    BY <1>4, <1>5, <2>1, <2>3 DEF Gets
  <2> QED
    BY <1>5, <2>2, <2>4, SumsKept
<1>7. DOMAIN r.pmd = D \cup {q} /\ \A p \in D \cup {q} : r.pmd[p] = Pin[p]
  BY <1>5 DEF PinnedTo, Given
<1> QED
  BY <1>5, <1>6, <1>7 DEF PinnedTo

(* After sched_numa_list_populate no queue has been given to a thread.     *)
LEMMA PopulateIs ==
  ASSUME NEW L \in SUBSET Core, NEW Q, NEW hist
  PROVE  PinnedTo(Populate(L), L, Q, hist, {})
<1>1. DOMAIN <<>> = {}
  OBVIOUS
<1>2. <<>> \in [{} -> L \cup {NoCore}]
  OBVIOUS
<1>3. PICK m \in UNION {[d -> L \cup {NoCore}] : d \in SUBSET Q} : m = <<>>
  <2>1. {} \in SUBSET Q
    OBVIOUS
  <2> QED
    BY <1>2, <2>1
<1>4. PICK s : s = Populate(L)
  OBVIOUS
<1>5. s \in ListType(L, Q) /\ s.pmd = m /\ s.proc_cycles = [c \in L |-> 0] /\ s.live = L
  BY <1>3, <1>4 DEF Populate, ListType
<1>6. \A c \in L : QueuesOf(m, c) = {}
  BY <1>1, <1>3 DEF QueuesOf
<1>7. Cycles(hist, {}) = 0
  <2>1. Tally(hist, {}) = {}
    BY DEF Tally
  <2> QED
    BY <2>1, FS_EmptySet DEF Cycles
<1>8. Sums(s, hist)
  BY <1>5, <1>6, <1>7 DEF Sums
<1> QED
  BY <1>1, <1>3, <1>4, <1>5, <1>8 DEF PinnedTo

(* The first loop gives every pinned queue to the thread of its core, and  *)
(* nothing else.                                                           *)
LEMMA PlacePinnedIs ==
  ASSUME NEW L \in SUBSET Core, NEW Q \in SUBSET (Nat \X Nat), IsFiniteSet(Q),
         NEW hist, \A p \in Q : hist[p] \in Nat,
         NEW D \in SUBSET Q, \A q \in D : Pin[q] \in L, NEW alone
  PROVE  PinnedTo(PlacePinned(Populate(L), D, hist, alone), L, Q, hist, D)
<1>1. PICK sq, rr : sq = Sorted(D, hist, rr) /\ rr = "roundrobin"
  OBVIOUS
<1>2. D \in SUBSET (Nat \X Nat) /\ IsFiniteSet(D) /\ \A p \in D : hist[p] \in Nat
  BY FS_Subset
<1>3. /\ sq \in Seq(D)
      /\ \A x \in D : \E i \in 1 .. Len(sq) : sq[i] = x
      /\ \A i, j \in 1 .. Len(sq) : sq[i] = sq[j] => i = j
  <2>1. Arranged(sq, D, hist, rr)
    BY <1>1, <1>2, SortedIs, Zenon
  <2> QED
    BY <2>1 DEF Arranged
<1>4. PICK n \in Nat : n = Len(sq) /\ DOMAIN sq = 1 .. n /\ \A i \in 1 .. n : sq[i] \in D
  BY <1>3
<1>5. PICK it : /\ it[0] = Populate(L)
                /\ \A k \in 1 .. n : it[k] = PinStep(it[k - 1], sq[k], hist, alone)
                /\ PlacePinned(Populate(L), D, hist, alone) = it[n]
  <2>1. sq = Sorted(D, hist, "roundrobin")
    BY <1>1
  <2>2. PICK base : base = Populate(L)
    OBVIOUS
  <2>3. n \in Nat /\ DOMAIN sq = 1 .. n
    BY <1>4
  <2>4. \E it : /\ it[0] = base
                /\ \A k \in 1 .. n : it[k] = PinStep(it[k - 1], sq[k], hist, alone)
                /\ PlacePinned(base, D, hist, alone) = it[n]
    BY <2>1, <2>3, PinnedSteps
  <2> QED
    BY <2>2, <2>4
<1> DEFINE Set(k) == {sq[i] : i \in 1 .. k}
           S == {k \in Nat : k <= n => PinnedTo(it[k], L, Q, hist, Set(k))}
<1>6. 0 \in S
  <2>1. Set(0) = {}
    OBVIOUS
  <2> HIDE DEF Set
  <2> QED
    BY <1>5, <2>1, PopulateIs
<1>7. ASSUME NEW k \in Nat, k \in S
      PROVE  k + 1 \in S
  <2> SUFFICES ASSUME k + 1 <= n
               PROVE  PinnedTo(it[k + 1], L, Q, hist, Set(k + 1))
    OBVIOUS
  <2>1. k + 1 \in 1 .. n /\ (k + 1) - 1 = k /\ k <= n
    BY <1>4
  <2>2. it[k + 1] = PinStep(it[k], sq[k + 1], hist, alone) /\ PinnedTo(it[k], L, Q, hist, Set(k))
    BY <1>5, <1>7, <2>1
  <2>3. sq[k + 1] \in D /\ sq[k + 1] \in Q /\ Pin[sq[k + 1]] \in L
    BY <1>4, <2>1
  <2>4. Set(k + 1) = Set(k) \cup {sq[k + 1]}
    <3>1. 1 .. k + 1 = (1 .. k) \cup {k + 1}
      OBVIOUS
    <3> QED
      BY <3>1
  <2>5. Set(k) \in SUBSET Q
    BY <1>4, <2>1
  <2>6. sq[k + 1] \notin Set(k)
    <3> SUFFICES ASSUME NEW i \in 1 .. k, sq[i] = sq[k + 1]
                 PROVE  FALSE
      OBVIOUS
    <3>1. i \in 1 .. Len(sq) /\ k + 1 \in 1 .. Len(sq) /\ i # k + 1
      BY <1>4, <2>1
    <3> QED
      BY <1>3, <3>1
  <2> HIDE DEF Set
  <2>7. PICK r, s, q, d : r = it[k + 1] /\ s = it[k] /\ q = sq[k + 1] /\ d = Set(k)
    OBVIOUS
  <2>8. PinnedTo(r, L, Q, hist, d \cup {q})
    BY <2>2, <2>3, <2>5, <2>6, <2>7, PinStepKeeps
  <2> QED
    BY <2>4, <2>7, <2>8
<1>8. Nat \subseteq S
  <2> HIDE DEF S
  <2> QED
    BY <1>6, <1>7, AllNat
<1>9. PinnedTo(it[n], L, Q, hist, Set(n))
  <2> HIDE DEF Set
  <2> QED
    BY <1>4, <1>8
<1>10. Set(n) = D
  BY <1>3, <1>4
<1> HIDE DEF Set
<1> QED
  BY <1>5, <1>9, <1>10

-----------------------------------------------------------------------------
(* The schedule.                                                           *)

(* Where queue q may go when the threads of L run and those of free are    *)
(* not isolated.                                                           *)
Right(L, free, q, c) ==
  IF Pin[q] \in L THEN c = Pin[q]
  ELSE IF free = {} THEN c = NoCore
  ELSE /\ c \in free
       /\ (\E d \in free : NumaOf[d] = PortNuma[q[1]]) => NumaOf[c] = PortNuma[q[1]]

AllRight(s, L) == \A q \in DOMAIN s.pmd : Right(L, Free(s), q, s.pmd[q])

(* The queues that are still to be placed, each once.                      *)
Rest(s, rest, L, Q) ==
  /\ rest \in Seq(Q)
  /\ \A i \in 1 .. Len(rest) : rest[i] \notin DOMAIN s.pmd /\ Pin[rest[i]] \notin L
  /\ \A i, j \in 1 .. Len(rest) : rest[i] = rest[j] => i = j
  /\ \A q \in Q \ DOMAIN s.pmd : \E i \in 1 .. Len(rest) : rest[i] = q

(* With the group algorithm they come in the order of their cycles, and    *)
(* none has more than one that has been placed.                            *)
Falling(s, rest, L, hist) ==
  /\ \A i, j \in 1 .. Len(rest) : i < j => hist[rest[i]] >= hist[rest[j]]
  /\ \A q \in DOMAIN s.pmd : Pin[q] \notin L =>
       \A i \in 1 .. Len(rest) : hist[q] >= hist[rest[i]]

(* Without any one of the queues it was given a thread has no more cycles  *)
(* than another one of its node.                                           *)
Level(s, L, hist) ==
  \A q \in DOMAIN s.pmd : \A d \in Free(s) :
    Pin[q] \notin L /\ s.pmd[q] # NoCore /\ hist[q] > 0 /\ NumaOf[d] = NumaOf[s.pmd[q]]
      => s.proc_cycles[s.pmd[q]] - hist[q] <= s.proc_cycles[d]

Scheduled(s, rest, L, Q, hist) ==
  /\ s \in ListType(L, Q) /\ Sums(s, hist) /\ AllRight(s, L) /\ Rest(s, rest, L, Q)

(* The head of a sequence, and the rest of it.                             *)
LEMMA HeadTail ==
  ASSUME NEW Q, NEW rest \in Seq(Q), rest # <<>>
  PROVE  /\ Head(rest) = rest[1] /\ 1 \in 1 .. Len(rest) /\ Tail(rest) \in Seq(Q)
         /\ Len(rest) \in Nat /\ Len(Tail(rest)) = Len(rest) - 1
         /\ \A i \in 1 .. Len(rest) - 1 : Tail(rest)[i] = rest[i + 1]
OBVIOUS

(* A round of the second loop keeps the list as it should be.              *)
LEMMA RoundKeeps ==
  ASSUME NEW L \in SUBSET Core, NEW Q, IsFiniteSet(Q), NEW hist, \A p \in Q : hist[p] \in Nat,
         NEW al, NEW s, NEW rest, Scheduled(s, rest, L, Q, hist), rest # <<>>,
         NEW r, r = PlaceOne(s, Head(rest), hist, al)
  PROVE  Scheduled(r, Tail(rest), L, Q, hist)
<1>1. PICK q : q = Head(rest)
  OBVIOUS
<1>2. PICK t : t = Tail(rest)
  OBVIOUS
<1>3. s \in ListType(L, Q) /\ Sums(s, hist) /\ AllRight(s, L) /\ Rest(s, rest, L, Q)
  BY DEF Scheduled
<1>4. /\ q = rest[1] /\ 1 \in 1 .. Len(rest) /\ t \in Seq(Q)
      /\ Len(rest) \in Nat /\ Len(t) = Len(rest) - 1
      /\ \A i \in 1 .. Len(rest) - 1 : t[i] = rest[i + 1]
  BY <1>1, <1>2, <1>3, HeadTail DEF Rest
<1>5. q \in Q /\ q \notin DOMAIN s.pmd /\ Pin[q] \notin L /\ hist[q] \in Nat
  BY <1>3, <1>4 DEF Rest
<1>6. r \in ListType(L, Q) /\ \E c \in L \cup {NoCore} : GoesTo(s, r, q, c, hist, al)
  BY <1>1, <1>3, <1>5, PlaceOneEffect
<1>7. PICK c \in L \cup {NoCore} : GoesTo(s, r, q, c, hist, al)
  BY <1>6
<1>8. /\ r.isolated = s.isolated /\ r.pmd = Given(s.pmd, q, c) /\ Free(r) = Free(s)
      /\ c = NoCore => r.proc_cycles = s.proc_cycles
      /\ c # NoCore => r.proc_cycles = [s.proc_cycles EXCEPT ![c] = @ + hist[q]]
  BY <1>3, <1>6, <1>7 DEF GoesTo, Free, ListType
<1>9. Sums(r, hist)
  <2>1. s \in ListType(L, Q) /\ Sums(s, hist) /\ r \in ListType(L, Q)
    BY <1>3, <1>6
  <2>2. q \in Q /\ q \notin DOMAIN s.pmd
    BY <1>5
  <2>3. Gets(s, r, q, c, hist)
    BY <1>8 DEF Gets
  <2> QED
    BY <2>1, <2>2, <2>3, SumsKept
<1>10. /\ DOMAIN r.pmd = DOMAIN s.pmd \cup {q} /\ r.pmd[q] = c
       /\ \A p \in DOMAIN s.pmd : r.pmd[p] = s.pmd[p]
  BY <1>5, <1>8 DEF Given
<1>11. Right(L, Free(s), q, c)
  <2>1. Free(s) \subseteq L /\ NoCore \notin L
    BY <1>3, CoreAssumption DEF Free, ListType
  <2> QED
    BY <1>5, <1>7, <2>1 DEF Right, GoesTo
<1>12. AllRight(r, L)
  BY <1>3, <1>8, <1>10, <1>11 DEF AllRight
<1>13. Rest(r, t, L, Q)
  <2>1. ASSUME NEW i \in 1 .. Len(t)
        PROVE  /\ i + 1 \in 1 .. Len(rest) /\ t[i] = rest[i + 1]
               /\ t[i] \notin DOMAIN r.pmd /\ Pin[t[i]] \notin L
    <3>1. i + 1 \in 1 .. Len(rest) /\ t[i] = rest[i + 1] /\ i + 1 # 1
      BY <1>4
    <3>2. rest[i + 1] # rest[1]
      BY <1>3, <1>4, <3>1 DEF Rest
    <3> QED
      BY <1>3, <1>4, <1>10, <3>1, <3>2 DEF Rest
  <2>2. ASSUME NEW i \in 1 .. Len(t), NEW j \in 1 .. Len(t), t[i] = t[j]
        PROVE  i = j
    <3>1. i + 1 = j + 1
      BY <1>3, <2>1, <2>2 DEF Rest
    <3> QED
      BY <3>1
  <2>3. ASSUME NEW p \in Q \ DOMAIN r.pmd
        PROVE  \E i \in 1 .. Len(t) : t[i] = p
    <3>1. PICK k \in 1 .. Len(rest) : rest[k] = p
      BY <1>3, <1>10 DEF Rest
    <3>2. k # 1
      BY <1>4, <1>10, <3>1
    <3>3. k - 1 \in 1 .. Len(t) /\ (k - 1) + 1 = k /\ k - 1 \in 1 .. Len(rest) - 1
      BY <1>4, <3>2
    <3>4. t[k - 1] = p
      BY <1>4, <3>1, <3>3
    <3> QED
      BY <3>3, <3>4
  <2> QED
    BY <1>4, <2>1, <2>2, <2>3 DEF Rest
<1> QED
  BY <1>2, <1>6, <1>9, <1>12, <1>13 DEF Scheduled

(* With the group algorithm it keeps the threads level, because the queue  *)
(* placed has no more cycles than those before it.                         *)
LEMMA RoundLevels ==
  ASSUME NEW L \in SUBSET Core, NEW Q, IsFiniteSet(Q), NEW hist, \A p \in Q : hist[p] \in Nat,
         NEW s, NEW rest, Scheduled(s, rest, L, Q, hist), rest # <<>>,
         Falling(s, rest, L, hist), Level(s, L, hist),
         NEW r, r = PlaceOne(s, Head(rest), hist, "group")
  PROVE  Falling(r, Tail(rest), L, hist) /\ Level(r, L, hist)
<1>1. PICK q : q = Head(rest)
  OBVIOUS
<1>2. PICK t : t = Tail(rest)
  OBVIOUS
<1>3. s \in ListType(L, Q) /\ Rest(s, rest, L, Q) /\ rest \in Seq(Q)
  BY DEF Scheduled, Rest
<1>4. /\ q = rest[1] /\ 1 \in 1 .. Len(rest) /\ t \in Seq(Q)
      /\ Len(rest) \in Nat /\ Len(t) = Len(rest) - 1
      /\ \A i \in 1 .. Len(rest) - 1 : t[i] = rest[i + 1]
  BY <1>1, <1>2, <1>3, HeadTail
<1>5. q \in Q /\ q \notin DOMAIN s.pmd /\ Pin[q] \notin L /\ hist[q] \in Nat
  BY <1>3, <1>4 DEF Rest
<1>6. r \in ListType(L, Q) /\ \E c \in L \cup {NoCore} : GoesTo(s, r, q, c, hist, "group")
  BY <1>1, <1>3, <1>5, PlaceOneEffect
<1>7. PICK c \in L \cup {NoCore} : GoesTo(s, r, q, c, hist, "group")
  BY <1>6
<1>8. r.pmd = Given(s.pmd, q, c) /\ Free(r) = Free(s) /\ Free(s) \subseteq L
  BY <1>3, <1>6, <1>7 DEF GoesTo, Free, ListType
<1>9. /\ DOMAIN r.pmd = DOMAIN s.pmd \cup {q} /\ r.pmd[q] = c
      /\ \A p \in DOMAIN s.pmd : r.pmd[p] = s.pmd[p]
  BY <1>5, <1>8 DEF Given
<1>10. \A i \in 1 .. Len(t) : i + 1 \in 1 .. Len(rest) /\ t[i] = rest[i + 1] /\ 1 < i + 1
  BY <1>4
<1>11. Falling(r, t, L, hist)
  <2>1. ASSUME NEW i \in 1 .. Len(t), NEW j \in 1 .. Len(t), i < j
        PROVE  hist[t[i]] >= hist[t[j]]
    <3>1. i + 1 < j + 1
      BY <2>1
    <3> QED
      BY <1>10, <3>1 DEF Falling
  <2>2. ASSUME NEW p \in DOMAIN r.pmd, Pin[p] \notin L, NEW i \in 1 .. Len(t)
        PROVE  hist[p] >= hist[t[i]]
    <3>1. CASE p = q
      BY <1>4, <1>10, <3>1 DEF Falling
    <3>2. CASE p # q
      BY <1>9, <1>10, <2>2, <3>2 DEF Falling
    <3> QED
      BY <3>1, <3>2
  <2> QED
    BY <2>1, <2>2 DEF Falling
<1>12. DOMAIN s.pmd \in SUBSET Q /\ \A p \in DOMAIN s.pmd : s.pmd[p] \in L \cup {NoCore}
  <2>1. c \in L \cup {NoCore} /\ s.pmd \in UNION {[d -> L \cup {NoCore}] : d \in SUBSET Q}
    BY <1>3 DEF ListType
  <2> QED
    BY <1>5, <2>1, PmdTypes
<1>13. s.proc_cycles \in [L -> Nat] /\ NoCore \notin L
  BY <1>3, CoreAssumption DEF ListType
<1>14. CASE c = NoCore
  <2>1. Free(s) = {}
    BY <1>7, <1>14 DEF GoesTo
  <2>2. Level(r, L, hist)
    BY <1>8, <2>1 DEF Level
  <2> QED
    BY <1>2, <1>11, <2>2
<1>15. CASE c # NoCore
  <2>1. c \in L /\ c \in Free(s) /\ r.proc_cycles = [s.proc_cycles EXCEPT ![c] = @ + hist[q]]
    BY <1>7, <1>15 DEF GoesTo
  <2>2. hist[q] > 0 => \A d \in Free(s) : NumaOf[d] = NumaOf[c] =>
                         s.proc_cycles[c] <= s.proc_cycles[d]
    BY <1>7, <1>15 DEF GoesTo
  <2>3. \A d \in L : r.proc_cycles[d] = IF d = c THEN s.proc_cycles[c] + hist[q]
                                        ELSE s.proc_cycles[d]
    BY <1>13, <2>1
  <2>4. PICK P \in [L -> Nat], w \in Nat : P = s.proc_cycles /\ w = hist[q]
    BY <1>5, <1>13
  <2>5. \A d \in L : r.proc_cycles[d] = IF d = c THEN P[c] + w ELSE P[d]
    BY <2>3, <2>4
  <2> SUFFICES ASSUME NEW p \in DOMAIN r.pmd, NEW d \in Free(s), Pin[p] \notin L,
                      r.pmd[p] # NoCore, hist[p] > 0, NumaOf[d] = NumaOf[r.pmd[p]]
               PROVE  r.proc_cycles[r.pmd[p]] - hist[p] <= r.proc_cycles[d]
    BY <1>2, <1>8, <1>11 DEF Level
  <2>6. CASE p = q
    <3>1. P[c] <= P[d] /\ r.pmd[p] = c /\ hist[p] = w /\ d \in L
      BY <1>8, <1>9, <2>2, <2>4, <2>6
    <3>2. r.proc_cycles[c] = P[c] + w
      BY <2>1, <2>5
    <3>3. r.proc_cycles[d] = P[d] \/ (d = c /\ r.proc_cycles[d] = P[c] + w)
      BY <2>5, <3>1
    <3>4. P[c] \in Nat /\ P[d] \in Nat
      BY <2>1, <3>1
    <3> QED
      BY <3>1, <3>2, <3>3, <3>4
  <2>7. CASE p # q
    <3>1. PICK e \in L, v \in Nat : e = s.pmd[p] /\ v = hist[p]
      BY <1>9, <1>12, <2>7
    <3>2. p \in DOMAIN s.pmd /\ r.pmd[p] = e /\ d \in L /\ NumaOf[d] = NumaOf[e] /\ v > 0
      BY <1>8, <1>9, <2>7, <3>1
    <3>3. P[e] - v <= P[d]
      <4>1. s.proc_cycles[s.pmd[p]] - hist[p] <= s.proc_cycles[d]
        BY <1>9, <2>7 DEF Level
      <4> QED
        BY <2>4, <3>1, <4>1
    <3>4. w <= v
      <4>1. hist[p] >= hist[rest[1]]
        BY <1>4, <3>2 DEF Falling
      <4> QED
        BY <1>4, <2>4, <3>1, <4>1
    <3>5. P[e] \in Nat /\ P[d] \in Nat /\ P[c] \in Nat
      BY <2>1, <3>2
    <3>6. r.proc_cycles[e] - v <= r.proc_cycles[d]
      <4>1. CASE e = c
        <5>1. r.proc_cycles[e] = P[e] + w
          BY <2>5, <4>1
        <5>2. r.proc_cycles[d] = P[d] \/ (d = c /\ r.proc_cycles[d] = P[c] + w)
          BY <2>5, <3>2
        <5>3. w > 0 => P[e] <= P[d]
          BY <2>2, <2>4, <3>2, <4>1
        <5>4. CASE w = 0
          BY <3>3, <3>5, <4>1, <5>1, <5>2, <5>4
        <5>5. CASE w > 0
          BY <3>4, <3>5, <4>1, <5>1, <5>2, <5>3, <5>5
        <5> QED
          BY <5>4, <5>5
      <4>2. CASE e # c
        <5>1. r.proc_cycles[e] = P[e]
          BY <2>5, <4>2
        <5>2. r.proc_cycles[d] = P[d] \/ (d = c /\ r.proc_cycles[d] = P[d] + w)
          BY <2>5, <3>2
        <5> QED
          BY <3>3, <3>5, <5>1, <5>2
      <4> QED
        BY <4>1, <4>2
    <3> QED
      BY <3>1, <3>2, <3>6
  <2> QED
    BY <2>6, <2>7
<1> QED
  BY <1>14, <1>15

-----------------------------------------------------------------------------
(* The schedule in the states of the system.                               *)
Later == {"comply", "reload3", "add", "fill", "filltx"}

Scheduling(s, rest, hist) ==
  /\ hist \in [RxqOf(ports) -> Nat]
  /\ Scheduled(s, rest, Live, RxqOf(ports), hist)
  /\ algo = "group" => Falling(s, rest, Live, hist) /\ Level(s, Live, hist)

SchedInv ==
  /\ IsFiniteSet(ports)
  /\ rxq_pmd \in [Rxq -> Core \cup {NoCore}]
  /\ pc = "place" =>
       /\ sched = [list |-> sched.list, cycles |-> sched.cycles, rest |-> sched.rest]
       /\ Scheduling(sched.list, sched.rest, sched.cycles)
  /\ pc \in Later => \A q \in RxqOf(ports) : Right(Live, Live \ isolated, q, rxq_pmd[q])

(* The queues of the ports there are.                                      *)
LEMMA RxqTypes ==
  ASSUME IsFiniteSet(ports), ports \subseteq Port
  PROVE  /\ RxqOf(ports) \in SUBSET (Nat \X Nat) /\ IsFiniteSet(RxqOf(ports))
         /\ RxqOf(ports) \subseteq Rxq
<1>1. RxqOf(ports) \subseteq ports \X (0 .. MaxRxq - 1) /\ RxqOf(ports) \subseteq Rxq
  BY DEF RxqOf, Rxq
<1>2. MaxRxq \in Nat /\ Port \subseteq Nat
  BY ReloadAssumption
<1>3. IsFiniteSet(0 .. MaxRxq - 1)
  <2>1. 0 \in Int /\ MaxRxq - 1 \in Int
    BY <1>2
  <2> QED
    BY <2>1, FS_Interval
<1>4. IsFiniteSet(ports \X (0 .. MaxRxq - 1))
  BY <1>3, FS_Product
<1>5. IsFiniteSet(RxqOf(ports))
  BY <1>1, <1>4, FS_Subset
<1>6. ports \X (0 .. MaxRxq - 1) \subseteq Nat \X Nat
  <2>1. 0 .. MaxRxq - 1 \subseteq Nat /\ ports \subseteq Nat
    BY <1>2
  <2> QED
    BY <2>1
<1> QED
  BY <1>1, <1>5, <1>6

(* The threads of a schedule run on cores.                                 *)
LEMMA LiveTypes ==
  ASSUME Typed
  PROVE  Live \in SUBSET Core
BY DEF Typed, Live, Thread

(* The first loop of the schedule.                                         *)
LEMMA PinnedSchedule ==
  ASSUME Typed, SchedInv, SchedulePinned
  PROVE  SchedInv'
<1> DEFINE L == Live
           Q == RxqOf(ports)
<1>1. L \in SUBSET Core /\ Q \in SUBSET (Nat \X Nat) /\ IsFiniteSet(Q)
  BY LiveTypes, RxqTypes DEF SchedInv, Typed
<1>2. PICK h :
        /\ h \in [Q -> 0 .. Max(Range(MaxCycles))]
        /\ sched' = [list |-> PlacePinned(Populate(L), Pinned(L, DOMAIN h), h, iso), cycles |-> h,
                     rest |-> Sorted(DOMAIN h \ Pinned(L, DOMAIN h), h, algo)]
  BY DEF SchedulePinned
<1>3. /\ pc' = "place" /\ rxq_pmd' = rxq_pmd /\ ports' = ports /\ n_rxq' = n_rxq
      /\ threads' = threads /\ algo' = algo /\ isolated' = isolated
  BY DEF SchedulePinned, ScheduleStep, confVars, portVars
<1>4. h \in [Q -> Nat] /\ DOMAIN h = Q /\ \A q \in Q : h[q] \in Nat
  BY <1>2
<1> DEFINE D == Pinned(L, Q)
<1>5. D \in SUBSET Q /\ (\A q \in D : Pin[q] \in L) /\ (\A q \in Q \ D : Pin[q] \notin L)
  BY DEF Pinned
<1>6. PICK s, rest : s = sched'.list /\ rest = sched'.rest
  OBVIOUS
<1>7. /\ s = PlacePinned(Populate(L), D, h, iso) /\ rest = Sorted(Q \ D, h, algo)
      /\ sched' = [list |-> s, cycles |-> h, rest |-> rest]
  BY <1>2, <1>4, <1>6
<1> HIDE DEF L, Q, D
<1>8. PinnedTo(s, L, Q, h, D)
  BY <1>1, <1>4, <1>5, <1>7, PlacePinnedIs
<1>9. /\ rest \in Seq(Q \ D)
      /\ \A x \in Q \ D : \E i \in 1 .. Len(rest) : rest[i] = x
      /\ \A i, j \in 1 .. Len(rest) : rest[i] = rest[j] => i = j
      /\ algo # "roundrobin" => \A i, j \in 1 .. Len(rest) : i < j => h[rest[i]] >= h[rest[j]]
  <2>1. PICK R : R = Q \ D
    OBVIOUS
  <2>2. R \in SUBSET (Nat \X Nat) /\ IsFiniteSet(R) /\ \A q \in R : h[q] \in Nat
    BY <1>1, <1>4, <2>1, FS_Subset
  <2>3. PICK how : how = algo
    OBVIOUS
  <2>4. rest = Sorted(R, h, how)
    BY <1>7, <2>1, <2>3
  <2>5. /\ rest \in Seq(R)
        /\ \A x \in R : \E i \in 1 .. Len(rest) : rest[i] = x
        /\ \A i, j \in 1 .. Len(rest) : rest[i] = rest[j] => i = j
        /\ Descends(rest, h, how)
    <3>1. Arranged(rest, R, h, how)
      BY <2>2, <2>4, SortedIs, Zenon
    <3> QED
      BY <3>1 DEF Arranged
  <2> QED
    BY <2>1, <2>3, <2>5 DEF Descends
<1>10. \A i \in 1 .. Len(rest) : rest[i] \in Q \ D
  BY <1>9
<1>11. /\ s \in ListType(L, Q) /\ DOMAIN s.pmd = D /\ Sums(s, h)
       /\ \A q \in D : s.pmd[q] = Pin[q]
  BY <1>8 DEF PinnedTo
<1>12. AllRight(s, L)
  BY <1>5, <1>11 DEF AllRight, Right
<1>13. Rest(s, rest, L, Q)
  <2>1. rest \in Seq(Q)
    BY <1>9, <1>10
  <2> QED
    BY <1>5, <1>9, <1>10, <1>11, <2>1 DEF Rest
<1>14. algo = "group" => Falling(s, rest, L, h) /\ Level(s, L, h)
  BY <1>5, <1>9, <1>11 DEF Falling, Level
<1>15. Scheduled(s, rest, L, Q, h)
  BY <1>11, <1>12, <1>13 DEF Scheduled
<1>16. Live' = L /\ RxqOf(ports)' = Q
  BY <1>3 DEF L, Q, Live, RxqOf
<1>17. Scheduling(s, rest, h)'
  BY <1>3, <1>4, <1>14, <1>15, <1>16 DEF Scheduling
<1> QED
  BY <1>3, <1>7, <1>17 DEF SchedInv, Later

(* A round of the second loop.                                             *)
LEMMA NextScheduled ==
  ASSUME Typed, SchedInv, ScheduleNext
  PROVE  SchedInv'
<1> DEFINE L == Live
           Q == RxqOf(ports)
<1>1. L \in SUBSET Core /\ Q \in SUBSET (Nat \X Nat) /\ IsFiniteSet(Q)
  BY LiveTypes, RxqTypes DEF SchedInv, Typed
<1>2. /\ pc = "place" /\ pc' = "place" /\ rxq_pmd' = rxq_pmd /\ ports' = ports /\ n_rxq' = n_rxq
      /\ threads' = threads /\ algo' = algo /\ isolated' = isolated /\ sched.rest # <<>>
      /\ sched' = [sched EXCEPT
                     !.list = PlaceOne(sched.list, Head(sched.rest), sched.cycles, algo),
                     !.rest = Tail(@)]
  BY DEF ScheduleNext, ScheduleStep, confVars, portVars
<1>3. PICK s, rest, h : s = sched.list /\ rest = sched.rest /\ h = sched.cycles
  OBVIOUS
<1>4. PICK r, t : r = PlaceOne(s, Head(rest), h, algo) /\ t = Tail(rest)
  OBVIOUS
<1>5. sched = [list |-> s, cycles |-> h, rest |-> rest] /\ Scheduling(s, rest, h) /\ rest # <<>>
  BY <1>2, <1>3 DEF SchedInv
<1>6. sched' = [list |-> r, cycles |-> h, rest |-> t]
  BY <1>2, <1>3, <1>4, <1>5
<1>7. /\ h \in [Q -> Nat] /\ Scheduled(s, rest, L, Q, h)
      /\ algo = "group" => Falling(s, rest, L, h) /\ Level(s, L, h)
  BY <1>5 DEF Scheduling
<1>8. Live' = L /\ RxqOf(ports)' = Q
  BY <1>2 DEF Live, RxqOf
<1> HIDE DEF L, Q
<1>9. \A q \in Q : h[q] \in Nat
  BY <1>7
<1>10. Scheduled(r, t, L, Q, h)
  BY <1>1, <1>4, <1>5, <1>7, <1>9, RoundKeeps
<1>11. ASSUME algo = "group"
       PROVE  Falling(r, t, L, h) /\ Level(r, L, h)
  <2>1. r = PlaceOne(s, Head(rest), h, "group")
    BY <1>4, <1>11
  <2>2. Falling(s, rest, L, h) /\ Level(s, L, h)
    BY <1>7, <1>11
  <2> QED
    BY <1>1, <1>4, <1>5, <1>7, <1>9, <2>1, <2>2, RoundLevels
<1>12. Scheduling(r, t, h)'
  BY <1>2, <1>7, <1>8, <1>10, <1>11 DEF Scheduling
<1>13. sched'.list = r /\ sched'.rest = t /\ sched'.cycles = h
  BY <1>6
<1>14. /\ sched' = [list |-> sched'.list, cycles |-> sched'.cycles, rest |-> sched'.rest]
       /\ Scheduling(sched.list, sched.rest, sched.cycles)'
  BY <1>6, <1>12, <1>13 DEF Scheduling
<1> QED
  BY <1>2, <1>14 DEF SchedInv, Later

(* The schedule is put in place when every queue has been placed.          *)
LEMMA PutScheduled ==
  ASSUME Typed, SchedInv, PutInPlace
  PROVE  SchedInv'
<1> DEFINE L == Live
           Q == RxqOf(ports)
<1>0. Q \subseteq Rxq
  BY RxqTypes DEF SchedInv, Typed
<1>1. /\ pc = "place" /\ pc' = "comply" /\ ports' = ports /\ n_rxq' = n_rxq
      /\ threads' = threads /\ isolated' = sched.list.isolated /\ sched.rest = <<>>
      /\ rxq_pmd' = [q \in Rxq |-> IF q \in DOMAIN sched.list.pmd THEN sched.list.pmd[q] ELSE NoCore]
  BY DEF PutInPlace, ScheduleStep, confVars, portVars
<1>2. PICK s, rest, h : s = sched.list /\ rest = sched.rest /\ h = sched.cycles
  OBVIOUS
<1>3. Scheduled(s, rest, L, Q, h) /\ rest = <<>>
  BY <1>1, <1>2 DEF SchedInv, Scheduling
<1>4. Live' = L /\ RxqOf(ports)' = Q /\ L \in SUBSET Core
  BY <1>1, LiveTypes DEF Live, RxqOf
<1> HIDE DEF L, Q
<1>5. s \in ListType(L, Q) /\ AllRight(s, L) /\ Rest(s, rest, L, Q)
  BY <1>3 DEF Scheduled
<1>6. DOMAIN s.pmd \in SUBSET Q /\ \A q \in DOMAIN s.pmd : s.pmd[q] \in L \cup {NoCore}
  <2>1. s.pmd \in UNION {[d -> L \cup {NoCore}] : d \in SUBSET Q}
    BY <1>5 DEF ListType
  <2> QED
    BY <2>1
<1>7. Q \subseteq DOMAIN s.pmd
  <2>1. Len(rest) = 0
    BY <1>3
  <2> QED
    BY <1>5, <2>1 DEF Rest
<1>8. rxq_pmd' \in [Rxq -> Core \cup {NoCore}]
  BY <1>1, <1>2, <1>4, <1>6
<1>9. \A q \in Q : rxq_pmd'[q] = s.pmd[q]
  BY <1>0, <1>1, <1>2, <1>7
<1>10. Free(s) = L \ isolated'
  BY <1>1, <1>2, <1>5 DEF Free, ListType
<1>11. \A q \in Q : Right(L, L \ isolated', q, rxq_pmd'[q])
  BY <1>5, <1>7, <1>9, <1>10 DEF AllRight
<1> QED
  BY <1>1, <1>4, <1>8, <1>11 DEF SchedInv, Later

(* The other steps: they either leave the schedule and all it was made     *)
(* from, or lead to where there is none.                                   *)
SameSchedule ==
  /\ UNCHANGED <<rxq_pmd, sched, isolated, algo, threads, ports, n_rxq>>
  /\ pc' = "place" => pc = "place"
  /\ pc' \in Later => pc \in Later
NoSchedule ==
  /\ rxq_pmd' = rxq_pmd /\ pc' # "place" /\ pc' \notin Later
  /\ ports' \subseteq ports \/ \E p \in Port : ports' = ports \cup {p}

(* What a step is to the schedule.                                         *)
LEMMA ScheduleCases ==
  ASSUME Next
  PROVE  SameSchedule \/ NoSchedule \/ SchedulePinned \/ ScheduleNext \/ PutInPlace
<1>1. ASSUME SetCmask \/ (\E p \in Port : RequestReconf(p)) \/ Run
      PROVE  SameSchedule
  BY <1>1 DEF SetCmask, RequestReconf, Request, Run, mainVars, confVars, portVars, schedVars,
              SameSchedule, Later
<1>2. ASSUME NEW p \in Port, AddPort(p) \/ DelPort(p) \/ Reconfigure(p)
      PROVE  NoSchedule
  BY <1>2 DEF AddPort, DelPort, Reconfigure, schedVars, NoSchedule, Later
<1>3. ASSUME NEW t \in Thread, BumpSeq(t) \/ Fill(t)
      PROVE  SameSchedule
  BY <1>3 DEF BumpSeq, Fill, confVars, portVars, schedVars, SameSchedule
<1>4. ASSUME StoreReload \/ ReloadNonPmd
      PROVE  SameSchedule
  BY <1>4 DEF StoreReload, ReloadNonPmd, confVars, portVars, schedVars, SameSchedule
<1>5. ASSUME \/ Await("reload1", "create") \/ Await("reload2", "ports")
             \/ Await("reload3", "add") \/ Await("reload4", "finish")
      PROVE  SameSchedule
  BY <1>5 DEF Await, confVars, portVars, schedVars, SameSchedule, Later
<1>6. ASSUME CheckThreads \/ DeleteDone \/ RemoveStale \/ ReconfigureDone
      PROVE  SameSchedule
  BY <1>6 DEF CheckThreads, DeleteDone, RemoveStale, ReconfigureDone, confVars, portVars, schedVars,
              SameSchedule, Later
<1>7. ASSUME Comply \/ FillStart \/ FillTxStart \/ FillDone
      PROVE  SameSchedule
  BY <1>7 DEF Comply, FillStart, FillTxStart, FillDone, confVars, portVars, schedVars, SameSchedule, Later
<1>8. ASSUME CreatePmds \/ Finish
      PROVE  NoSchedule
  BY <1>8 DEF CreatePmds, Finish, confVars, portVars, schedVars, NoSchedule, Later
<1>9. ASSUME NEW t \in Core, DelPmd(t) \/ JoinPmd(t)
      PROVE  NoSchedule
  BY <1>9 DEF DelPmd, JoinPmd, confVars, portVars, schedVars, NoSchedule, Later
<1>10. ASSUME NEW t \in Thread,
              PmdStep(t) \/ \E p \in Port : TakeTxq(t, p) \/ GiveBackTxq(t, p)
       PROVE  SameSchedule
  <2>1. ByThread
    BY <1>10 DEF PmdStep, Start, FirstQid, WakeUp, Load, Acknowledge, FreeOldQid, AllocQid, Exit,
                 TakeTxq, GiveBackTxq
  <2> QED
    BY <2>1 DEF ByThread, mainVars, confVars, portVars, schedVars, SameSchedule
<1> QED
  BY <1>1, <1>2, <1>3, <1>4, <1>5, <1>6, <1>7, <1>8, <1>9, <1>10
     DEF Next, Requests, MainStep, Reloading, Steps

(* A step that touches neither the schedule nor what it is made of.        *)
LEMMA SameKeeps ==
  ASSUME SchedInv, SameSchedule
  PROVE  SchedInv'
<1>1. Live' = Live /\ RxqOf(ports)' = RxqOf(ports)
  BY DEF SameSchedule, Live, RxqOf
<1>2. Scheduling(sched.list, sched.rest, sched.cycles)
        => Scheduling(sched.list, sched.rest, sched.cycles)'
  BY <1>1 DEF SameSchedule, Scheduling
<1> QED
  BY <1>1, <1>2 DEF SchedInv, SameSchedule

(* A step to or from a place where no schedule is being made.              *)
LEMMA NoneKeeps ==
  ASSUME SchedInv, NoSchedule
  PROVE  SchedInv'
<1>1. IsFiniteSet(ports')
  <2>1. ASSUME NEW p \in Port, ports' = ports \cup {p}
        PROVE  IsFiniteSet(ports')
    BY <2>1, FS_AddElement DEF SchedInv
  <2> QED
    BY <2>1, FS_Subset DEF SchedInv, NoSchedule
<1> QED
  BY <1>1 DEF SchedInv, NoSchedule

(* It holds in every state.                                                *)
THEOREM SchedInvariance == Spec => []SchedInv
<1>1. Init => SchedInv
  BY FS_EmptySet DEF Init, SchedInv, Later
<1>2. ASSUME Inv, SchedInv, Next
      PROVE  SchedInv'
  BY <1>2, ScheduleCases, PinnedSchedule, NextScheduled, PutScheduled, SameKeeps, NoneKeeps DEF Inv
<1>3. ASSUME SchedInv, UNCHANGED vars
      PROVE  SchedInv'
  BY <1>3, SameKeeps DEF vars, mainVars, confVars, portVars, schedVars, SameSchedule
<1>4. Inv /\ SchedInv /\ [Next]_vars => SchedInv'
  BY <1>2, <1>3
<1> QED
  BY <1>1, <1>4, Invariance, PTL DEF Spec

(* Every queue is where the schedule should have it: on the thread it is   *)
(* pinned to, on a thread of its node that is not isolated, or on any such *)
(* (sched_numa_list_schedule).                                             *)
THEOREM Sound == Spec => []ScheduleSound
<1>1. SchedInv => ScheduleSound
  BY DEF SchedInv, Later, Right, ScheduleSound
<1> QED
  BY <1>1, SchedInvariance, PTL

(* The group algorithm keeps the threads of a node level: without any one  *)
(* of the queues it was given, a thread has no more cycles than another    *)
(* (sched_pmd_get_lowest, compare_rxq_cycles).                             *)
THEOREM Balanced == Spec => []GroupBalanced
<1>1. ASSUME Typed, SchedInv, pc = "place", algo = "group"
      PROVE  GroupBalanced
  <2> DEFINE L == Live
             Q == RxqOf(ports)
  <2>1. IsFiniteSet(Q)
    BY <1>1, RxqTypes DEF SchedInv, Typed
  <2>2. PICK s, h : s = sched.list /\ h = sched.cycles
    OBVIOUS
  <2>3. /\ h \in [Q -> Nat] /\ s \in ListType(L, Q) /\ Sums(s, h) /\ Level(s, L, h)
    BY <1>1, <2>2 DEF SchedInv, Scheduling, Scheduled
  <2>4. DOMAIN s.pmd \in SUBSET Q /\ s.live = L
        /\ \A q \in DOMAIN s.pmd : s.pmd[q] \in L \cup {NoCore}
    <3>1. s.pmd \in UNION {[d -> L \cup {NoCore}] : d \in SUBSET Q} /\ s.live = L
      BY <2>3 DEF ListType
    <3> QED
      BY <3>1
  <2>5. ASSUME NEW c \in L
        PROVE  LoadOn(c) = s.proc_cycles[c]
    <3>1. PICK D : D = QueuesOf(s.pmd, c)
      OBVIOUS
    <3>2. IsFiniteSet(D) /\ \A x \in D : h[x] \in Nat
      <4>1. D \in SUBSET Q
        BY <2>4, <3>1 DEF QueuesOf
      <4> QED
        BY <2>1, <2>3, <4>1, FS_Subset
    <3>3. MapThenSumSet(LAMBDA x : h[x], D) = Cardinality(Tally(h, D))
      BY <3>2, FoldTallies
    <3>4. LoadOn(c) = Cardinality(Tally(h, D))
      BY <2>2, <3>1, <3>3 DEF LoadOn, QueuesOf, MapThenSumSet, MapThenFoldSet
    <3> QED
      BY <2>3, <2>4, <3>1, <3>4 DEF Sums, Cycles
  <2> SUFFICES ASSUME NEW q \in DOMAIN s.pmd \ Pinned(L, Q), NEW d \in L \ s.isolated,
                      s.pmd[q] # NoCore, h[q] > 0, NumaOf[d] = NumaOf[s.pmd[q]]
               PROVE  LoadOn(s.pmd[q]) - h[q] <= LoadOn(d)
    BY <2>2 DEF GroupBalanced
  <2>6. Pin[q] \notin L /\ d \in Free(s) /\ s.pmd[q] \in L
    BY <2>4 DEF Pinned, Free
  <2>7. s.proc_cycles[s.pmd[q]] - h[q] <= s.proc_cycles[d]
    BY <2>3, <2>6 DEF Level
  <2> QED
    BY <2>5, <2>6, <2>7
<1>2. Inv /\ SchedInv => GroupBalanced
  BY <1>1 DEF Inv, GroupBalanced
<1> QED
  BY <1>2, Invariance, SchedInvariance, PTL
====
