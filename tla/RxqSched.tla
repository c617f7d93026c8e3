------------------------------ MODULE RxqSched ------------------------------
(***************************************************************************)
(* Which PMD thread polls which rx queue: rxq_scheduling of dpif-netdev.c, *)
(* as operators on a record s that stands for struct sched_numa_list.  A   *)
(* PMD thread is named by its core, a queue is a pair <<port, number>>.    *)
(***************************************************************************)
EXTENDS Integers, FiniteSets, SequencesExt, FiniteSetsExt

CONSTANTS
  Core,         \* cores PMD threads may run on, numbers
  NoCore,       \* OVS_CORE_UNSPEC, and no PMD thread
  NumaOf,       \* NUMA node of a core, a number
  PortNuma,     \* NUMA node of a port
  Pin           \* rxq affinity: the core a queue is pinned to, or NoCore

ASSUME CoreAssumption == Core \subseteq Nat /\ IsFiniteSet(Core) /\ NoCore \notin Core
ASSUME NumaAssumption ==      \* NoCore stands for no node, too
  \A c \in Core : NumaOf[c] \in Nat /\ NumaOf[c] # NoCore

Algos == {"roundrobin", "cycles", "group"}
Numas == {NumaOf[c] : c \in Core}

(* The members of S in the order of before: SetToSortSeq of the library,   *)
(* without SortSeq, which proofs cannot expand.                            *)
InOrder(S, before(_, _)) ==
  CHOOSE s \in [1 .. Cardinality(S) -> S] :
    \A i, j \in 1 .. Cardinality(S) : i < j => before(s[i], s[j])
Ascending(S) == InOrder(S, <)

(* sched_numa_list_populate.  at stands for rr_cur_index and rr_idx_inc:   *)
(* it counts along the array and, when the walk goes up and down, back     *)
(* again.  last is last_cross_numa.                                        *)
Populate(live) ==
  [live |-> live, isolated |-> {},
   pmds |-> [n \in Numas |-> Ascending({c \in live : NumaOf[c] = n})],
   numas |-> Ascending({NumaOf[c] : c \in live}),
   n_rxq |-> [c \in live |-> 0], proc_cycles |-> [c \in live |-> 0],
   at |-> [n \in Numas |-> 0], last |-> NoCore, pmd |-> <<>>]

(* The queues with q given to c.                                           *)
Given(pmd, q, c) == [p \in DOMAIN pmd \cup {q} |-> IF p = q THEN c ELSE pmd[p]]

(* sched_pmd_add_rxq.                                                      *)
AddRxq(s, c, q, cycles) ==
  [s EXCEPT !.n_rxq[c] = @ + 1, !.proc_cycles[c] = @ + cycles,
            !.pmd = Given(@, q, c)]

NonIso(s, n) == {c \in s.live \ s.isolated : NumaOf[c] = n}

(* sched_pmd_get_lowest: the first of the least loaded.                    *)
Lowest(s, n, hasCycles) ==
  LET load(c) == IF hasCycles THEN s.proc_cycles[c] ELSE s.n_rxq[c]
  IN  CHOOSE c \in NonIso(s, n) :
        \A d \in NonIso(s, n) : load(c) <= load(d) /\ (d < c => load(c) < load(d))

(* sched_pmd_next_rr: the walk of node n is a circle of this many places   *)
(* (1,2,3,1,2,3 or, with updown, 1,2,3,3,2,1,1,2), and place i of it is    *)
(* this core.                                                              *)
Circle(s, n, updown) == (IF updown THEN 2 ELSE 1) * Len(s.pmds[n])
CoreAt(s, n, i) ==
  s.pmds[n][IF i < Len(s.pmds[n]) THEN i + 1 ELSE 2 * Len(s.pmds[n]) - i]

(* Mutant: only n_pmds calls, which up and down need not show all.         *)
ShownOnce(s, n, updown) ==
  {k \in 0 .. Len(s.pmds[n]) - 1 :
     CoreAt(s, n, (s.at[n] + k) % Circle(s, n, updown)) \notin s.isolated}

(* The places of the next 2 * n_pmds calls that show a thread which is not *)
(* isolated, counted from the present one.                                 *)
Shown(s, n, updown) ==
  {k \in 0 .. 2 * Len(s.pmds[n]) - 1 :
     CoreAt(s, n, (s.at[n] + k) % Circle(s, n, updown)) \notin s.isolated}

(* sched_pmd_next_noniso_rr: the first of them, NoCore when there is none, *)
(* and where the walk is then.                                             *)
RrCore(s, n, updown) ==
  IF Shown(s, n, updown) = {} THEN NoCore
  ELSE CoreAt(s, n, (s.at[n] + Min(Shown(s, n, updown))) % Circle(s, n, updown))
RrAt(s, n, updown) ==
  IF Shown(s, n, updown) = {} THEN s.at[n]
  ELSE (s.at[n] + Min(Shown(s, n, updown)) + 1) % Circle(s, n, updown)

(* sched_pmd_next.                                                         *)
NextPmd(s, n, algo, hasCycles) ==
  IF algo = "group" THEN Lowest(s, n, hasCycles) ELSE RrCore(s, n, algo = "cycles")

(* The node for a queue of node n: n itself, or the next one after last,   *)
(* around the list of nodes with threads, that has one which is not        *)
(* isolated.                                                               *)
PickNuma(s, n) ==
  LET node(k) == s.numas[((SelectInSeq(s.numas, LAMBDA m : m = s.last) + k)
                            % Len(s.numas)) + 1]
      hits == {k \in 0 .. Len(s.numas) - 1 : NonIso(s, node(k)) # {}}
  IN  IF NonIso(s, n) # {} THEN n ELSE IF hits = {} THEN NoCore ELSE node(Min(hits))

(* Mutant: the queues that are not pinned keep the order of the ports.     *)
SortedUnsorted(qs, hist, algo) ==
  InOrder(qs, LAMBDA a, b : a[1] < b[1] \/ (a[1] = b[1] /\ a[2] < b[2]))

(* compare_rxq_cycles: most cycles first, then port and queue number;      *)
(* round robin takes the order of the ports.                               *)
Sorted(qs, hist, algo) ==
  LET before(a, b) == a[1] < b[1] \/ (a[1] = b[1] /\ a[2] < b[2])
  IN  InOrder(qs, LAMBDA a, b :
        IF algo # "roundrobin" /\ hist[a] # hist[b] THEN hist[a] > hist[b]
        ELSE before(a, b))

(* The first loop of sched_numa_list_schedule: pinned queues whose core    *)
(* has a thread go there, and with iso isolate it.                         *)
Pinned(live, qs) == {q \in qs : Pin[q] \in live}

PlacePinned(s, qs, hist, iso) ==
  FoldLeft(LAMBDA r, q :
             AddRxq([r EXCEPT !.isolated = @ \cup IF iso THEN {Pin[q]} ELSE {}],
                    Pin[q], q, hist[q]),
           s, Sorted(qs, hist, "roundrobin"))

(* Its second loop, one queue.                                             *)
PlaceOne(s, q, hist, algo) ==
  LET n == PickNuma(s, PortNuma[q[1]])
      c == IF n = NoCore THEN NoCore ELSE NextPmd(s, n, algo, hist[q] > 0)
      walked == [s EXCEPT !.last = IF n = PortNuma[q[1]] THEN @ ELSE n,
                          !.at = IF n = NoCore \/ algo = "group" THEN @
                                 ELSE [@ EXCEPT ![n] = RrAt(s, n, algo = "cycles")]]
  IN  IF c = NoCore THEN [walked EXCEPT !.pmd = Given(@, q, NoCore)]
      ELSE AddRxq(walked, c, q, hist[q])
=============================================================================
