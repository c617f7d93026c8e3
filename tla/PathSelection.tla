--------------------------- MODULE PathSelection ---------------------------
(***************************************************************************)
(* Periodic probing of all paths and the choice of the best one: the loop  *)
(* of lcore_probe on the sender, the network, and the PROBE handler of     *)
(* lcore_stats on the receiver with the scan of get_min_delay_path_id, one *)
(* iteration per step.                                                     *)
(*                                                                         *)
(* A probe carries the sender's clock at encoding.  The receiver reads its *)
(* own clock when its worker handles the probe, so "in flight" covers the  *)
(* sender's out ring, the wire and the receiver's in ring.  Only the       *)
(* difference of the two readings matters: a probe carries its age, and    *)
(* Skew is the receiver's clock minus the sender's.                        *)
(***************************************************************************)
EXTENDS PathDelay, FiniteSets

CONSTANTS
  Skew,       \* receiver clock - sender clock
  MayFail,    \* the paths that may go down for good
  Prompt,     \* the worker handles a probe within the tick it arrives in
  MaxAge,     \* bound: ticks a probe may stay in flight
  MaxFlight,  \* bound: probes in flight
  MaxChanges  \* bound: how often the latency of a path changes

ASSUME PathSelectionAssumption ==
  /\ Skew \in Int /\ Prompt \in BOOLEAN
  /\ MaxAge \in Nat /\ MaxFlight \in Nat /\ MaxChanges \in Nat
  /\ MayFail \subseteq Paths

VARIABLES
  flight,       \* probes between their encoding and the PROBE handler
  lat,          \* latency of each path now
  up,           \* the paths that still carry probes
  changes,      \* how often a latency has changed
  delays,       \* all_paths_delay_list
  opt_path_id,
  pc,           \* of the receiver's worker: "idle" or "scan"
  i,            \* loop index of get_min_delay_path_id
  path_id,      \* its candidate
  diff,         \* ghost: latest signed clock difference of each path
  fresh         \* ghost: paths measured at least once

netVars == <<lat, up, changes>>
scanVars == <<pc, i, path_id>>
tableVars == <<delays, diff, fresh>>
vars == <<flight, netVars, tableVars, opt_path_id, scanVars>>

Ports == {ProbePort(p + 1) : p \in Paths}
Probe == [port : Ports, age : 0 .. MaxAge]

-----------------------------------------------------------------------------
(* The sender: one round of lcore_probe, which calls encode_probe_pkt with *)
(* 1 .. PATH_NB, enqueues the burst and sleeps, for a tick at least.       *)
SendProbes ==
  /\ \A m \in flight : m.age > 0
  /\ Cardinality(flight) + PATH_NB <= MaxFlight
  /\ flight' = flight \cup
       {[port |-> ProbePort(p + 1), age |-> 0] : p \in up}
  /\ UNCHANGED <<netVars, tableVars, opt_path_id, scanVars>>

-----------------------------------------------------------------------------
(* Time and the network.                                                   *)

Due(m) == m.age >= lat[PathOfPort(m.port)]

Older(m) == [m EXCEPT !.age = @ + 1]

(* What has been in flight for MaxAge ticks is lost.                       *)
Tick ==
  /\ Prompt => pc = "idle" /\ \A m \in flight : ~ Due(m)
  /\ flight # {}
  /\ flight' = {Older(m) : m \in {n \in flight : n.age < MaxAge}}
  /\ UNCHANGED <<netVars, tableVars, opt_path_id, scanVars>>

(* A lost probe is taken away when the worker would have found it.         *)
Lose(m) ==
  /\ pc = "idle" /\ Due(m)
  /\ flight' = flight \ {m}
  /\ UNCHANGED <<netVars, tableVars, opt_path_id, scanVars>>

LatencyChanges(p, a) ==
  /\ changes < MaxChanges
  /\ a # lat[p]
  /\ lat' = [lat EXCEPT ![p] = a]
  /\ changes' = changes + 1
  /\ UNCHANGED <<flight, up, tableVars, opt_path_id, scanVars>>

(* A path goes down: everything on it is lost, now and later.              *)
PathFails(p) ==
  /\ p \in MayFail \cap up
  /\ up' = up \ {p}
  /\ flight' = {m \in flight : PathOfPort(m.port) # p}
  /\ UNCHANGED <<lat, changes, tableVars, opt_path_id, scanVars>>

-----------------------------------------------------------------------------
(* The receiver's worker.                                                  *)

(* The initial value of the global all_paths_delay_list.                   *)
InitTable ==
  delays = [p \in Paths |-> UNMEASURED]

(* The body of hopa_cp_probe_pkt_progress up to the call of                *)
(* get_min_delay_path_id.                                                  *)
(* Mutant: an entry only ever improves.                                    *)
StoreDelayIfLess(m) ==
  LET p == PathOfPort(m.port)
      d == m.age + Skew
  IN  /\ pc = "idle"
      /\ Due(m)
      /\ flight' = flight \ {m}
      /\ delays' = [delays EXCEPT ![p] = IF DelayOf(d) < @ THEN DelayOf(d) ELSE @]
      /\ diff' = [diff EXCEPT ![p] = d]
      /\ fresh' = fresh \cup {p}
      /\ pc' = "scan" /\ i' = 1 /\ path_id' = 0
      /\ UNCHANGED <<netVars, opt_path_id>>

StoreDelay(m) ==
  LET p == PathOfPort(m.port)
      d == m.age + Skew
  IN  /\ pc = "idle"
      /\ Due(m)
      /\ flight' = flight \ {m}
      /\ delays' = [delays EXCEPT ![p] = DelayOf(d)]
      /\ diff' = [diff EXCEPT ![p] = d]
      /\ fresh' = fresh \cup {p}
      /\ pc' = "scan" /\ i' = 1 /\ path_id' = 0
      /\ UNCHANGED <<netVars, opt_path_id>>

(* One iteration of the loop of get_min_delay_path_id.                     *)
ScanStep ==
  /\ pc = "scan"
  /\ i < PATH_NB
  /\ path_id' = IF delays[i] < delays[path_id] THEN i ELSE path_id
  /\ i' = i + 1
  /\ UNCHANGED <<flight, netVars, opt_path_id, tableVars, pc>>

(* It returns, and its result is stored.                                   *)
(* Mutant: the loop may end one short of length.                           *)
ScanDoneEarly ==
  /\ pc = "scan"
  /\ i >= PATH_NB - 1
  /\ opt_path_id' = path_id
  /\ pc' = "idle" /\ i' = 1 /\ path_id' = 0
  /\ UNCHANGED <<flight, netVars, tableVars>>

ScanDone ==
  /\ pc = "scan"
  /\ i = PATH_NB
  /\ opt_path_id' = path_id
  /\ pc' = "idle" /\ i' = 1 /\ path_id' = 0
  /\ UNCHANGED <<flight, netVars, tableVars>>

Init ==
  /\ flight = {}
  /\ lat \in [Paths -> 0 .. MaxAge]
  /\ up = Paths
  /\ changes = 0
  /\ InitTable
  /\ opt_path_id = 0
  /\ pc = "idle" /\ i = 1 /\ path_id = 0
  /\ diff = [p \in Paths |-> 0]
  /\ fresh = {}

Next ==
  \/ SendProbes
  \/ Tick
  \/ \E m \in flight : Lose(m)
  \/ \E p \in Paths, a \in 0 .. MaxAge : LatencyChanges(p, a)
  \/ \E p \in Paths : PathFails(p)
  \/ \E m \in flight : StoreDelay(m)
  \/ ScanStep
  \/ ScanDone

Spec == Init /\ [][Next]_vars

(* Both threads are polling loops that never block, time passes, and a     *)
(* path that is up does not lose every probe.                              *)
StoreDelayOf(p) == \E m \in flight : PathOfPort(m.port) = p /\ StoreDelay(m)

Fairness ==
  /\ WF_vars(SendProbes) /\ WF_vars(Tick)
  /\ WF_vars(ScanStep) /\ WF_vars(ScanDone)
  /\ \A p \in Paths : SF_vars(StoreDelayOf(p))

FairSpec == Spec /\ Fairness

-----------------------------------------------------------------------------
(* Types and ranges.                                                       *)
TypeOK ==
  /\ flight \subseteq Probe
  /\ lat \in [Paths -> 0 .. MaxAge]
  /\ up \subseteq Paths
  /\ changes \in 0 .. MaxChanges
  /\ delays \in [Paths -> Delays]
  /\ opt_path_id \in Paths
  /\ pc \in {"idle", "scan"}
  /\ i \in 1 .. PATH_NB
  /\ path_id \in Paths
  /\ diff \in [Paths -> Int]
  /\ fresh \subseteq Paths

(* The loop invariant of get_min_delay_path_id: the candidate is the first *)
(* least entry of those already looked at (lines 377-383).                 *)
ScanInv ==
  pc = "scan" =>
    /\ path_id < i
    /\ \A q \in 0 .. (i - 1) :
         delays[path_id] <= delays[q] /\ (q < path_id => delays[path_id] < delays[q])

(* Whenever no scan is running, opt_path_id is the first least entry of    *)
(* the table as it is then, whatever order the probes arrived in: line 311 *)
(* leaves no window in which the two disagree between handlers.            *)
OptIsFirstMin == pc = "idle" => IsFirstMin(delays, opt_path_id)

(* The table says what the clocks said: entry and signed difference agree  *)
(* for a measured path, and a path never measured has the initial entry.   *)
TableTellsDiff ==
  \A p \in Paths :
    delays[p] = IF p \in fresh THEN DelayOf(diff[p]) ELSE UNMEASURED

(* A measured difference is Skew plus an age.                              *)
DiffRange == \A p \in fresh : diff[p] \in Skew .. (Skew + MaxAge)

(* The inductive invariant: all of the above at once.                      *)
IInv == TypeOK /\ ScanInv /\ OptIsFirstMin /\ TableTellsDiff /\ DiffRange

(* The clocks are close enough: every difference, shifted by the offset,   *)
(* is non-negative and below the entry of an unmeasured path.              *)
OffsetCovers == 0 <= Skew + OFFSET /\ Skew + OFFSET + MaxAge < UNMEASURED

(* As soon as any path is measured, the choice is a measured one and one   *)
(* whose latest measurement shows the least clock difference: no           *)
(* wrap-around and no initial entry 0xFFFFFFFF takes part in it (lines 6,  *)
(* 305, 311).                                                              *)
OptIsFastest ==
  pc = "idle" /\ fresh # {} =>
    opt_path_id \in fresh /\ \A q \in fresh : diff[opt_path_id] <= diff[q]

(* The receiver implements BestPath: the scan in progress counts as done.  *)
Abs == INSTANCE BestPath WITH
         est  <- delays,
         best <- IF pc = "idle" THEN opt_path_id ELSE FirstMin(delays)
ImplementsBestPath == Abs!Spec

(* When the latencies stop changing, the choice settles on a path that is  *)
(* the fastest then: a slowed path is left and a better one taken up,      *)
(* because every round of probes overwrites its entries (README.md, 1).    *)
(* Only a path that has gone down while it was the choice may remain it.   *)
Converges ==
  <>[](pc = "idle" => \/ opt_path_id \notin up
                      \/ \A q \in up : lat[opt_path_id] <= lat[q])
=============================================================================
