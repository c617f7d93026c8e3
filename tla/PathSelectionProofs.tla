------------------------ MODULE PathSelectionProofs ------------------------
(***************************************************************************)
(* Proofs about PathSelection for every number of paths up to 256, every   *)
(* width, offset, skew and bound.  IInv is inductive; the other invariants *)
(* follow from it, OptIsFastest under OffsetCovers.  The refinement of     *)
(* BestPath is proved at the end.                                          *)
(***************************************************************************)
EXTENDS PathSelection, TLAPS

-----------------------------------------------------------------------------
(* Lemmas about PathDelay.                                                 *)

(* The port of a probe names the path it was encoded for: lines 215 and    *)
(* 293 are inverse to each other, uint8_t included.                        *)
LEMMA PortRoundTrip ==
  ASSUME NEW p \in Paths
  PROVE  PathOfPort(ProbePort(p + 1)) = p
<1>1. p \in 0 .. 255
  BY PathPortsAssumption, PathDelayAssumption DEF Paths
<1>2. ProbePort(p + 1) - DST_PORT_PATH_1 = p
  BY <1>1, PathPortsAssumption, PathDelayAssumption DEF ProbePort
<1>3. p % 256 = p
  BY <1>1
<1> QED
  BY <1>2, <1>3 DEF PathOfPort

LEMMA PortsArePaths ==
  ASSUME NEW port \in Ports
  PROVE  PathOfPort(port) \in Paths
  BY PortRoundTrip DEF Ports

LEMMA WrapType ==
  ASSUME NEW x \in Int
  PROVE  Wrap(x) \in Delays
  BY PathPortsAssumption, PathDelayAssumption DEF Wrap, Delays

LEMMA DelayType ==
  ASSUME NEW d \in Int
  PROVE  DelayOf(d) \in Delays
  BY WrapType, PathPortsAssumption, PathDelayAssumption DEF DelayOf

(* Inside the range the offset covers, the entry is the difference shifted *)
(* by the offset and smaller than the entry of an unmeasured path.         *)
LEMMA DelayInRange ==
  ASSUME NEW d \in Skew .. (Skew + MaxAge), OffsetCovers
  PROVE  DelayOf(d) = d + OFFSET /\ DelayOf(d) < UNMEASURED
<1>1. d + OFFSET \in 0 .. (MOD - 1) /\ d + OFFSET < UNMEASURED
  BY PathPortsAssumption, PathDelayAssumption, PathSelectionAssumption DEF OffsetCovers
<1>2. (d + OFFSET) % MOD = d + OFFSET
  BY <1>1, PathPortsAssumption, PathDelayAssumption
<1> QED
  BY <1>1, <1>2 DEF DelayOf, Wrap

(* There is one first minimum, so FirstMin returns it.                     *)
LEMMA FirstMinUnique ==
  ASSUME NEW d \in [Paths -> Delays], NEW p \in Paths, IsFirstMin(d, p)
  PROVE  FirstMin(d) = p
<1>1. \A q \in Paths : IsFirstMin(d, q) => q = p
  <2> SUFFICES ASSUME NEW q \in Paths, IsFirstMin(d, q)
               PROVE  q = p
    OBVIOUS
  <2>1. d[p] <= d[q] /\ d[q] <= d[p]
    BY DEF IsFirstMin
  <2>2. ~ (q < p) /\ ~ (p < q)
    BY <2>1, PathPortsAssumption, PathDelayAssumption DEF IsFirstMin, Paths, Delays
  <2> QED
    BY <2>2, PathPortsAssumption, PathDelayAssumption DEF Paths
<1> QED
  BY <1>1 DEF FirstMin

-----------------------------------------------------------------------------
(* IInv is inductive.                                                      *)

LEMMA InitIInv == Init => IInv
<1> SUFFICES ASSUME Init PROVE IInv
  OBVIOUS
<1> USE PathPortsAssumption, PathDelayAssumption, PathSelectionAssumption
<1>1. TypeOK
  BY DEF Init, InitTable, TypeOK, Paths, Delays
<1>2. OptIsFirstMin
  BY DEF Init, InitTable, OptIsFirstMin, IsFirstMin, Paths
<1> QED
  BY <1>1, <1>2 DEF Init, InitTable, IInv, ScanInv, TableTellsDiff, DiffRange

(* A step that leaves the receiver alone disturbs only the type of the     *)
(* network's variables.                                                    *)
LEMMA NetworkStep ==
  ASSUME IInv, UNCHANGED <<tableVars, opt_path_id, scanVars>>, TypeOK'
  PROVE  IInv'
  BY DEF IInv, ScanInv, OptIsFirstMin, TableTellsDiff, DiffRange, IsFirstMin,
         tableVars, scanVars

LEMMA StoreDelayStep ==
  ASSUME IInv, NEW m \in flight, StoreDelay(m)
  PROVE  IInv'
<1> DEFINE p == PathOfPort(m.port)
           d == m.age + Skew
<1> USE PathPortsAssumption, PathDelayAssumption, PathSelectionAssumption
<1>1. m \in Probe /\ p \in Paths
  BY PortsArePaths DEF IInv, TypeOK, Probe
<1>2. d \in Int /\ d \in Skew .. (Skew + MaxAge)
  BY <1>1 DEF Probe
<1>3. DelayOf(d) \in Delays
  BY <1>2, DelayType
<1>4. /\ flight' = flight \ {m}
      /\ delays' = [delays EXCEPT ![p] = DelayOf(d)]
      /\ diff' = [diff EXCEPT ![p] = d]
      /\ fresh' = fresh \cup {p}
      /\ pc' = "scan" /\ i' = 1 /\ path_id' = 0
      /\ UNCHANGED <<lat, up, changes, opt_path_id>>
  BY DEF StoreDelay, netVars
<1> HIDE DEF p, d
<1>5. TypeOK'
  BY <1>1, <1>2, <1>3, <1>4 DEF IInv, TypeOK, Paths
<1>6. ScanInv'
  BY <1>4, <1>5 DEF TypeOK, ScanInv, Delays, Paths
<1>7. OptIsFirstMin'
  BY <1>4 DEF OptIsFirstMin
<1>8. TableTellsDiff'
  BY <1>1, <1>4 DEF IInv, TypeOK, TableTellsDiff
<1>9. DiffRange'
  BY <1>1, <1>2, <1>4 DEF IInv, TypeOK, DiffRange
<1> QED
  BY <1>5, <1>6, <1>7, <1>8, <1>9 DEF IInv

LEMMA ScanStepStep ==
  ASSUME IInv, ScanStep
  PROVE  IInv'
<1> USE PathPortsAssumption, PathDelayAssumption
<1>1. i \in Paths /\ i' = i + 1
  BY DEF IInv, TypeOK, ScanStep, Paths
<1>2. TypeOK'
  BY <1>1 DEF IInv, TypeOK, ScanStep, netVars, tableVars, Paths
<1>3. ScanInv'
  <2>1. \A q \in Paths : delays[q] \in Nat
    BY DEF IInv, TypeOK, Delays
  <2>2. /\ path_id < i /\ path_id \in Paths
        /\ \A q \in 0 .. (i - 1) :
             delays[path_id] <= delays[q] /\ (q < path_id => delays[path_id] < delays[q])
    BY DEF IInv, ScanInv, ScanStep, TypeOK
  <2>3. \A q \in 0 .. (i' - 1) : q \in Paths /\ (q \in 0 .. (i - 1) \/ q = i)
    BY <1>1 DEF Paths
  <2>4. CASE delays[i] < delays[path_id]
    <3>1. path_id' = i /\ delays' = delays
      BY <2>4 DEF ScanStep, tableVars
    <3> QED
      BY <1>1, <2>1, <2>2, <2>3, <2>4, <3>1 DEF ScanInv, Paths
  <2>5. CASE ~ (delays[i] < delays[path_id])
    <3>1. path_id' = path_id /\ delays' = delays
      BY <2>5 DEF ScanStep, tableVars
    <3> QED
      BY <1>1, <2>1, <2>2, <2>3, <2>5, <3>1 DEF ScanInv, Paths
  <2> QED
    BY <2>4, <2>5
<1> QED
  BY <1>2, <1>3 DEF IInv, ScanStep, OptIsFirstMin, TableTellsDiff, DiffRange, tableVars

LEMMA ScanDoneStep ==
  ASSUME IInv, ScanDone
  PROVE  IInv'
<1> USE PathPortsAssumption, PathDelayAssumption
<1>1. TypeOK'
  BY DEF IInv, TypeOK, ScanDone, netVars, tableVars, Paths
<1>2. OptIsFirstMin'
  BY DEF IInv, ScanInv, ScanDone, tableVars, OptIsFirstMin, IsFirstMin, Paths
<1> QED
  BY <1>1, <1>2 DEF IInv, ScanDone, ScanInv, TableTellsDiff, DiffRange, tableVars

LEMMA NextIInv == IInv /\ [Next]_vars => IInv'
<1> SUFFICES ASSUME IInv, [Next]_vars PROVE IInv'
  OBVIOUS
<1> USE PathPortsAssumption, PathDelayAssumption, PathSelectionAssumption
<1>1. CASE SendProbes
  <2>1. \A p \in up : [port |-> ProbePort(p + 1), age |-> 0] \in Probe
    BY DEF IInv, TypeOK, Probe, Ports
  <2>2. TypeOK'
    BY <1>1, <2>1 DEF IInv, TypeOK, SendProbes, netVars, tableVars, scanVars
  <2> QED
    BY <1>1, <2>2, NetworkStep DEF SendProbes
<1>2. CASE Tick
  <2>1. \A m \in flight : m.age < MaxAge => Older(m) \in Probe
    BY DEF IInv, TypeOK, Probe, Older
  <2>2. TypeOK'
    BY <1>2, <2>1 DEF IInv, TypeOK, Tick, netVars, tableVars, scanVars
  <2> QED
    BY <1>2, <2>2, NetworkStep DEF Tick
<1>3. ASSUME NEW m \in flight, Lose(m) PROVE IInv'
  <2>1. TypeOK'
    BY <1>3 DEF IInv, TypeOK, Lose, netVars, tableVars, scanVars
  <2> QED
    BY <1>3, <2>1, NetworkStep DEF Lose
<1>4. ASSUME NEW p \in Paths, NEW a \in 0 .. MaxAge, LatencyChanges(p, a) PROVE IInv'
  <2>1. TypeOK'
    BY <1>4 DEF IInv, TypeOK, LatencyChanges, tableVars, scanVars
  <2> QED
    BY <1>4, <2>1, NetworkStep DEF LatencyChanges
<1>5. ASSUME NEW p \in Paths, PathFails(p) PROVE IInv'
  <2>1. TypeOK'
    BY <1>5 DEF IInv, TypeOK, PathFails, tableVars, scanVars
  <2> QED
    BY <1>5, <2>1, NetworkStep DEF PathFails
<1>6. ASSUME NEW m \in flight, StoreDelay(m) PROVE IInv'
  BY <1>6, StoreDelayStep
<1>7. CASE ScanStep
  BY <1>7, ScanStepStep
<1>8. CASE ScanDone
  BY <1>8, ScanDoneStep
<1>9. CASE UNCHANGED vars
  <2>1. TypeOK'
    BY <1>9 DEF IInv, TypeOK, vars, netVars, tableVars, scanVars
  <2> QED
    BY <1>9, <2>1, NetworkStep DEF vars
<1> QED
  BY <1>1, <1>2, <1>3, <1>4, <1>5, <1>6, <1>7, <1>8, <1>9 DEF Next

LEMMA SpecIInv == Spec => []IInv
  BY InitIInv, NextIInv, PTL DEF Spec

-----------------------------------------------------------------------------
(* The theorems.                                                           *)

(* The globals and the worker's locals keep their types: no index leaves   *)
(* all_paths_delay_list and every entry is a uint64_t.                     *)
THEOREM SpecTypeOK == Spec => []TypeOK
<1>1. IInv => TypeOK
  BY DEF IInv
<1> QED
  BY <1>1, SpecIInv, PTL

(* Between two handlers opt_path_id is the first minimum of                *)
(* all_paths_delay_list, for any number of paths and any arrival order.    *)
THEOREM SpecOptIsFirstMin == Spec => []OptIsFirstMin
<1>1. IInv => OptIsFirstMin
  BY DEF IInv
<1> QED
  BY <1>1, SpecIInv, PTL

(* If the offset covers the skew, a path that was never measured is not    *)
(* chosen once some path was.                                              *)
LEMMA MeasuredIsBest ==
  ASSUME OffsetCovers, IInv, pc = "idle", fresh # {}
  PROVE  opt_path_id \in fresh
<1> SUFFICES ASSUME NEW q \in fresh, opt_path_id \notin fresh
             PROVE  FALSE
  OBVIOUS
<1>1. opt_path_id \in Paths /\ q \in Paths /\ delays[opt_path_id] <= delays[q]
  BY DEF IInv, TypeOK, OptIsFirstMin, IsFirstMin
<1>2. delays[opt_path_id] = UNMEASURED
  BY <1>1 DEF IInv, TableTellsDiff
<1>3. diff[q] \in Skew .. (Skew + MaxAge) /\ delays[q] = DelayOf(diff[q])
  BY <1>1 DEF IInv, TableTellsDiff, DiffRange
<1>4. delays[q] < UNMEASURED
  BY <1>3, DelayInRange, OffsetCovers
<1>5. delays[q] \in Nat /\ UNMEASURED \in Nat
  BY <1>1, PathPortsAssumption, PathDelayAssumption DEF IInv, TypeOK, Delays
<1> QED
  BY <1>1, <1>2, <1>4, <1>5

(* If the offset covers the skew, the path chosen is truly the one with    *)
(* the least clock difference among those measured, as soon as there is    *)
(* one: neither a wrapped difference nor an initial entry wins.            *)
THEOREM SpecOptIsFastest == ASSUME OffsetCovers PROVE Spec => []OptIsFastest
<1>1. IInv => OptIsFastest
  <2> SUFFICES ASSUME IInv, pc = "idle", NEW q \in fresh
               PROVE  opt_path_id \in fresh /\ diff[opt_path_id] <= diff[q]
    BY MeasuredIsBest DEF OptIsFastest
  <2>1. opt_path_id \in fresh
    BY MeasuredIsBest
  <2>2. fresh \subseteq Paths /\ delays[opt_path_id] <= delays[q]
    BY DEF IInv, TypeOK, OptIsFirstMin, IsFirstMin
  <2>3. \A p \in fresh : diff[p] \in Skew .. (Skew + MaxAge) /\ delays[p] = DelayOf(diff[p])
    BY <2>2 DEF IInv, DiffRange, TableTellsDiff
  <2>4. \A p \in fresh : diff[p] \in Int /\ delays[p] = diff[p] + OFFSET
    BY <2>3, DelayInRange, OffsetCovers, PathSelectionAssumption
  <2> QED
    BY <2>1, <2>2, <2>4, PathPortsAssumption, PathDelayAssumption
<1> QED
  BY <1>1, SpecIInv, PTL

(* The receiver implements BestPath: storing a measurement is the step of  *)
(* the abstract system, scanning for the minimum is invisible.             *)
THEOREM SpecImplementsBestPath == Spec => ImplementsBestPath
<1> DEFINE best == IF pc = "idle" THEN opt_path_id ELSE FirstMin(delays)
<1>1. Init => Abs!Init
  BY DEF Init, InitTable, Abs!Init, Abs!Paths, Paths
<1>2. ASSUME IInv, IInv', [Next]_vars
      PROVE  Abs!Next \/ UNCHANGED <<delays, best>>
  <2>1. IInv => best = FirstMin(delays)
    BY FirstMinUnique DEF IInv, TypeOK, OptIsFirstMin
  <2>2. best' = FirstMin(delays')
    BY <1>2, FirstMinUnique DEF IInv, TypeOK, OptIsFirstMin
  <2>3. CASE delays' = delays
    BY <1>2, <2>1, <2>2, <2>3
  <2>4. ASSUME NEW m \in flight, StoreDelay(m) PROVE Abs!Next
    <3> DEFINE p == PathOfPort(m.port)
               d == DelayOf(m.age + Skew)
    <3>1. p \in Paths /\ d \in Delays
      <4>1. m.port \in Ports /\ m.age + Skew \in Int
        BY <1>2, PathSelectionAssumption DEF IInv, TypeOK, Probe
      <4> QED
        BY <4>1, PortsArePaths, DelayType
    <3>2. delays' = [delays EXCEPT ![p] = d]
      BY <2>4 DEF StoreDelay
    <3>3. \A t, q : Abs!IsFirstMin(t, q) <=> IsFirstMin(t, q)
      BY DEF Abs!IsFirstMin, IsFirstMin, Abs!Paths, Paths
    <3>4. Abs!FirstMin(delays') = FirstMin(delays')
      BY <3>3 DEF Abs!FirstMin, FirstMin, Abs!Paths, Paths
    <3> HIDE DEF p, d
    <3>5. Abs!Measure(p, d)
      BY <2>2, <3>2, <3>4 DEF Abs!Measure
    <3> QED
      BY <3>1, <3>5 DEF Abs!Next, Abs!Paths, Paths, Abs!Delays, Delays
  <2> QED
    BY <1>2, <2>3, <2>4
    DEF Next, vars, SendProbes, Tick, Lose, LatencyChanges, PathFails, ScanStep,
        ScanDone, tableVars
<1> QED
  BY <1>1, <1>2, SpecIInv, PTL DEF Spec, ImplementsBestPath, Abs!Spec
=============================================================================
