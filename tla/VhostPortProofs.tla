-------------------------- MODULE VhostPortProofs --------------------------
(***************************************************************************)
(* Proofs about VhostPort for every number of queues, PMD threads, packets *)
(* in a batch and retries.  Four invariants are carried side by side: the  *)
(* types, who RCU waits for, who holds which lock with what it has sent,   *)
(* and the mapping of the queues.                                          *)
(***************************************************************************)
EXTENDS VhostPort, FiniteSetTheorems, TLAPS

-----------------------------------------------------------------------------
(* Lemmas about the mapping of queues.                                     *)

(* Every position below the size of a finite set of numbers is taken.      *)
LEMMA NthInSet ==
  ASSUME NEW S \in SUBSET Nat, IsFiniteSet(S), NEW i \in 0 .. Cardinality(S) - 1
  PROVE  Nth(S, i) \in S
<1> DEFINE Below(q) == {r \in S : r < q}
           rank == [q \in S |-> Cardinality(Below(q))]
           T == 0 .. Cardinality(S) - 1
<1>1. Cardinality(S) \in Nat
  BY FS_CardinalityType
<1>2. ASSUME NEW q \in S
      PROVE  IsFiniteSet(Below(q)) /\ Cardinality(Below(q)) \in T
  <2>1. Below(q) \in SUBSET S /\ Below(q) # S
    OBVIOUS
  <2>2. IsFiniteSet(Below(q)) /\ Cardinality(Below(q)) <= Cardinality(S)
        /\ Cardinality(S) # Cardinality(Below(q))
    BY <2>1, FS_Subset
  <2>3. Cardinality(Below(q)) \in Nat
    BY <2>2, FS_CardinalityType
  <2> QED
    BY <1>1, <2>2, <2>3
<1>3. ASSUME NEW q \in S, NEW u \in S, q < u
      PROVE  Cardinality(Below(q)) < Cardinality(Below(u))
  <2>1. Below(q) \in SUBSET Below(u) /\ Below(q) # Below(u)
    <3>1. q \in Below(u) /\ q \notin Below(q)
      BY <1>3
    <3>2. \A r \in S : r < q => r < u
      BY <1>3
    <3> QED
      BY <3>1, <3>2
  <2>2. IsFiniteSet(Below(u))
    BY <1>2
  <2>3. /\ Cardinality(Below(q)) <= Cardinality(Below(u))
        /\ Cardinality(Below(u)) # Cardinality(Below(q))
    BY <2>1, <2>2, FS_Subset
  <2> QED
    BY <1>1, <1>2, <2>3
<1>4. rank \in Injection(S, T)
  <2>1. rank \in [S -> T]
    BY <1>2
  <2>2. ASSUME NEW q \in S, NEW u \in S, q # u
        PROVE  rank[q] # rank[u]
    <3>1. CASE q < u
      BY <1>1, <1>2, <1>3, <3>1
    <3>2. CASE u < q
      BY <1>1, <1>2, <1>3, <3>2
    <3> QED
      BY <2>2, <3>1, <3>2
  <2> HIDE DEF rank, T
  <2> QED
    BY <2>1, <2>2 DEF Injection, IsInjective
<1>5. IsFiniteSet(T) /\ Cardinality(T) = Cardinality(S)
  <2>1. PICK c \in Nat : c = Cardinality(S)
    BY <1>1
  <2>2. c - 1 \in Int
    BY <2>1
  <2>3. IsFiniteSet(0 .. c - 1)
        /\ Cardinality(0 .. c - 1) = IF 0 > c - 1 THEN 0 ELSE c - 1 - 0 + 1
    BY <2>2, FS_Interval
  <2> QED
    BY <2>1, <2>3
<1>6. rank \in Surjection(S, T)
  <2> HIDE DEF rank, T
  <2> QED
    BY <1>4, <1>5, FS_Injection
<1>7. PICK q \in S : rank[q] = i
  BY <1>6 DEF Surjection
<1> QED
  BY <1>7 DEF Nth

LEMMA EnabledFinite ==
  ASSUME NEW mp, NEW k \in Nat
  PROVE  /\ IsFiniteSet(Enabled(mp, k))
         /\ Enabled(mp, k) \in SUBSET (0 .. k - 1)
         /\ Cardinality(Enabled(mp, k)) \in Nat
         /\ Enabled(mp, k) # {} => Cardinality(Enabled(mp, k)) > 0
<1>1. IsFiniteSet(0 .. k - 1)
  BY FS_Interval
<1>2. Enabled(mp, k) \in SUBSET (0 .. k - 1)
  BY DEF Enabled
<1>3. IsFiniteSet(Enabled(mp, k))
  BY <1>1, <1>2, FS_Subset
<1> QED
  BY <1>2, <1>3, FS_CardinalityType, FS_EmptySet

(* netdev_dpdk_remap_txqs leads each queue that is not enabled to one that *)
(* is, or to none.                                                         *)
LEMMA RemapTurns ==
  ASSUME NEW mp, NEW k \in Nat, NEW q \in Queues, q < k, mp[q] # q
  PROVE  IF Enabled(mp, k) = {} THEN Remap(mp, k)[q] = DISABLED
         ELSE Remap(mp, k)[q] \in Enabled(mp, k)
<1> DEFINE on == Enabled(mp, k)
           turn == Cardinality({r \in 0 .. q - 1 : mp[r] # r})
<1>0. q \in Nat
  BY VhostAssumption DEF Queues
<1>1. turn \in Nat
  <2>1. IsFiniteSet(0 .. q - 1)
    BY <1>0, FS_Interval
  <2>2. IsFiniteSet({r \in 0 .. q - 1 : mp[r] # r})
    BY <2>1, FS_Subset
  <2> QED
    BY <2>2, FS_CardinalityType
<1>2. Remap(mp, k)[q] = IF on = {} THEN DISABLED ELSE Nth(on, turn % Cardinality(on))
  BY <1>0 DEF Remap
<1>3. CASE on = {}
  BY <1>2, <1>3
<1>4. CASE on # {}
  <2>1. /\ on \in SUBSET Nat /\ IsFiniteSet(on)
        /\ Cardinality(on) \in Nat /\ Cardinality(on) > 0
    BY <1>4, EnabledFinite
  <2> HIDE DEF on, turn
  <2>2. turn % Cardinality(on) \in 0 .. Cardinality(on) - 1
    BY <1>1, <2>1
  <2>3. Nth(on, turn % Cardinality(on)) \in on
    BY <2>1, <2>2, NthInSet
  <2> QED
    BY <1>2, <1>4, <2>3 DEF on
<1> QED
  BY <1>3, <1>4

LEMMA RemapKeeps ==
  ASSUME NEW mp, NEW k \in Nat, NEW q \in Queues, q >= k \/ mp[q] = q
  PROVE  Remap(mp, k)[q] = mp[q]
  BY DEF Remap

LEMMA RemapType ==
  ASSUME NEW mp \in [Queues -> Queues \cup {UNKNOWN, DISABLED}], NEW k \in 0 .. MaxQueues
  PROVE  Remap(mp, k) \in [Queues -> Queues \cup {UNKNOWN, DISABLED}]
<1>1. k \in Nat /\ 0 .. k - 1 \subseteq Queues
  BY VhostAssumption DEF Queues
<1>2. ASSUME NEW q \in Queues
      PROVE  Remap(mp, k)[q] \in Queues \cup {UNKNOWN, DISABLED}
  <2>1. CASE q >= k \/ mp[q] = q
    BY <2>1, <1>1, RemapKeeps
  <2>2. CASE q < k /\ mp[q] # q
    BY <2>2, <1>1, RemapTurns, EnabledFinite
  <2> QED
    BY <2>1, <2>2, <1>1, VhostAssumption DEF Queues
<1> QED
  BY <1>2 DEF Remap

(* What is enabled stays so, and nothing else becomes so.                  *)
LEMMA RemapEnabled ==
  ASSUME NEW mp, NEW k \in 0 .. MaxQueues
  PROVE  Enabled(Remap(mp, k), k) = Enabled(mp, k)
<1>1. k \in Nat /\ 0 .. k - 1 \subseteq Queues
  BY VhostAssumption DEF Queues
<1>2. ASSUME NEW q \in 0 .. k - 1
      PROVE  Remap(mp, k)[q] = q <=> mp[q] = q
  <2>0. q \in Queues /\ q < k /\ q >= 0
    BY <1>1
  <2>1. CASE mp[q] = q
    BY <2>0, <2>1, <1>1, RemapKeeps
  <2>2. CASE mp[q] # q
    <3>1. q \notin Enabled(mp, k)
      BY <2>2 DEF Enabled
    <3>2. DISABLED # q
      BY <2>0 DEF DISABLED
    <3> QED
      BY <2>0, <2>2, <3>1, <3>2, <1>1, RemapTurns
  <2> QED
    BY <2>1, <2>2
<1> QED
  BY <1>2 DEF Enabled

(* So both halves of MapSound about the port hold after a remapping.       *)
LEMMA RemapSound ==
  ASSUME NEW mp, NEW k \in 0 .. MaxQueues
  PROVE  LET r == Remap(mp, k) IN
         /\ \A i \in 0 .. k - 1 : r[i] >= 0 => r[i] \in Enabled(r, k)
         /\ Enabled(r, k) # {} => \A i \in 0 .. k - 1 : r[i] >= 0
<1>1. k \in Nat /\ 0 .. k - 1 \subseteq Queues
  BY VhostAssumption DEF Queues
<1>2. Enabled(Remap(mp, k), k) = Enabled(mp, k)
  BY RemapEnabled
<1>3. ASSUME NEW i \in 0 .. k - 1
      PROVE  /\ Remap(mp, k)[i] \in Enabled(mp, k) \/ Remap(mp, k)[i] = DISABLED
             /\ Enabled(mp, k) # {} => Remap(mp, k)[i] \in Enabled(mp, k)
  <2>0. i \in Queues /\ i < k
    BY <1>1
  <2>1. CASE mp[i] = i
    <3>1. Remap(mp, k)[i] = i
      BY <2>0, <2>1, <1>1, RemapKeeps
    <3>2. i \in Enabled(mp, k)
      BY <2>1 DEF Enabled
    <3> QED
      BY <3>1, <3>2
  <2>2. CASE mp[i] # i
    BY <2>0, <2>2, <1>1, RemapTurns
  <2> QED
    BY <2>1, <2>2
<1>4. Enabled(mp, k) \in SUBSET (0 .. k - 1)
  BY <1>1, EnabledFinite
<1>5. ~(DISABLED >= 0)
  BY DEF DISABLED
<1> QED
  BY <1>1, <1>2, <1>3, <1>4, <1>5

-----------------------------------------------------------------------------
(* The types of what PMD threads do, and a lemma on their steps.           *)

PmdType == [pc : {"idle", "recv", "check", "lock", "enqueue", "unlock"}, qid : Queues,
            left : Nat, at : Nat, retries : Nat, got : Seq(Nat)]

(* A port that is in use has a queue.                                      *)
Typed ==
  /\ TypeOK /\ pmd \in [Pmd -> PmdType]
  /\ \A t \in Pmd : ~At(t, "idle") => n > 0

LEMMA IdleType == Idle \in PmdType /\ Idle.pc = "idle"
  BY VhostAssumption DEF Idle, PmdType, Queues

(* The records that the steps of a PMD thread make.                        *)
LEMMA PmdExcept ==
  ASSUME NEW s \in PmdType
  PROVE  /\ \A l \in Nat : [s EXCEPT !.pc = "enqueue", !.left = l] \in PmdType
         /\ [s EXCEPT !.retries = @ + 1] \in PmdType
         /\ [s EXCEPT !.pc = "unlock"] \in PmdType
<1>1. s.retries + 1 \in Nat
  BY DEF PmdType
<1>2. [s EXCEPT !.retries = @ + 1] \in PmdType
  BY <1>1 DEF PmdType
<1>3. ASSUME NEW l \in Nat
      PROVE  [s EXCEPT !.pc = "enqueue", !.left = l] \in PmdType
  BY DEF PmdType
<1>4. [s EXCEPT !.pc = "unlock"] \in PmdType
  BY DEF PmdType
<1> QED
  BY <1>2, <1>3, <1>4

LEMMA Appended ==
  ASSUME NEW g \in Seq(Nat), NEW h \in Seq(Nat)
  PROVE  /\ g \o h \in Seq(Nat) /\ Len(g \o h) = Len(g) + Len(h)
         /\ \A i \in 1 .. Len(g) + Len(h) :
              (g \o h)[i] = IF i <= Len(g) THEN g[i] ELSE h[i - Len(g)]
  OBVIOUS

LEMMA AdvanceType ==
  ASSUME NEW s \in PmdType, NEW k \in 0 .. s.left
  PROVE  /\ Advance(s, k) \in PmdType /\ Advance(s, k).pc = s.pc
         /\ Advance(s, k).qid = s.qid /\ Advance(s, k).at = s.at + k
         /\ Len(Advance(s, k).got) = Len(s.got) + k
         /\ \A i \in 1 .. Len(s.got) + k :
              Advance(s, k).got[i] = IF i <= Len(s.got) THEN s.got[i]
                                     ELSE s.at + (i - Len(s.got)) - 1
<1> DEFINE more == [i \in 1 .. k |-> s.at + i - 1]
<1>0. /\ s.got \in Seq(Nat) /\ Len(s.got) \in Nat
      /\ s.left \in Nat /\ s.at \in Nat /\ k \in Nat
  BY DEF PmdType
<1>1. more \in Seq(Nat) /\ Len(more) = k
  <2>1. \A i \in 1 .. k : s.at + i - 1 \in Nat
    BY <1>0
  <2> QED
    BY <1>0, <2>1
<1>2. /\ s.got \o more \in Seq(Nat) /\ Len(s.got \o more) = Len(s.got) + k
      /\ \A i \in 1 .. Len(s.got) + k :
           (s.got \o more)[i] = IF i <= Len(s.got) THEN s.got[i] ELSE more[i - Len(s.got)]
  <2> HIDE DEF more
  <2> QED
    BY <1>0, <1>1, Appended
<1>3. \A i \in 1 .. Len(s.got) + k :
         i > Len(s.got) => more[i - Len(s.got)] = s.at + (i - Len(s.got)) - 1
  BY <1>0
<1>4. Advance(s, k) = [s EXCEPT !.left = s.left - k, !.at = s.at + k, !.got = s.got \o more]
  BY DEF Advance
<1> HIDE DEF more
<1>5. s.left - k \in Nat /\ s.at + k \in Nat
  BY <1>0
<1>6. /\ Advance(s, k) \in PmdType /\ Advance(s, k).pc = s.pc
      /\ Advance(s, k).qid = s.qid /\ Advance(s, k).at = s.at + k
      /\ Advance(s, k).got = s.got \o more
  <2>1. PICK l \in Nat : l = s.left - k
    BY <1>5
  <2>2. PICK a \in Nat : a = s.at + k
    BY <1>5
  <2>3. PICK g \in Seq(Nat) : g = s.got \o more
    BY <1>2
  <2>4. Advance(s, k) = [s EXCEPT !.left = l, !.at = a, !.got = g]
    BY <1>4, <2>1, <2>2, <2>3
  <2>5. PICK r : r = Advance(s, k)
    OBVIOUS
  <2>6. r \in PmdType /\ r.pc = s.pc /\ r.qid = s.qid /\ r.at = a /\ r.got = g
    BY <2>4, <2>5 DEF PmdType
  <2> QED
    BY <2>2, <2>3, <2>5, <2>6
<1>7. Len(Advance(s, k).got) = Len(s.got) + k
  BY <1>2, <1>6
<1>8. \A i \in 1 .. Len(s.got) + k :
        Advance(s, k).got[i] = IF i <= Len(s.got) THEN s.got[i]
                               ELSE s.at + (i - Len(s.got)) - 1
  <2> SUFFICES ASSUME NEW i \in 1 .. Len(s.got) + k
               PROVE  (s.got \o more)[i] = IF i <= Len(s.got) THEN s.got[i]
                                           ELSE s.at + (i - Len(s.got)) - 1
    BY <1>6
  <2>1. CASE i <= Len(s.got)
    BY <1>2, <2>1
  <2>2. CASE ~(i <= Len(s.got))
    <3>1. i > Len(s.got)
      BY <1>0, <2>2
    <3>2. (s.got \o more)[i] = more[i - Len(s.got)]
      BY <1>2, <2>2
    <3>3. more[i - Len(s.got)] = s.at + (i - Len(s.got)) - 1
      BY <1>3, <3>1
    <3> QED
      BY <2>2, <3>2, <3>3
  <2> QED
    BY <2>1, <2>2
<1> QED
  BY <1>6, <1>7, <1>8

LEMMA GotoTyped ==
  ASSUME Typed, NEW t \in Pmd, NEW s \in PmdType, s.pc # "idle" => n > 0, Goto(t, s),
         lock' \in [Queues -> Pmd \cup {Free}]
  PROVE  Typed'
<1>1. pmd' \in [Pmd -> PmdType] /\ pmd' = [pmd EXCEPT ![t] = s]
  BY DEF Goto, Typed
<1>2. cb' = Calm \/ cb' \subseteq Pmd
  BY VhostAssumption DEF Goto, Typed, TypeOK, Calm
<1>3. \A u \in Pmd : pmd'[u].qid \in Queues
  BY <1>1 DEF PmdType
<1>4. TypeOK'
  BY <1>2, <1>3 DEF Goto, Typed, TypeOK, devVars
<1>5. n' = n
  BY DEF Goto, devVars
<1>6. \A u \in Pmd : pmd'[u].pc # "idle" => n > 0
  BY <1>1 DEF Typed, At
<1> QED
  BY <1>1, <1>4, <1>5, <1>6 DEF Typed, At

-----------------------------------------------------------------------------
(* Types are inductive.                                                    *)

LEMMA InitTyped == Init => Typed
<1> SUFFICES ASSUME Init
             PROVE  Typed
  OBVIOUS
<1>1. pmd \in [Pmd -> PmdType] /\ \A t \in Pmd : pmd[t].qid \in Queues /\ pmd[t].pc = "idle"
  BY IdleType DEF Init, PmdType
<1>2. 1 \in 1 .. MaxQueues /\ 0 \in 0 .. MaxQueues
  BY VhostAssumption
<1>3. TypeOK
  BY <1>1, <1>2 DEF Init, TypeOK, UNKNOWN, Calm, NR_QUEUE
<1> QED
  BY <1>1, <1>3 DEF Typed, At

LEMMA NextTyped == Typed /\ [Next]_vars => Typed'
<1> SUFFICES ASSUME Typed, [Next]_vars
             PROVE  Typed'
  OBVIOUS
<1> USE DEF Typed, At
<1>1. CASE SetConfig
  BY <1>1 DEF SetConfig, TypeOK, mainFrame
<1>2. CASE UpdateFlags
  BY <1>2 DEF UpdateFlags, TypeOK, mainFrame
<1>3. CASE Pause
  BY <1>3 DEF Pause, TypeOK, mainFrame, devVars
<1>4. CASE Reconfigure
  <2>1. n' \in 0 .. MaxQueues /\ n' = requested /\ requested > 0
    BY <1>4 DEF Reconfigure, TypeOK
  <2>2. 0 \in Queues
    BY VhostAssumption DEF Queues
  <2>3. (IF map[0] = UNKNOWN THEN [map EXCEPT ![0] = 0] ELSE map)
           \in [Queues -> Queues \cup {UNKNOWN, DISABLED}]
    BY <2>2 DEF TypeOK
  <2>4. map' \in [Queues -> Queues \cup {UNKNOWN, DISABLED}]
    BY <1>4, <2>1, <2>3, RemapType DEF Reconfigure
  <2> QED
    BY <1>4, <2>1, <2>2, <2>4 DEF Reconfigure, TypeOK, mainFrame
<1>5. ASSUME NEW pairs \in 1 .. MaxQueues, NewDevice(pairs)
      PROVE  Typed'
  BY <1>5 DEF NewDevice, TypeOK, cbFrame
<1>6. ASSUME NEW q \in Queues, NEW enable \in BOOLEAN, VringRx(q, enable)
      PROVE  Typed'
  BY <1>6 DEF VringRx, TypeOK, cbFrame
<1>7. ASSUME NEW q \in Queues, NEW enable \in BOOLEAN, VringTx(q, enable)
      PROVE  Typed'
  <2>1. [map EXCEPT ![q] = IF enable THEN q ELSE DISABLED]
           \in [Queues -> Queues \cup {UNKNOWN, DISABLED}]
    BY DEF TypeOK
  <2>2. map' \in [Queues -> Queues \cup {UNKNOWN, DISABLED}]
    BY <1>7, <2>1, RemapType DEF VringTx, TypeOK
  <2>3. told' \in [Queues -> {"no", "on", "off", "left"}]
    BY <1>7 DEF VringTx, TypeOK
  <2> QED
    BY <1>7, <2>2, <2>3 DEF VringTx, TypeOK, cbFrame
<1>8. CASE DestroyDevice
  BY <1>8 DEF DestroyDevice, Forgotten, TypeOK, cbFrame
<1>9. CASE Destroyed
  BY <1>9 DEF Destroyed, TypeOK, cbFrame
<1>10. CASE DestroyConnection
  <2>1. wanted' \in BOOLEAN
    BY <1>10, Zenon DEF DestroyConnection, TypeOK
  <2>2. requested' \in 1 .. MaxQueues
    BY <1>10, VhostAssumption DEF DestroyConnection, NR_QUEUE
  <2> QED
    BY <1>10, <2>1, <2>2 DEF DestroyConnection, Forgotten, TypeOK, cbFrame
<1>11. ASSUME NEW t \in Pmd, Recv(t) \/ Send(t)
       PROVE  Typed'
  <2>1. PICK s \in PmdType : Goto(t, s)
    BY <1>11, IdleType DEF Recv, Send, PmdType, Idle
  <2>2. n > 0 /\ lock' \in [Queues -> Pmd \cup {Free}]
    BY <1>11, VhostAssumption DEF Recv, Send, TypeOK
  <2> QED
    BY <2>1, <2>2, GotoTyped
<1>12. ASSUME NEW t \in Pmd, RecvBurst(t)
       PROVE  Typed'
  BY <1>12, IdleType, GotoTyped DEF RecvBurst, TypeOK
<1>13. ASSUME NEW t \in Pmd, SendCheck(t)
       PROVE  Typed'
  <2>1. n > 0 /\ n \in Nat /\ n <= MaxQueues /\ t \in Nat
    BY <1>13, VhostAssumption DEF SendCheck, TypeOK
  <2>2. t % n \in Queues
    <3>1. t % n \in 0 .. n - 1
      BY <2>1
    <3> QED
      BY <2>1, <3>1, VhostAssumption DEF Queues
  <2>3. map[t % n] >= 0 => map[t % n] \in Queues
    BY <2>2 DEF TypeOK, UNKNOWN, DISABLED
  <2>4. map[t % n] >= 0 =>
          [pmd[t] EXCEPT !.pc = "lock", !.qid = map[t % n]] \in PmdType
    BY <2>3 DEF PmdType
  <2>5. PICK s \in PmdType : Goto(t, s)
    BY <1>13, <2>4, IdleType DEF SendCheck
  <2>6. lock' \in [Queues -> Pmd \cup {Free}]
    BY <1>13 DEF SendCheck, TypeOK
  <2> QED
    BY <2>1, <2>5, <2>6, GotoTyped
<1>14. ASSUME NEW t \in Pmd, TakeLock(t)
       PROVE  Typed'
  <2>1. PICK left \in 0 .. Batch : Goto(t, [pmd[t] EXCEPT !.pc = "enqueue", !.left = left])
    BY <1>14 DEF TakeLock
  <2>2. [pmd[t] EXCEPT !.pc = "enqueue", !.left = left] \in PmdType
    <3>1. left \in Nat /\ pmd[t] \in PmdType
      BY VhostAssumption
    <3> QED
      BY <3>1, PmdExcept
  <2>3. n > 0 /\ lock' \in [Queues -> Pmd \cup {Free}]
    BY <1>14 DEF TakeLock, TypeOK
  <2> QED
    BY <2>1, <2>2, <2>3, GotoTyped
<1>15. ASSUME NEW t \in Pmd, Enqueue(t)
       PROVE  Typed'
  <2>0. pmd[t] \in PmdType /\ pmd[t].left \in Nat
    BY DEF PmdType
  <2>1. PICK k \in 0 .. pmd[t].left :
          LET s == Advance(pmd[t], k) IN
          Goto(t, [s EXCEPT !.retries = @ + 1]) \/ Goto(t, [s EXCEPT !.pc = "unlock"])
    BY <1>15, <2>0 DEF Enqueue
  <2>2. Advance(pmd[t], k) \in PmdType
    BY <2>0, AdvanceType
  <2>3. \A s \in PmdType : [s EXCEPT !.retries = @ + 1] \in PmdType
                          /\ [s EXCEPT !.pc = "unlock"] \in PmdType
    BY PmdExcept
  <2>4. n > 0 /\ lock' \in [Queues -> Pmd \cup {Free}]
    BY <1>15 DEF Enqueue, TypeOK
  <2> QED
    BY <2>1, <2>2, <2>3, <2>4, GotoTyped
<1>16. ASSUME NEW t \in Pmd, Unlock(t)
       PROVE  Typed'
  <2>1. lock' \in [Queues -> Pmd \cup {Free}]
    BY <1>16 DEF Unlock, TypeOK
  <2> QED
    BY <1>16, <2>1, IdleType, GotoTyped DEF Unlock
<1>17. CASE UNCHANGED vars
  BY <1>17 DEF TypeOK, vars
<1> QED
  BY <1>1, <1>2, <1>3, <1>4, <1>5, <1>6, <1>7, <1>8, <1>9, <1>10, <1>11, <1>12, <1>13,
     <1>14, <1>15, <1>16, <1>17 DEF Next, Main, Library, InOp

(* The types and the ranges of the state, among them that a queue used for *)
(* sending is one of the port.                                             *)
THEOREM SpecTyped == Spec => []Typed
  BY InitTyped, NextTyped, PTL DEF Spec

-----------------------------------------------------------------------------
(* destroy_device and RCU.  A device that is read is there and no          *)
(* destroy_device waits; one that waits, waits for every thread that is in *)
(* an operation.                                                           *)
Waited ==
  /\ vid => guest /\ cb = Calm
  /\ cb # Calm => \A t \in Pmd : At(t, "idle") \/ t \in cb
  /\ VidNotUsedAfterDestroy

LEMMA GotoWaited ==
  ASSUME Typed, Waited, NEW t \in Pmd, NEW s, Goto(t, s),
         s = Idle \/ (s.pc # "idle" /\ (At(t, "idle") => vid))
  PROVE  Waited'
<1>1. pmd' = [pmd EXCEPT ![t] = s] /\ DOMAIN pmd = Pmd
  BY DEF Goto, Typed
<1>2. /\ vid' = vid /\ guest' = guest
      /\ cb' = IF s = Idle THEN cb \ {t} ELSE cb
  BY DEF Goto
<1>3. t # -1
  BY VhostAssumption
<1>4. cb = Calm => cb' = Calm
  BY <1>2, <1>3 DEF Calm
<1>5. ASSUME s = Idle
      PROVE  Waited'
  <2>1. pmd'[t].pc = "idle" /\ \A u \in Pmd : u # t => pmd'[u] = pmd[u]
    BY <1>1, <1>5, IdleType
  <2> QED
    BY <1>2, <1>4, <1>5, <2>1 DEF Waited, VidNotUsedAfterDestroy, At
<1>6. ASSUME s # Idle
      PROVE  Waited'
  <2>1. pmd'[t].pc # "idle" /\ \A u \in Pmd : u # t => pmd'[u] = pmd[u]
    BY <1>1, <1>6
  <2>2. guest /\ (cb # Calm => t \in cb)
    BY <1>6 DEF Waited, VidNotUsedAfterDestroy
  <2> QED
    BY <1>2, <1>4, <1>6, <2>1, <2>2 DEF Waited, VidNotUsedAfterDestroy, At
<1> QED
  BY <1>5, <1>6

LEMMA InitWaited == Init => Waited
  BY IdleType DEF Init, Waited, VidNotUsedAfterDestroy, At

LEMMA NextWaited == Typed /\ Waited /\ [Next]_vars => Waited'
<1> SUFFICES ASSUME Typed, Waited, [Next]_vars
             PROVE  Waited'
  OBVIOUS
<1>1. CASE SetConfig \/ UpdateFlags \/ Pause \/ Reconfigure
  BY <1>1 DEF SetConfig, UpdateFlags, Pause, Reconfigure, mainFrame, Waited,
              VidNotUsedAfterDestroy, At
<1>2. ASSUME NEW pairs \in 1 .. MaxQueues, NewDevice(pairs)
      PROVE  Waited'
  BY <1>2 DEF NewDevice, cbFrame, Waited, VidNotUsedAfterDestroy, At
<1>3. ASSUME NEW q \in Queues, NEW enable \in BOOLEAN, VringRx(q, enable)
      PROVE  Waited'
  BY <1>3 DEF VringRx, cbFrame, Waited, VidNotUsedAfterDestroy, At
<1>4. ASSUME NEW q \in Queues, NEW enable \in BOOLEAN, VringTx(q, enable)
      PROVE  Waited'
  BY <1>4 DEF VringTx, cbFrame, Waited, VidNotUsedAfterDestroy, At
<1>5. CASE DestroyDevice
  BY <1>5 DEF DestroyDevice, cbFrame, Waited, VidNotUsedAfterDestroy, At
<1>6. CASE Destroyed
  <2>1. cb # Calm
    BY <1>6 DEF Destroyed, Calm
  <2>2. \A t \in Pmd : At(t, "idle")
    BY <1>6, <2>1 DEF Destroyed, Waited
  <2> QED
    BY <1>6, <2>1, <2>2 DEF Destroyed, cbFrame, Waited, VidNotUsedAfterDestroy, At
<1>7. CASE DestroyConnection
  BY <1>7 DEF DestroyConnection, cbFrame, Waited, VidNotUsedAfterDestroy, At
<1>8. ASSUME NEW t \in Pmd, Recv(t) \/ Send(t)
      PROVE  Waited'
  <2>1. PICK s : Goto(t, s) /\ s.pc # "idle" /\ vid
    BY <1>8 DEF Recv, Send, Idle
  <2> QED
    BY <2>1, GotoWaited
<1>9. ASSUME NEW t \in Pmd, RecvBurst(t) \/ Unlock(t)
      PROVE  Waited'
  BY <1>9, GotoWaited DEF RecvBurst, Unlock
<1>10. ASSUME NEW t \in Pmd, SendCheck(t) \/ TakeLock(t) \/ Enqueue(t)
       PROVE  Waited'
  <2>0. pmd[t] \in PmdType /\ ~At(t, "idle")
    BY <1>10 DEF Typed, SendCheck, TakeLock, Enqueue, At
  <2>1. \A q : [pmd[t] EXCEPT !.pc = "lock", !.qid = q].pc # "idle"
    BY <2>0 DEF PmdType
  <2>2. \A l : [pmd[t] EXCEPT !.pc = "enqueue", !.left = l].pc # "idle"
    BY <2>0 DEF PmdType
  <2>3. CASE SendCheck(t)
    BY <2>0, <2>1, <2>3, GotoWaited DEF SendCheck
  <2>4. CASE TakeLock(t)
    BY <2>0, <2>2, <2>4, GotoWaited DEF TakeLock
  <2>5. CASE Enqueue(t)
    <3>1. pmd[t].left \in Nat /\ pmd[t].pc = "enqueue"
      BY <2>0, <2>5 DEF PmdType, Enqueue, At
    <3>2. PICK k \in 0 .. pmd[t].left :
            LET s == Advance(pmd[t], k) IN
            Goto(t, [s EXCEPT !.retries = @ + 1]) \/ Goto(t, [s EXCEPT !.pc = "unlock"])
      BY <2>5, <3>1 DEF Enqueue
    <3>3. Advance(pmd[t], k) \in PmdType /\ Advance(pmd[t], k).pc = "enqueue"
      BY <2>0, <3>1, AdvanceType
    <3>4. \A s \in PmdType : s.pc = "enqueue" =>
            /\ [s EXCEPT !.retries = @ + 1].pc # "idle"
            /\ [s EXCEPT !.pc = "unlock"].pc # "idle"
      BY DEF PmdType
    <3> QED
      BY <2>0, <3>2, <3>3, <3>4, GotoWaited
  <2> QED
    BY <1>10, <2>3, <2>4, <2>5
<1>11. CASE UNCHANGED vars
  BY <1>11 DEF vars, Waited, VidNotUsedAfterDestroy, At
<1> QED
  BY <1>1, <1>2, <1>3, <1>4, <1>5, <1>6, <1>7, <1>8, <1>9, <1>10, <1>11
  DEF Next, Main, Library, InOp

(* No PMD thread uses the device of a guest after the vhost library has    *)
(* dropped it: destroy_device returns only when RCU says so.               *)
THEOREM SpecVidNotUsedAfterDestroy == Spec => []VidNotUsedAfterDestroy
<1>1. Init => Typed /\ Waited
  BY InitTyped, InitWaited
<1>2. Typed /\ Waited /\ [Next]_vars => (Typed /\ Waited)'
  BY NextTyped, NextWaited
<1>3. Typed /\ Waited => VidNotUsedAfterDestroy
  BY DEF Waited
<1> QED
  BY <1>1, <1>2, <1>3, PTL DEF Spec

-----------------------------------------------------------------------------
(* Locks and retries.  Who puts packets on a queue holds its lock, and     *)
(* what it has put there is the batch up to the packet it has come to.     *)
HasLock(t) == pmd[t].pc \in {"enqueue", "unlock"} => lock[pmd[t].qid] = t

SentSoFar(s) == s.at = Len(s.got) + 1 /\ \A i \in 1 .. Len(s.got) : s.got[i] = i

Sending == \A t \in Pmd : HasLock(t) /\ SentSoFar(pmd[t])

LEMMA GotoSending ==
  ASSUME Typed, Sending, NEW t \in Pmd, NEW s, Goto(t, s), SentSoFar(s),
         s.pc \in {"enqueue", "unlock"} => lock'[s.qid] = t,
         \A u \in Pmd : u # t /\ pmd[u].pc \in {"enqueue", "unlock"} => lock'[pmd[u].qid] = u
  PROVE  Sending'
<1>1. pmd'[t] = s /\ \A u \in Pmd : u # t => pmd'[u] = pmd[u]
  BY DEF Goto, Typed
<1> QED
  BY <1>1 DEF Sending, HasLock, SentSoFar

LEMMA IdleSent == SentSoFar(Idle)
  BY DEF SentSoFar, Idle

LEMMA InitSending == Init => Sending
  BY IdleSent DEF Init, Sending, HasLock, SentSoFar, Idle

(* Only the place in the batch and what has been sent matter.              *)
LEMMA SentSame ==
  ASSUME NEW s, SentSoFar(s), NEW r, r.at = s.at, r.got = s.got
  PROVE  SentSoFar(r)
  BY DEF SentSoFar

LEMMA SentAdvance ==
  ASSUME NEW s \in PmdType, SentSoFar(s), NEW k \in 0 .. s.left
  PROVE  SentSoFar(Advance(s, k))
<1> DEFINE r == Advance(s, k)
<1>1. /\ s.at = Len(s.got) + 1 /\ Len(s.got) \in Nat /\ k \in Nat
      /\ \A i \in 1 .. Len(s.got) : s.got[i] = i
  BY DEF SentSoFar, PmdType
<1>2. /\ r.at = s.at + k /\ Len(r.got) = Len(s.got) + k
      /\ \A i \in 1 .. Len(s.got) + k :
           r.got[i] = IF i <= Len(s.got) THEN s.got[i] ELSE s.at + (i - Len(s.got)) - 1
  BY AdvanceType
<1> HIDE DEF r
<1>3. \A i \in 1 .. Len(s.got) + k : r.got[i] = i
  BY <1>1, <1>2
<1> QED
  BY <1>1, <1>2, <1>3 DEF SentSoFar, r

LEMMA SendingOf ==
  ASSUME Typed, Sending, NEW t \in Pmd
  PROVE  /\ pmd[t] \in PmdType /\ SentSoFar(pmd[t])
         /\ pmd[t].pc \in {"enqueue", "unlock"} => lock[pmd[t].qid] = t
  BY DEF Typed, Sending, HasLock

LEMMA NextSending == Typed /\ Sending /\ [Next]_vars => Sending'
<1> SUFFICES ASSUME Typed, Sending, [Next]_vars
             PROVE  Sending'
  OBVIOUS
<1>0. \A u \in Pmd : pmd[u].pc \in {"enqueue", "unlock"} => lock[pmd[u].qid] = u
  BY DEF Sending, HasLock
<1>1. CASE Main
  BY <1>1 DEF Main, SetConfig, UpdateFlags, Pause, Reconfigure, mainFrame,
              Sending, HasLock, SentSoFar
<1>2. CASE Library
  BY <1>2 DEF Library, NewDevice, VringRx, VringTx, DestroyDevice, Destroyed,
              DestroyConnection, cbFrame, Sending, HasLock, SentSoFar
<1>3. ASSUME NEW t \in Pmd, Recv(t) \/ Send(t)
      PROVE  Sending'
  <2>1. PICK p \in {"recv", "check"} : Goto(t, [Idle EXCEPT !.pc = p]) /\ lock' = lock
    BY <1>3 DEF Recv, Send
  <2> DEFINE s == [Idle EXCEPT !.pc = p]
  <2>2. s.pc = p /\ s.at = Idle.at /\ s.got = Idle.got
    BY DEF Idle
  <2>3. SentSoFar(s)
    BY <2>2, IdleSent, SentSame
  <2> QED
    BY <1>0, <2>1, <2>2, <2>3, GotoSending
<1>4. ASSUME NEW t \in Pmd, RecvBurst(t)
      PROVE  Sending'
  BY <1>0, <1>4, IdleType, IdleSent, GotoSending DEF RecvBurst
<1>5. ASSUME NEW t \in Pmd, SendCheck(t)
      PROVE  Sending'
  <2>0. pmd[t] \in PmdType /\ SentSoFar(pmd[t]) /\ lock' = lock
    BY <1>5, SendingOf DEF SendCheck
  <2>1. CASE Goto(t, Idle)
    BY <1>0, <2>0, <2>1, IdleType, IdleSent, GotoSending
  <2>2. ASSUME NEW q, Goto(t, [pmd[t] EXCEPT !.pc = "lock", !.qid = q])
        PROVE  Sending'
    <3> DEFINE s == [pmd[t] EXCEPT !.pc = "lock", !.qid = q]
    <3>1. s.pc = "lock" /\ s.at = pmd[t].at /\ s.got = pmd[t].got
      BY <2>0 DEF PmdType
    <3>2. SentSoFar(s)
      BY <2>0, <3>1, SentSame
    <3> QED
      BY <1>0, <2>0, <2>2, <3>1, <3>2, GotoSending
  <2> QED
    BY <1>5, <2>1, <2>2 DEF SendCheck
<1>6. ASSUME NEW t \in Pmd, TakeLock(t)
      PROVE  Sending'
  <2>0. pmd[t] \in PmdType /\ SentSoFar(pmd[t])
    BY SendingOf
  <2>1. PICK left \in 0 .. Batch : Goto(t, [pmd[t] EXCEPT !.pc = "enqueue", !.left = left])
    BY <1>6 DEF TakeLock
  <2> DEFINE s == [pmd[t] EXCEPT !.pc = "enqueue", !.left = left]
  <2>2. s.qid = pmd[t].qid /\ s.at = pmd[t].at /\ s.got = pmd[t].got
    BY <2>0 DEF PmdType
  <2>3. SentSoFar(s)
    BY <2>0, <2>2, SentSame
  <2>4. /\ lock \in [Queues -> Pmd \cup {Free}] /\ pmd[t].qid \in Queues
        /\ lock[pmd[t].qid] = -1 /\ lock' = [lock EXCEPT ![pmd[t].qid] = t]
    BY <1>6 DEF TakeLock, LockOf, Free, Typed, TypeOK
  <2>5. lock'[s.qid] = t
    BY <2>2, <2>4
  <2>6. ASSUME NEW u \in Pmd, pmd[u].pc \in {"enqueue", "unlock"}
        PROVE  lock'[pmd[u].qid] = u
    <3>1. lock[pmd[u].qid] = u
      BY <1>0, <2>6
    <3>2. u # -1
      BY VhostAssumption
    <3> QED
      BY <2>4, <3>1, <3>2
  <2> HIDE DEF s
  <2> QED
    BY <2>1, <2>3, <2>5, <2>6, GotoSending DEF s
<1>7. ASSUME NEW t \in Pmd, Enqueue(t)
      PROVE  Sending'
  <2>0. pmd[t] \in PmdType /\ SentSoFar(pmd[t])
    BY SendingOf
  <2>1. pmd[t].left \in Nat
    BY <2>0 DEF PmdType
  <2>2. pmd[t].pc = "enqueue" /\ lock' = lock /\ lock[pmd[t].qid] = t
    BY <1>0, <1>7 DEF Enqueue, At
  <2>3. PICK k \in 0 .. pmd[t].left :
          LET s == Advance(pmd[t], k) IN
          Goto(t, [s EXCEPT !.retries = @ + 1]) \/ Goto(t, [s EXCEPT !.pc = "unlock"])
    BY <1>7, <2>1 DEF Enqueue
  <2>4. PICK s \in PmdType : s = Advance(pmd[t], k)
    BY <2>0, AdvanceType
  <2>5. s.qid = pmd[t].qid /\ SentSoFar(s)
    BY <2>0, <2>4, AdvanceType, SentAdvance
  <2>6. ASSUME NEW r, r.at = s.at, r.got = s.got, r.qid = s.qid, Goto(t, r)
        PROVE  Sending'
    <3>1. SentSoFar(r)
      BY <2>5, <2>6, SentSame
    <3> QED
      BY <1>0, <2>2, <2>5, <2>6, <3>1, GotoSending
  <2>7. LET r == [s EXCEPT !.retries = @ + 1] IN
        r.at = s.at /\ r.got = s.got /\ r.qid = s.qid
    BY DEF PmdType
  <2>8. LET r == [s EXCEPT !.pc = "unlock"] IN
        r.at = s.at /\ r.got = s.got /\ r.qid = s.qid
    BY DEF PmdType
  <2> QED
    BY <2>3, <2>4, <2>6, <2>7, <2>8
<1>8. ASSUME NEW t \in Pmd, Unlock(t)
      PROVE  Sending'
  <2>1. lock \in [Queues -> Pmd \cup {Free}] /\ lock[pmd[t].qid] = t
    BY <1>0, <1>8 DEF Unlock, At, Typed, TypeOK
  <2>2. lock' = [lock EXCEPT ![pmd[t].qid] = Free]
    BY <1>8 DEF Unlock, LockOf
  <2>3. ASSUME NEW u \in Pmd, u # t, pmd[u].pc \in {"enqueue", "unlock"}
        PROVE  lock'[pmd[u].qid] = u
    <3>1. lock[pmd[u].qid] = u /\ pmd[u].qid \in Queues
      BY <1>0, <2>3 DEF Typed, TypeOK
    <3> QED
      BY <2>1, <2>2, <2>3, <3>1
  <2>4. Goto(t, Idle)
    BY <1>8 DEF Unlock
  <2> QED
    BY <2>3, <2>4, IdleType, IdleSent, GotoSending
<1>9. CASE UNCHANGED vars
  BY <1>9 DEF vars, Sending, HasLock, SentSoFar
<1> QED
  BY <1>1, <1>2, <1>3, <1>4, <1>5, <1>6, <1>7, <1>8, <1>9 DEF Next, InOp

LEMMA SpecSending == Spec => [](Typed /\ Sending)
<1>1. Init => Typed /\ Sending
  BY InitTyped, InitSending
<1>2. Typed /\ Sending /\ [Next]_vars => (Typed /\ Sending)'
  BY NextTyped, NextSending
<1> QED
  BY <1>1, <1>2, PTL DEF Spec

(* Two threads never put packets on one queue of the guest at a time,      *)
(* however the queues of the port have been mapped since they looked.      *)
THEOREM SpecOneSender == Spec => []OneSender
<1>1. Typed /\ Sending => OneSender
  BY DEF Typed, Sending, HasLock, OneSender, At
<1> QED
  BY <1>1, SpecSending, PTL

(* The retry loop puts each packet of a batch at most once, in order.      *)
THEOREM SpecSentOnce == Spec => []SentOnce
<1>1. Sending => SentOnce
  BY DEF Sending, SentSoFar, SentOnce
<1> QED
  BY <1>1, SpecSending, PTL

-----------------------------------------------------------------------------
(* The mapping of transmit queues.                                         *)

LEMMA InitMapSound == Init => MapSound
  BY DEF Init, MapSound, Enabled, Queues, UNKNOWN

(* Which queues are mapped to themselves decides what may be said of them. *)
Says(mp, word) ==
  \A q \in Queues :
    /\ word[q] = "on" => mp[q] = q
    /\ word[q] = "off" => mp[q] \notin {q, UNKNOWN}
    /\ word[q] = "no" /\ mp[q] = q => q = 0

(* A remapping changes none of this: it leaves the queues that are mapped  *)
(* to themselves, makes no other one so, and none unknown.                 *)
LEMMA RemapSays ==
  ASSUME NEW mp, NEW word, NEW k \in 0 .. MaxQueues, Says(mp, word)
  PROVE  Says(Remap(mp, k), word)
<1>1. k \in Nat /\ \A q \in Queues : q \in Nat
  BY VhostAssumption DEF Queues
<1>2. ASSUME NEW q \in Queues
      PROVE  Remap(mp, k)[q] = q <=> mp[q] = q
  <2>1. CASE q >= k \/ mp[q] = q
    BY <1>1, <2>1, RemapKeeps
  <2>2. CASE q < k /\ mp[q] # q
    <3>1. q \notin Enabled(mp, k)
      BY <2>2 DEF Enabled
    <3>2. DISABLED # q
      BY <1>1 DEF DISABLED
    <3> QED
      BY <1>1, <2>2, <3>1, <3>2, RemapTurns
  <2> QED
    BY <1>1, <2>1, <2>2
<1>3. ASSUME NEW q \in Queues, mp[q] # UNKNOWN
      PROVE  Remap(mp, k)[q] # UNKNOWN
  <2>1. CASE q >= k \/ mp[q] = q
    BY <1>1, <1>3, <2>1, RemapKeeps
  <2>2. CASE q < k /\ mp[q] # q
    <3>1. \A r \in Enabled(mp, k) : r # UNKNOWN
      BY <1>1 DEF Enabled, UNKNOWN
    <3>2. DISABLED # UNKNOWN
      BY DEF DISABLED, UNKNOWN
    <3> QED
      BY <1>1, <2>2, <3>1, <3>2, RemapTurns
  <2> QED
    BY <1>1, <2>1, <2>2
<1> QED
  BY <1>2, <1>3 DEF Says

(* Of a queue that is forgotten, little is said.                           *)
LEMMA ForgottenSays ==
  ASSUME NEW mp
  PROVE  Says(mp, Forgotten(mp))
  BY DEF Says, Forgotten

LEMMA NextMapSound == Typed /\ MapSound /\ [Next]_vars => MapSound'
<1> SUFFICES ASSUME Typed, MapSound, [Next]_vars
             PROVE  MapSound'
  OBVIOUS
<1>0. /\ map \in [Queues -> Queues \cup {UNKNOWN, DISABLED}]
      /\ told \in [Queues -> {"no", "on", "off", "left"}]
      /\ n \in 0 .. MaxQueues /\ requested \in 0 .. MaxQueues
      /\ 0 \in Queues /\ MaxQueues \in Nat
  BY VhostAssumption DEF Typed, TypeOK, Queues
<1>a. Says(map, told)
  BY DEF MapSound, Says
<1>b. CASE UNCHANGED <<n, map, told>>
  BY <1>b DEF MapSound, Enabled
<1>1. CASE SetConfig \/ UpdateFlags \/ Pause
  BY <1>b, <1>1 DEF SetConfig, UpdateFlags, Pause, devVars, mainFrame
<1>2. CASE Reconfigure
  <2> DEFINE m == IF map[0] = UNKNOWN THEN [map EXCEPT ![0] = 0] ELSE map
  <2>1. map' = Remap(m, n') /\ n' = requested /\ told' = told
    BY <1>2 DEF Reconfigure, mainFrame
  <2>2. Says(m, told)
    <3>1. map[0] = UNKNOWN => told[0] # "off"
      BY <1>0, <1>a DEF Says
    <3>2. 0 # UNKNOWN
      BY DEF UNKNOWN
    <3> QED
      BY <1>0, <1>a, <3>1, <3>2 DEF Says
  <2> HIDE DEF m
  <2>3. Says(map', told')
    BY <1>0, <2>1, <2>2, RemapSays
  <2> QED
    BY <1>0, <2>1, <2>3, RemapSound DEF MapSound, Says
<1>3. ASSUME NEW pairs \in 1 .. MaxQueues, NewDevice(pairs)
      PROVE  MapSound'
  BY <1>b, <1>3 DEF NewDevice, cbFrame
<1>4. ASSUME NEW q \in Queues, NEW enable \in BOOLEAN, VringRx(q, enable)
      PROVE  MapSound'
  BY <1>b, <1>4 DEF VringRx, cbFrame
<1>5. ASSUME NEW q \in Queues, NEW enable \in BOOLEAN, VringTx(q, enable)
      PROVE  MapSound'
  <2> DEFINE m == [map EXCEPT ![q] = IF enable THEN q ELSE DISABLED]
  <2>1. /\ map' = Remap(m, n) /\ n' = n
        /\ told' = [told EXCEPT ![q] = IF enable THEN "on" ELSE "off"]
    BY <1>5 DEF VringTx, cbFrame
  <2>2. DISABLED # q /\ DISABLED # UNKNOWN /\ UNKNOWN # q
    BY VhostAssumption DEF DISABLED, UNKNOWN, Queues
  <2>3. Says(m, told')
    BY <1>0, <1>a, <2>1, <2>2 DEF Says
  <2> HIDE DEF m
  <2>4. Says(map', told')
    BY <1>0, <2>1, <2>3, RemapSays
  <2> QED
    BY <1>0, <2>1, <2>4, RemapSound DEF MapSound, Says
<1>6. CASE DestroyDevice
  <2>1. /\ n' = n /\ \A q \in 0 .. n - 1 : map'[q] = -1
        /\ told' = Forgotten(map')
    BY <1>0, <1>6 DEF DestroyDevice, cbFrame, UNKNOWN, Queues
  <2>2. Says(map', told')
    BY <2>1, ForgottenSays
  <2> QED
    BY <1>0, <2>1, <2>2 DEF MapSound, Enabled, Says
<1>7. CASE Destroyed
  BY <1>b, <1>7 DEF Destroyed, cbFrame
<1>8. CASE DestroyConnection
  <2>1. n' = n /\ map' = map /\ told' = Forgotten(map)
    BY <1>8 DEF DestroyConnection, cbFrame
  <2>2. Says(map', told')
    BY <2>1, ForgottenSays
  <2> QED
    BY <2>1, <2>2 DEF MapSound, Enabled, Says
<1>9. ASSUME NEW t \in Pmd, Recv(t) \/ Send(t) \/ InOp(t)
      PROVE  MapSound'
  <2>1. \E s : Goto(t, s)
    BY <1>9 DEF Recv, Send, InOp, RecvBurst, SendCheck, TakeLock, Enqueue, Unlock
  <2> QED
    BY <1>b, <2>1 DEF Goto, devVars
<1>10. CASE UNCHANGED vars
  BY <1>b, <1>10 DEF vars
<1> QED
  BY <1>1, <1>2, <1>3, <1>4, <1>5, <1>6, <1>7, <1>8, <1>9, <1>10 DEF Next, Main, Library

(* A queue of the port leads to one that is enabled, and one the guest has *)
(* enabled leads to itself, in whatever order callbacks and                *)
(* reconfigurations come.                                                  *)
THEOREM SpecMapSound == Spec => []MapSound
<1>1. Init => Typed /\ MapSound
  BY InitTyped, InitMapSound
<1>2. Typed /\ MapSound /\ [Next]_vars => (Typed /\ MapSound)'
  BY NextTyped, NextMapSound
<1> QED
  BY <1>1, <1>2, PTL DEF Spec
=============================================================================
