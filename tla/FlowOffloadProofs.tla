------------------------- MODULE FlowOffloadProofs -------------------------
(***************************************************************************)
(* Proofs about FlowOffload for every number of PMD threads, offload       *)
(* threads, megaflows, ports, marks, flows and requests.  The invariant    *)
(* has five parts, each proved from all of them: the types, where requests *)
(* and threads may refer to a flow, the count of references, the marks,    *)
(* and the flush of a port with what it leaves in the hardware.            *)
(***************************************************************************)
EXTENDS FlowOffload, FiniteSetTheorems, TLAPS

MarkOrNone == Mark \cup {NoMark}
FlowType == [used : BOOLEAN, pmd : Pmd \cup {0}, mega : Mega \cup {0}, listed : BOOLEAN,
             dead : BOOLEAN, mark : MarkOrNone, ref : Int]
Request == [op : {"add", "mod", "del"}, flow : Ids] \cup [op : {"flush"}, flow : {0}]
Busy == {"put", "dis", "del", "drop", "done"}
Waits == {"flush", "barrier1", "barrier2"}
CurType == [pc : {"idle"} \cup Busy \cup Waits, flow : Ids \cup {0}, mark : MarkOrNone,
            mod : BOOLEAN]
MainType == [pc : {"idle", "map", "flush", "barrier1", "relock", "barrier2", "uninit", "unmap"},
             port : Port \cup {0}]

Typed ==
  /\ flow \in [Ids -> FlowType] /\ queue \in [Thread -> Seq(Request)]
  /\ cur \in [Thread -> CurType]
  /\ byMega \in [Mega -> MarkOrNone] /\ hw \in [Mega -> MarkOrNone]
  /\ pool \in SUBSET Mark
  /\ polled \in SUBSET Port /\ mapped \in SUBSET Port /\ api \in SUBSET mapped
  /\ main \in MainType /\ wr \in BOOLEAN
  /\ main.pc # "idle" => main.port \in Port
  /\ main.pc = "unmap" => main.port \notin api

(* The thread that serves flow i.                                          *)
Server(i) == ThreadOf[flow[i].mega]

(* What thread t may refer to.                                             *)
Serves(t, i) == i = 0 \/ (flow[i].used /\ Server(i) = t)

(* A flow that is not used is blank; requests and threads refer to used    *)
(* flows only, and to those of the megaflows they serve.                   *)
Sited ==
  /\ \A i \in Ids : IF flow[i].used THEN flow[i].mega \in Mega ELSE flow[i] = NoFlow
  /\ \A i \in Ids : flow[i].listed => ~flow[i].dead
  /\ \A t \in Thread : \A n \in 1 .. Len(queue[t]) : Serves(t, queue[t][n].flow)
  /\ \A t \in Thread : Serves(t, cur[t].flow)
  /\ \A t \in Thread : cur[t].flow # 0 <=> cur[t].pc \in Busy

(* How often flow i is asked for in a queue.                               *)
NumIn(s, i) == Cardinality({n \in 1 .. Len(s) : s[n].flow = i})
One(b) == IF b THEN 1 ELSE 0
Marked(i) ==
  \/ flow[i].mark # NoMark
  \/ cur[Server(i)].flow = i /\ cur[Server(i)].pc \in {"del", "drop"}

(* References are counted: the table's, one for each request in the queue  *)
(* of the thread that serves the flow, what that thread is doing, the mark.*)
Counted ==
  \A i \in Ids : flow[i].used =>
    flow[i].ref = One(~flow[i].dead) + NumIn(queue[Server(i)], i)
                  + One(cur[Server(i)].flow = i) + One(Marked(i))

(* A flow that is used is referred to.                                     *)
Held == \A i \in Ids : flow[i].used => flow[i].ref > 0

(* Each mark is in one place: free, of one megaflow, or in the hands of    *)
(* one thread.                                                             *)
OnePlace ==
  /\ \A m \in Mega : byMega[m] \notin pool
  /\ \A m, o \in Mega : byMega[m] # NoMark /\ byMega[m] = byMega[o] => m = o
  /\ \A t \in Thread : InHand(t) \notin pool
  /\ \A t \in Thread, m \in Mega : InHand(t) # NoMark => byMega[m] # InHand(t)
  /\ \A t, u \in Thread : InHand(t) # NoMark /\ InHand(t) = InHand(u) => t = u
  /\ \A k \in Mark : \/ k \in pool
                     \/ \E m \in Mega : byMega[m] = k
                     \/ \E t \in Thread : InHand(t) = k

(* The marks of flows, and what a thread knows of them while it works.     *)
MarksAgree ==
  /\ \A i \in Ids : flow[i].mark # NoMark => flow[i].mark = byMega[flow[i].mega]
  /\ \A m \in Mega : byMega[m] # NoMark =>
       \/ \E i \in Ids : flow[i].mega = m /\ flow[i].mark # NoMark
       \/ cur[ThreadOf[m]].pc \in {"del", "drop"} /\ Its(ThreadOf[m]).mega = m
  /\ \A t \in Thread :
       /\ At(t, "put") => cur[t].mark # NoMark
       /\ At(t, "put") /\ ~cur[t].mod => byMega[Its(t).mega] = NoMark
       /\ At(t, "put") /\ cur[t].mod => cur[t].mark = Its(t).mark
       /\ cur[t].pc \in {"del", "drop"} =>
            /\ cur[t].mark # NoMark /\ cur[t].mark = byMega[Its(t).mega]
            /\ \A i \in Ids : flow[i].mega = Its(t).mega => flow[i].mark = NoMark

IsFlush(r) == r.op = "flush"

HasFlush(s) == \E n \in 1 .. Len(s) : IsFlush(s[n])
OneFlush(s) == \A n, k \in 1 .. Len(s) : IsFlush(s[n]) /\ IsFlush(s[k]) => n = k

(* A flush is asked for once, served once, and waited for.                 *)
Flushes ==
  /\ \A t \in Thread : HasFlush(queue[t]) => main.pc = "barrier1" /\ cur[t].pc \notin Waits
  /\ \A t \in Thread : /\ OneFlush(queue[t])
                       /\ Len(queue[t]) <= MaxQueue + One(HasFlush(queue[t]))
  /\ \A t \in Thread : cur[t].pc \in {"flush", "barrier1"} => main.pc = "barrier1"
  /\ \A t \in Thread : cur[t].pc = "barrier2" <=> main.pc \in {"relock", "barrier2"}

(* The rules in the hardware: those of the port that is deleted go, one    *)
(* offload thread after the other, and none comes back.                    *)
Rules ==
  /\ \A m \in Mega : hw[m] # NoMark => hw[m] = byMega[m]
  /\ \A m \in Mega : hw[m] # NoMark => InPort[m] \in api
  /\ \A t \in Thread : At(t, "drop") => hw[Its(t).mega] = NoMark
  /\ \A t \in Thread : cur[t].pc \in {"barrier1", "barrier2"} =>
       \A m \in Mega : ThreadOf[m] = t /\ InPort[m] = main.port => hw[m] = NoMark
  /\ main.pc = "uninit" => \A m \in Mega : InPort[m] = main.port => hw[m] = NoMark
  /\ main.pc \in {"barrier2", "uninit"} => wr

Inv == Typed /\ Sited /\ Counted /\ Held /\ OnePlace /\ MarksAgree /\ Flushes /\ Rules

-----------------------------------------------------------------------------
(* Lemmas about a queue: what Append and Tail do to the count of requests. *)

LEMMA NumInNat ==
  ASSUME NEW s \in Seq(Request), NEW i
  PROVE  /\ IsFiniteSet({n \in 1 .. Len(s) : s[n].flow = i})
         /\ NumIn(s, i) \in Nat
         /\ NumIn(s, i) = 0 <=> \A n \in 1 .. Len(s) : s[n].flow # i
<1> DEFINE P == {n \in 1 .. Len(s) : s[n].flow = i}
<1>1. IsFiniteSet(P)
  <2>1. IsFiniteSet(1 .. Len(s))
    BY FS_Interval
  <2> QED
    BY <2>1, FS_Subset
<1>2. Cardinality(P) \in Nat /\ (Cardinality(P) = 0 <=> P = {})
  BY <1>1, FS_CardinalityType, FS_EmptySet
<1> QED
  BY <1>1, <1>2 DEF NumIn

LEMMA NumInEmpty ==
  ASSUME NEW i
  PROVE  NumIn(<<>>, i) = 0
BY FS_EmptySet DEF NumIn

LEMMA NumInAppend ==
  ASSUME NEW s \in Seq(Request), NEW r \in Request, NEW i
  PROVE  NumIn(Append(s, r), i) = NumIn(s, i) + One(r.flow = i)
<1> DEFINE P == {n \in 1 .. Len(s) : s[n].flow = i}
           R == {n \in 1 .. Len(Append(s, r)) : Append(s, r)[n].flow = i}
<1>1. R = IF r.flow = i THEN P \cup {Len(s) + 1} ELSE P
  OBVIOUS
<1>2. IsFiniteSet(P) /\ Cardinality(P) \in Nat
  BY NumInNat DEF NumIn
<1>3. Len(s) + 1 \notin P
  OBVIOUS
<1>4. NumIn(s, i) = Cardinality(P) /\ NumIn(Append(s, r), i) = Cardinality(R)
  BY DEF NumIn
<1> HIDE DEF P, R
<1>5. Cardinality(P \cup {Len(s) + 1}) = Cardinality(P) + 1
  BY <1>2, <1>3, FS_AddElement
<1>6. CASE r.flow = i
  BY <1>1, <1>4, <1>5, <1>6 DEF One
<1>7. CASE r.flow # i
  BY <1>1, <1>2, <1>4, <1>7 DEF One
<1> QED
  BY <1>6, <1>7

LEMMA NumInTail ==
  ASSUME NEW s \in Seq(Request), s # <<>>, NEW i
  PROVE  NumIn(Tail(s), i) = NumIn(s, i) - One(Head(s).flow = i)
<1> DEFINE P == {n \in 1 .. Len(s) : s[n].flow = i}
           T == {n \in 1 .. Len(Tail(s)) : Tail(s)[n].flow = i}
           f == [n \in T |-> n + 1]
<1>1. IsFiniteSet(P) /\ Cardinality(P) \in Nat
  BY NumInNat DEF NumIn
<1>2. Tail(s) \in Seq(Request) /\ Len(Tail(s)) = Len(s) - 1 /\ Len(s) \in Nat \ {0}
      /\ (\A n \in 1 .. Len(s) - 1 : Tail(s)[n] = s[n + 1]) /\ Head(s) = s[1]
  OBVIOUS
<1>3. IsFiniteSet(T) /\ Cardinality(T) \in Nat
  BY <1>2, NumInNat DEF NumIn
<1>4. f \in Bijection(T, P \ {1})
  <2>1. f \in [T -> P \ {1}]
    BY <1>2
  <2>2. \A a, b \in T : f[a] = f[b] => a = b
    OBVIOUS
  <2>3. ASSUME NEW n \in P \ {1}
        PROVE  \E a \in T : f[a] = n
    <3>1. n - 1 \in T /\ f[n - 1] = n
      BY <1>2
    <3> QED
      BY <3>1
  <2> QED
    BY <2>1, <2>2, <2>3 DEF Bijection, Injection, Surjection, IsInjective
<1>5. Cardinality(P \ {1}) = IF 1 \in P THEN Cardinality(P) - 1 ELSE Cardinality(P)
  BY <1>1, FS_RemoveElement
<1>6. 1 \in P <=> Head(s).flow = i
  BY <1>2
<1>7. Cardinality(T) = Cardinality(P \ {1})
  <2>1. ExistsBijection(T, P \ {1})
    BY <1>4 DEF ExistsBijection
  <2> HIDE DEF T, P
  <2> QED
    BY <1>3, <2>1, FS_Bijection
<1>8. NumIn(s, i) = Cardinality(P) /\ NumIn(Tail(s), i) = Cardinality(T)
  BY DEF NumIn
<1> HIDE DEF P, T
<1>9. CASE Head(s).flow = i
  BY <1>5, <1>6, <1>7, <1>8, <1>9 DEF One
<1>10. CASE Head(s).flow # i
  BY <1>1, <1>5, <1>6, <1>7, <1>8, <1>10 DEF One
<1> QED
  BY <1>9, <1>10

-----------------------------------------------------------------------------
(* Types.                                                                  *)

LEMMA FlowTypes ==
  /\ NoFlow \in FlowType /\ Idle \in CurType
  /\ \A f \in FlowType : Ref(f) \in FlowType /\ Unref(f) \in FlowType
  /\ NoMark \in MarkOrNone /\ 0 \notin Ids
BY OffloadAssumption
   DEF NoFlow, FlowType, Idle, CurType, Ref, Unref, MarkOrNone, Ids, NoMark

(* A request that was taken, and the thread that took it.                  *)
LEMMA TakeType ==
  ASSUME Typed, NEW t \in Thread, NEW ops, Take(t, ops)
  PROVE  /\ Head(queue[t]) \in Request /\ Head(queue[t]).op \in ops
         /\ queue[t] \in Seq(Request) /\ queue[t] # <<>>
         /\ Tail(queue[t]) \in Seq(Request)
         /\ queue' = [queue EXCEPT ![t] = Tail(queue[t])]
         /\ queue' \in [Thread -> Seq(Request)]
         /\ cur[t].pc = "idle"
<1>1. queue[t] \in Seq(Request) /\ queue[t] # <<>>
  BY DEF Typed, Take
<1>2. Head(queue[t]) \in Request /\ Tail(queue[t]) \in Seq(Request)
  BY <1>1
<1> QED
  BY <1>1, <1>2 DEF Typed, Take, At

LEMMA ServeType ==
  ASSUME Typed, NEW t \in Thread, Head(queue[t]) \in Request,
         NEW step \in {"idle"} \cup Busy \cup Waits, NEW mark \in MarkOrNone,
         NEW mod \in BOOLEAN, Serve(t, step, mark, mod)
  PROVE  /\ cur' \in [Thread -> CurType]
         /\ cur'[t].pc = step /\ cur'[t].flow = Head(queue[t]).flow
         /\ cur'[t].mark = mark /\ cur'[t].mod = mod
         /\ \A u \in Thread \ {t} : cur'[u] = cur[u]
<1>1. Head(queue[t]).flow \in Ids \cup {0}
  BY DEF Request
<1> DEFINE c == [pc |-> step, flow |-> Head(queue[t]).flow, mark |-> mark, mod |-> mod]
<1>2. c \in CurType
  BY <1>1 DEF CurType
<1>3. cur' = [cur EXCEPT ![t] = c] /\ cur \in [Thread -> CurType]
  BY DEF Serve, Typed
<1> QED
  BY <1>2, <1>3

LEMMA GotoType ==
  ASSUME Typed, NEW t \in Thread, NEW step \in {"idle"} \cup Busy \cup Waits, Goto(t, step)
  PROVE  /\ cur' \in [Thread -> CurType]
         /\ cur'[t].pc = step /\ cur'[t].flow = cur[t].flow
         /\ cur'[t].mark = cur[t].mark /\ cur'[t].mod = cur[t].mod
         /\ \A u \in Thread \ {t} : cur'[u] = cur[u]
BY DEF Goto, Typed, CurType

-----------------------------------------------------------------------------
(* References.                                                             *)

(* Thread t, or who asks it, changes flow i to g, and g counts what refers *)
(* to it then.                                                             *)
Changes(t, i, g) ==
  /\ flow' = [flow EXCEPT ![i] = g]
  /\ flow[i].used => Server(i) = t
  /\ \A u \in Thread \ {t} : queue'[u] = queue[u] /\ cur'[u] = cur[u]
  /\ \A n \in 1 .. Len(queue'[t]) :
       \/ queue'[t][n].flow = i
       \/ \E k \in 1 .. Len(queue[t]) : queue'[t][n] = queue[t][k]
  /\ \A j \in Ids \ {i} : NumIn(queue'[t], j) = NumIn(queue[t], j)
  /\ \/ cur'[t] = cur[t]
     \/ cur[t].flow \in {0, i} /\ cur'[t].flow \in {0, i}
  /\ cur'[t].flow # 0 <=> cur'[t].pc \in Busy
  /\ g.listed => ~g.dead
  /\ IF g.used
     THEN /\ g.mega \in Mega /\ ThreadOf[g.mega] = t
          /\ g.ref = One(~g.dead) + NumIn(queue'[t], i) + One(cur'[t].flow = i)
                     + One(\/ g.mark # NoMark
                           \/ cur'[t].flow = i /\ cur'[t].pc \in {"del", "drop"})
     ELSE g = NoFlow /\ NumIn(queue'[t], i) = 0 /\ cur'[t].flow # i

LEMMA RefStep ==
  ASSUME Typed, Sited, Counted, Typed', NEW t \in Thread, NEW i \in Ids, NEW g \in FlowType,
         Changes(t, i, g)
  PROVE  Sited' /\ Counted'
<1> USE DEF Changes
<1>1. flow \in [Ids -> FlowType] /\ flow'[i] = g /\ \A j \in Ids \ {i} : flow'[j] = flow[j]
  BY DEF Typed
<1>2. \A u \in Thread : queue[u] \in Seq(Request) /\ queue'[u] \in Seq(Request)
                          /\ cur[u] \in CurType /\ cur'[u] \in CurType
  BY DEF Typed
<1>3. \A j \in Ids \ {i} : Server(j)' = Server(j)
  BY <1>1 DEF Server
<1>4. ASSUME NEW u \in Thread, NEW j \in Ids \cup {0}, Serves(u, j), j # i
      PROVE  Serves(u, j)'
  <2>1. CASE j = 0
    BY <2>1 DEF Serves
  <2>2. CASE j # 0
    BY <1>1, <1>4, <2>2 DEF Serves, Server
  <2> QED
    BY <2>1, <2>2
<1>5. g.used => Serves(t, i)'
  BY <1>1 DEF Serves, Server
<1>6. \A u \in Thread \ {t} : ~Serves(u, i)
  BY FlowTypes DEF Serves
<1>7. ASSUME NEW u \in Thread, NEW n \in 1 .. Len(queue'[u])
      PROVE  Serves(u, queue[u][n].flow)'
  <2>1. queue'[u][n].flow \in Ids \cup {0}
    BY <1>2 DEF Request
  <2>2. CASE queue'[u][n].flow # i
    <3>1. \E k \in 1 .. Len(queue[u]) : queue'[u][n] = queue[u][k]
      BY <2>2
    <3> QED
      BY <1>4, <2>1, <2>2, <3>1 DEF Sited
  <2>3. CASE queue'[u][n].flow = i /\ u # t
    BY <1>6, <2>3 DEF Sited
  <2>4. CASE queue'[u][n].flow = i /\ u = t
    <3>1. queue'[t] \in Seq(Request)
      BY <1>2
    <3>2. NumIn(queue'[t], i) # 0
      BY <3>1, <2>4, NumInNat
    <3> QED
      BY <1>5, <2>4, <3>2
  <2> QED
    BY <2>2, <2>3, <2>4
<1>8. ASSUME NEW u \in Thread
      PROVE  Serves(u, cur[u].flow)'
  <2>1. cur'[u].flow \in Ids \cup {0}
    BY <1>2 DEF CurType
  <2>2. CASE cur'[u].flow # i
    <3>1. cur'[u].flow = 0 \/ cur'[u] = cur[u]
      BY <2>2
    <3>2. Serves(u, cur[u].flow)
      BY DEF Sited
    <3>3. Serves(u, cur'[u].flow)
      BY <3>1, <3>2 DEF Serves
    <3> QED
      BY <1>4, <2>1, <2>2, <3>3
  <2>3. CASE cur'[u].flow = i
    BY <1>5, <1>6, <2>3 DEF Sited
  <2> QED
    BY <2>2, <2>3
<1>9. Sited'
  <2>1. \A j \in Ids : IF flow'[j].used THEN flow'[j].mega \in Mega ELSE flow'[j] = NoFlow
    BY <1>1 DEF Sited
  <2>2. \A j \in Ids : flow'[j].listed => ~flow'[j].dead
    BY <1>1 DEF Sited
  <2>3. \A u \in Thread : cur'[u].flow # 0 <=> cur'[u].pc \in Busy
    BY DEF Sited
  <2> QED
    BY <1>7, <1>8, <2>1, <2>2, <2>3 DEF Sited
<1>10. ASSUME NEW j \in Ids, flow'[j].used
      PROVE  flow'[j].ref = (One(~flow[j].dead) + NumIn(queue[Server(j)], j)
                             + One(cur[Server(j)].flow = j) + One(Marked(j)))'
  <2>1. CASE j = i
    <3>1. Server(i)' = t
      BY <1>1, <1>10, <2>1 DEF Server
    <3>2. Marked(i)' <=> \/ g.mark # NoMark
                         \/ cur'[t].flow = i /\ cur'[t].pc \in {"del", "drop"}
      BY <1>1, <3>1 DEF Marked
    <3> QED
      BY <1>1, <1>10, <2>1, <3>1, <3>2 DEF One
  <2>2. CASE j # i
    <3>1. flow'[j] = flow[j] /\ Server(j)' = Server(j) /\ Server(j) \in Thread
      BY <1>1, <1>3, <1>10, <2>2, OffloadAssumption DEF Sited, Server
    <3>2. NumIn(queue'[Server(j)], j) = NumIn(queue[Server(j)], j)
      BY <2>2, <3>1
    <3>3. cur'[Server(j)].flow = j <=> cur[Server(j)].flow = j
      BY <2>2, <3>1, FlowTypes
    <3>4. cur'[Server(j)].flow = j => cur'[Server(j)].pc = cur[Server(j)].pc
      BY <2>2, <3>1, FlowTypes
    <3>5. Marked(j)' <=> Marked(j)
      BY <3>1, <3>3, <3>4 DEF Marked
    <3>6. flow[j].ref = One(~flow[j].dead) + NumIn(queue[Server(j)], j)
                        + One(cur[Server(j)].flow = j) + One(Marked(j))
      BY <1>10, <3>1 DEF Counted
    <3>7. (One(~flow[j].dead) + NumIn(queue[Server(j)], j)
           + One(cur[Server(j)].flow = j) + One(Marked(j)))'
          = One(~flow[j].dead) + NumIn(queue[Server(j)], j)
            + One(cur[Server(j)].flow = j) + One(Marked(j))
      BY <3>1, <3>2, <3>3, <3>5 DEF One
    <3> QED
      BY <3>1, <3>6, <3>7
  <2> QED
    BY <2>1, <2>2
<1> QED
  BY <1>9, <1>10 DEF Counted

(* No flow is changed, and nobody asks for one or stops to.                *)
LEMMA RefKept ==
  ASSUME Typed, Sited, Counted, Typed', flow' = flow,
         \A u \in Thread :
           /\ cur'[u].flow = cur[u].flow
           /\ cur'[u].pc \in Busy <=> cur[u].pc \in Busy
           /\ cur'[u].pc \in {"del", "drop"} <=> cur[u].pc \in {"del", "drop"}
           /\ \A n \in 1 .. Len(queue'[u]) :
                \/ queue'[u][n].flow = 0
                \/ \E k \in 1 .. Len(queue[u]) : queue'[u][n] = queue[u][k]
           /\ \A j \in Ids : NumIn(queue'[u], j) = NumIn(queue[u], j)
  PROVE  Sited' /\ Counted'
<1>1. \A j \in Ids : Server(j)' = Server(j)
  BY DEF Server
<1>2. Sited'
  <2>1. ASSUME NEW u \in Thread, NEW j, Serves(u, j)
        PROVE  Serves(u, j)'
    BY <2>1 DEF Serves, Server
  <2>2. ASSUME NEW u \in Thread, NEW n \in 1 .. Len(queue'[u])
        PROVE  Serves(u, queue[u][n].flow)'
    <3>1. CASE queue'[u][n].flow = 0
      BY <3>1 DEF Serves
    <3>2. CASE \E k \in 1 .. Len(queue[u]) : queue'[u][n] = queue[u][k]
      <4>1. PICK k \in 1 .. Len(queue[u]) : queue'[u][n] = queue[u][k]
        BY <3>2
      <4>2. Serves(u, queue[u][k].flow)
        BY DEF Sited
      <4> QED
        BY <2>1, <4>1, <4>2
    <3> QED
      BY <3>1, <3>2
  <2>3. \A u \in Thread : Serves(u, cur[u].flow)'
    BY <2>1 DEF Sited
  <2>4. \A u \in Thread : cur'[u].flow # 0 <=> cur'[u].pc \in Busy
    BY DEF Sited
  <2>5. \A j \in Ids : IF flow'[j].used THEN flow'[j].mega \in Mega ELSE flow'[j] = NoFlow
    BY DEF Sited
  <2>6. \A j \in Ids : flow'[j].listed => ~flow'[j].dead
    BY DEF Sited
  <2> QED
    BY <2>2, <2>3, <2>4, <2>5, <2>6 DEF Sited
<1>3. ASSUME NEW j \in Ids, flow'[j].used
      PROVE  flow'[j].ref = (One(~flow[j].dead) + NumIn(queue[Server(j)], j)
                             + One(cur[Server(j)].flow = j) + One(Marked(j)))'
  <2>1. Server(j) \in Thread
    BY <1>3, OffloadAssumption DEF Sited, Server
  <2>2. Marked(j)' <=> Marked(j)
    BY <1>1, <2>1 DEF Marked
  <2>3. flow[j].ref = One(~flow[j].dead) + NumIn(queue[Server(j)], j)
                      + One(cur[Server(j)].flow = j) + One(Marked(j))
    BY <1>3 DEF Counted
  <2> QED
    BY <1>1, <2>1, <2>2, <2>3 DEF One
<1> QED
  BY <1>2, <1>3 DEF Counted

(* The flow of the request a thread takes.                                 *)
LEMMA HeadServed ==
  ASSUME Typed, Sited, NEW t \in Thread, NEW ops, Take(t, ops), "flush" \notin ops
  PROVE  /\ Head(queue[t]).flow \in Ids
         /\ flow[Head(queue[t]).flow] \in FlowType
         /\ flow[Head(queue[t]).flow].used /\ Server(Head(queue[t]).flow) = t
         /\ flow[Head(queue[t]).flow].mega \in Mega
         /\ ThreadOf[flow[Head(queue[t]).flow].mega] = t
         /\ cur[t].flow = 0 /\ cur[t].pc = "idle"
         /\ Head(queue[t]) \in Request
<1>1. Head(queue[t]) \in Request /\ Head(queue[t]).op # "flush"
  BY TakeType
<1>2. Head(queue[t]).flow \in Ids
  BY <1>1 DEF Request
<1>3. Head(queue[t]) = queue[t][1] /\ 1 \in 1 .. Len(queue[t])
  BY TakeType
<1>4. Serves(t, Head(queue[t]).flow)
  BY <1>3 DEF Sited
<1>5. cur[t].pc = "idle" /\ cur[t].flow = 0
  BY TakeType DEF Sited, Busy
<1> QED
  BY <1>1, <1>2, <1>4, <1>5, FlowTypes DEF Serves, Server, Sited, Typed

(* The flow a thread is at work on.                                        *)
LEMMA WorkServed ==
  ASSUME Typed, Sited, NEW t \in Thread, cur[t].pc \in Busy
  PROVE  /\ cur[t].flow \in Ids
         /\ Its(t) = flow[cur[t].flow] /\ Its(t) \in FlowType
         /\ Its(t).used /\ Server(cur[t].flow) = t
         /\ Its(t).mega \in Mega /\ ThreadOf[Its(t).mega] = t
         /\ cur[t] \in CurType
<1>1. cur[t] \in CurType /\ cur[t].flow # 0
  BY DEF Typed, Sited
<1>2. cur[t].flow \in Ids
  BY <1>1 DEF CurType
<1>3. Serves(t, cur[t].flow)
  BY DEF Sited
<1> QED
  BY <1>1, <1>2, <1>3 DEF Serves, Server, Sited, Typed, Its

(* A request is taken; its flow may get a mark.                            *)
LEMMA TakeRef ==
  ASSUME Typed, Sited, Counted, Typed', NEW t \in Thread, NEW ops, Take(t, ops),
         "flush" \notin ops, NEW i \in Ids, Head(queue[t]).flow = i, NEW g \in FlowType,
         flow' = [flow EXCEPT ![i] = g],
         \A u \in Thread \ {t} : cur'[u] = cur[u],
         cur'[t].flow = i, cur'[t].pc \in {"put", "dis", "done"},
         g.used, g.mega = flow[i].mega, g.dead = flow[i].dead, g.listed = flow[i].listed,
         g.ref = flow[i].ref + One(g.mark # NoMark) - One(flow[i].mark # NoMark)
  PROVE  Sited' /\ Counted'
<1>1. queue' = [queue EXCEPT ![t] = Tail(queue[t])] /\ queue[t] \in Seq(Request)
      /\ queue[t] # <<>> /\ queue \in [Thread -> Seq(Request)]
  BY TakeType DEF Typed
<1>2. \A j \in Ids : NumIn(queue'[t], j) = NumIn(queue[t], j) - One(i = j)
  BY <1>1, NumInTail
<1>3. \A j \in Ids : NumIn(queue[t], j) \in Nat
  BY <1>1, NumInNat
<1>4. flow[i].used /\ Server(i) = t /\ flow[i].mega \in Mega /\ ThreadOf[flow[i].mega] = t
      /\ cur[t].flow = 0 /\ flow[i] \in FlowType /\ cur[t].pc = "idle"
  BY HeadServed
<1>5. flow[i].ref = One(~flow[i].dead) + NumIn(queue[t], i) + One(flow[i].mark # NoMark)
  <2>1. Marked(i) <=> flow[i].mark # NoMark
    BY <1>4, FlowTypes DEF Marked
  <2>2. flow[i].ref = One(~flow[i].dead) + NumIn(queue[t], i) + One(FALSE) + One(Marked(i))
    BY <1>4, FlowTypes DEF Counted, One
  <2> QED
    BY <1>3, <2>1, <2>2 DEF One
<1>6. g.ref = One(~g.dead) + NumIn(queue'[t], i) + One(cur'[t].flow = i)
              + One(g.mark # NoMark \/ (cur'[t].flow = i /\ cur'[t].pc \in {"del", "drop"}))
  <2>1. NumIn(queue'[t], i) = NumIn(queue[t], i) - 1
    BY <1>2 DEF One
  <2>2. cur'[t].pc \notin {"del", "drop"}
    OBVIOUS
  <2> QED
    BY <1>3, <1>5, <2>1, <2>2 DEF One, FlowType
<1>7. \A n \in 1 .. Len(queue'[t]) : \E k \in 1 .. Len(queue[t]) : queue'[t][n] = queue[t][k]
  <2>1. \A n \in 1 .. Len(queue[t]) - 1 : n + 1 \in 1 .. Len(queue[t])
                                         /\ Tail(queue[t])[n] = queue[t][n + 1]
    BY <1>1
  <2> QED
    BY <1>1, <2>1
<1>8. \A u \in Thread \ {t} : queue'[u] = queue[u] /\ cur'[u] = cur[u]
  BY <1>1
<1>9. \A j \in Ids \ {i} : NumIn(queue'[t], j) = NumIn(queue[t], j)
  BY <1>2, <1>3 DEF One
<1>10. cur'[t].flow # 0 <=> cur'[t].pc \in Busy
  BY FlowTypes DEF Busy
<1>11. g.listed => ~g.dead
  BY DEF Sited
<1>12. cur[t].flow \in {0, i} /\ cur'[t].flow \in {0, i}
  BY <1>4
<1>13. g.mega \in Mega /\ ThreadOf[g.mega] = t
  BY <1>4
<1>14. flow[i].used => Server(i) = t
  BY <1>4
<1>15. Changes(t, i, g)
  BY <1>6, <1>7, <1>8, <1>9, <1>10, <1>11, <1>12, <1>13, <1>14 DEF Changes
<1> QED
  BY <1>15, RefStep

(* A thread goes on with its flow.                                         *)
LEMMA WorkRef ==
  ASSUME Typed, Sited, Counted, Typed', NEW t \in Thread, cur[t].pc \in Busy,
         NEW i \in Ids, cur[t].flow = i, NEW g \in FlowType,
         flow' = [flow EXCEPT ![i] = g], \A u \in Thread : queue'[u] = queue[u],
         \A u \in Thread \ {t} : cur'[u] = cur[u],
         cur'[t].flow = i, cur'[t].pc \in Busy,
         g.used, g.mega = flow[i].mega, g.dead = flow[i].dead, g.listed = flow[i].listed,
         g.ref = flow[i].ref + One(g.mark # NoMark \/ cur'[t].pc \in {"del", "drop"})
                 - One(flow[i].mark # NoMark \/ cur[t].pc \in {"del", "drop"})
  PROVE  Sited' /\ Counted'
<1>1. flow[i].used /\ Server(i) = t /\ flow[i].mega \in Mega /\ ThreadOf[flow[i].mega] = t
      /\ flow[i] \in FlowType
  BY WorkServed
<1>2. NumIn(queue[t], i) \in Nat
  BY NumInNat DEF Typed
<1>3. flow[i].ref = One(~flow[i].dead) + NumIn(queue[t], i) + 1
                    + One(flow[i].mark # NoMark \/ cur[t].pc \in {"del", "drop"})
  <2>1. Marked(i) <=> flow[i].mark # NoMark \/ cur[t].pc \in {"del", "drop"}
    BY <1>1 DEF Marked
  <2>2. flow[i].ref = One(~flow[i].dead) + NumIn(queue[t], i) + One(cur[t].flow = i)
                      + One(Marked(i))
    BY <1>1 DEF Counted
  <2> QED
    BY <1>2, <2>1, <2>2 DEF One
<1>4. g.ref = One(~g.dead) + NumIn(queue'[t], i) + One(cur'[t].flow = i)
              + One(g.mark # NoMark \/ (cur'[t].flow = i /\ cur'[t].pc \in {"del", "drop"}))
  BY <1>2, <1>3 DEF One
<1>5. cur'[t].flow # 0
  BY FlowTypes
<1>6. g.listed => ~g.dead
  BY DEF Sited
<1>7. \A n \in 1 .. Len(queue'[t]) : \E k \in 1 .. Len(queue[t]) : queue'[t][n] = queue[t][k]
  OBVIOUS
<1>8. \A u \in Thread \ {t} : queue'[u] = queue[u] /\ cur'[u] = cur[u]
  OBVIOUS
<1>9. \A j \in Ids \ {i} : NumIn(queue'[t], j) = NumIn(queue[t], j)
  OBVIOUS
<1>10. cur[t].flow \in {0, i} /\ cur'[t].flow \in {0, i}
  OBVIOUS
<1>11. g.mega \in Mega /\ ThreadOf[g.mega] = t
  BY <1>1
<1>12. cur'[t].flow # 0 <=> cur'[t].pc \in Busy
  BY <1>5
<1>13. Changes(t, i, g)
  BY <1>1, <1>4, <1>6, <1>7, <1>8, <1>9, <1>10, <1>11, <1>12 DEF Changes
<1> QED
  BY <1>13, RefStep

(* What a step of an offload thread does to the types.                     *)
LEMMA ThreadTyped ==
  ASSUME Typed, flow' \in [Ids -> FlowType], queue' \in [Thread -> Seq(Request)],
         cur' \in [Thread -> CurType], byMega' \in [Mega -> MarkOrNone],
         hw' \in [Mega -> MarkOrNone], pool' \in SUBSET Mark, UNCHANGED portVars
  PROVE  Typed'
BY DEF Typed, portVars

LEMMA SameFlow ==
  ASSUME Typed, NEW i \in Ids
  PROVE  flow = [flow EXCEPT ![i] = flow[i]] /\ flow[i] \in FlowType
BY DEF Typed

(* Requests that change nothing but who looks at them.                     *)
LEMMA TakeOnly ==
  ASSUME Typed, Sited, Counted, NEW t \in Thread, NEW ops, Take(t, ops), "flush" \notin ops,
         NEW step \in {"put", "dis", "done"}, NEW mark \in MarkOrNone, NEW mod \in BOOLEAN,
         Serve(t, step, mark, mod), pool' \in SUBSET Mark,
         UNCHANGED <<flow, byMega, hw, portVars>>
  PROVE  Typed' /\ Sited' /\ Counted'
<1>1. /\ cur' \in [Thread -> CurType] /\ cur'[t].pc = step
      /\ cur'[t].flow = Head(queue[t]).flow /\ \A u \in Thread \ {t} : cur'[u] = cur[u]
  BY HeadServed, ServeType DEF Busy
<1>2. queue' \in [Thread -> Seq(Request)]
  BY TakeType
<1>3. Typed'
  BY <1>1, <1>2, ThreadTyped DEF Typed
<1> DEFINE i == Head(queue[t]).flow
<1>4. i \in Ids /\ flow[i].used /\ flow[i] \in FlowType
  BY HeadServed
<1>5. flow' = [flow EXCEPT ![i] = flow[i]]
  BY <1>4, SameFlow
<1>6. flow[i].ref = flow[i].ref + One(flow[i].mark # NoMark) - One(flow[i].mark # NoMark)
  BY <1>4 DEF One, FlowType
<1> HIDE DEF i
<1>7. Sited' /\ Counted'
  BY <1>1, <1>3, <1>4, <1>5, <1>6, TakeRef DEF i
<1> QED
  BY <1>3, <1>7

LEMMA RefFields ==
  ASSUME NEW f \in FlowType
  PROVE  /\ Ref(f) \in FlowType
         /\ Ref(f).used = f.used /\ Ref(f).mega = f.mega /\ Ref(f).dead = f.dead
         /\ Ref(f).listed = f.listed /\ Ref(f).mark = f.mark /\ Ref(f).ref = f.ref + 1
BY DEF FlowType, Ref

LEMMA PutSharedRef ==
  ASSUME Typed, Sited, Counted, NEW t \in Thread, PutShared(t)
  PROVE  Typed' /\ Sited' /\ Counted'
<1>1. Take(t, {"add", "mod"}) /\ Serve(t, "done", NoMark, FALSE)
  BY DEF PutShared
<1> DEFINE i == Head(queue[t]).flow
           g == IF flow[i].mark # NoMark THEN flow[i]
                ELSE [Ref(flow[i]) EXCEPT !.mark = byMega[flow[i].mega]]
<1>2. i \in Ids /\ flow[i].used /\ flow[i] \in FlowType /\ flow[i].mega \in Mega
  BY <1>1, HeadServed
<1>3. byMega[flow[i].mega] \in MarkOrNone /\ byMega[flow[i].mega] # NoMark
  BY <1>2 DEF PutShared, Typed
<1>4. flow' = [flow EXCEPT ![i] = g]
  BY <1>2, SameFlow DEF PutShared
<1>5. /\ g \in FlowType /\ g.used /\ g.mega = flow[i].mega /\ g.dead = flow[i].dead
      /\ g.listed = flow[i].listed
      /\ g.ref = flow[i].ref + One(g.mark # NoMark) - One(flow[i].mark # NoMark)
  <2>1. CASE flow[i].mark # NoMark
    <3>1. g = flow[i]
      BY <2>1
    <3> HIDE DEF i, g
    <3>2. flow[i].ref \in Int
      BY <1>2 DEF FlowType
    <3>3. g.ref = flow[i].ref + One(g.mark # NoMark) - One(flow[i].mark # NoMark)
      BY <3>1, <3>2 DEF One
    <3> QED
      BY <1>2, <3>1, <3>3
  <2>2. CASE flow[i].mark = NoMark
    <3>1. g = [Ref(flow[i]) EXCEPT !.mark = byMega[flow[i].mega]]
      BY <2>2
    <3>2. /\ Ref(flow[i]) \in FlowType /\ Ref(flow[i]).used
          /\ Ref(flow[i]).mega = flow[i].mega /\ Ref(flow[i]).dead = flow[i].dead
          /\ Ref(flow[i]).listed = flow[i].listed /\ Ref(flow[i]).ref = flow[i].ref + 1
      BY <1>2, RefFields
    <3> HIDE DEF i
    <3>3. /\ g \in FlowType /\ g.used /\ g.mega = flow[i].mega /\ g.dead = flow[i].dead
          /\ g.listed = flow[i].listed /\ g.mark # NoMark /\ g.ref = flow[i].ref + 1
      BY <1>3, <3>1, <3>2 DEF FlowType
    <3> QED
      BY <1>2, <2>2, <3>3 DEF FlowType, One
  <2> QED
    BY <2>1, <2>2
<1>6. /\ cur' \in [Thread -> CurType] /\ cur'[t].pc = "done"
      /\ cur'[t].flow = i /\ \A u \in Thread \ {t} : cur'[u] = cur[u]
  BY <1>1, HeadServed, ServeType, FlowTypes DEF Busy
<1> HIDE DEF g
<1>7. Typed'
  <2>1. flow' \in [Ids -> FlowType]
    BY <1>2, <1>4, <1>5 DEF Typed
  <2>2. queue' \in [Thread -> Seq(Request)]
    BY <1>1, TakeType
  <2> QED
    BY <1>6, <2>1, <2>2, ThreadTyped DEF PutShared, Typed
<1>8. Head(queue[t]).flow = i
  OBVIOUS
<1> HIDE DEF i
<1>9. Sited' /\ Counted'
  BY <1>1, <1>2, <1>4, <1>5, <1>6, <1>7, <1>8, TakeRef
<1> QED
  BY <1>7, <1>9

(* After a step of thread t at work on its flow: where the thread is, the  *)
(* mark it has in hand, and the mark the flow has.                         *)
Worked(t, step, mark, k) ==
  /\ cur'[t].pc = step /\ cur'[t].mark = mark /\ cur'[t].mod = cur[t].mod
  /\ cur'[t].flow = cur[t].flow
  /\ \A u \in Thread \ {t} : cur'[u] = cur[u]
  /\ flow'[cur[t].flow].mark = k /\ flow'[cur[t].flow].mega = Its(t).mega
  /\ \A j \in Ids \ {cur[t].flow} : flow'[j] = flow[j]

(* A thread at work: flow, cur and what else may change.                   *)
LEMMA WorkStep ==
  ASSUME Typed, Sited, Counted, NEW t \in Thread, cur[t].pc \in Busy,
         NEW step \in Busy, NEW mark \in MarkOrNone, NEW g \in FlowType,
         cur' = [cur EXCEPT ![t] = [cur[t] EXCEPT !.pc = step, !.mark = mark]],
         flow' = [flow EXCEPT ![cur[t].flow] = g], queue' = queue,
         byMega' \in [Mega -> MarkOrNone], hw' \in [Mega -> MarkOrNone],
         pool' \in SUBSET Mark, UNCHANGED portVars,
         g.used, g.mega = Its(t).mega, g.dead = Its(t).dead, g.listed = Its(t).listed,
         g.ref = Its(t).ref + One(g.mark # NoMark \/ step \in {"del", "drop"})
                 - One(Its(t).mark # NoMark \/ cur[t].pc \in {"del", "drop"})
  PROVE  Typed' /\ Sited' /\ Counted' /\ Worked(t, step, mark, g.mark)
<1> DEFINE i == cur[t].flow
<1>1. i \in Ids /\ Its(t) = flow[i] /\ cur[t] \in CurType
  BY WorkServed
<1>2. /\ cur' \in [Thread -> CurType] /\ cur'[t].pc = step /\ cur'[t].mark = mark
      /\ cur'[t].mod = cur[t].mod /\ cur'[t].flow = i
      /\ \A u \in Thread \ {t} : cur'[u] = cur[u]
  <2> DEFINE c == [cur[t] EXCEPT !.pc = step, !.mark = mark]
  <2>1. c \in CurType /\ c.pc = step /\ c.mark = mark /\ c.mod = cur[t].mod /\ c.flow = i
    BY <1>1 DEF CurType
  <2> HIDE DEF c
  <2>2. cur' = [cur EXCEPT ![t] = c] /\ cur \in [Thread -> CurType]
    BY DEF Typed, c
  <2> QED
    BY <2>1, <2>2
<1>3. flow' \in [Ids -> FlowType] /\ flow'[i] = g /\ \A j \in Ids \ {i} : flow'[j] = flow[j]
  BY <1>1 DEF Typed
<1>4. Typed'
  BY <1>2, <1>3, ThreadTyped DEF Typed
<1>5. flow' = [flow EXCEPT ![i] = g] /\ cur[t].flow = i
  OBVIOUS
<1>6. \A u \in Thread : queue'[u] = queue[u]
  OBVIOUS
<1>7. /\ g.mega = flow[i].mega /\ g.dead = flow[i].dead /\ g.listed = flow[i].listed
      /\ g.ref = flow[i].ref + One(g.mark # NoMark \/ cur'[t].pc \in {"del", "drop"})
                 - One(flow[i].mark # NoMark \/ cur[t].pc \in {"del", "drop"})
  BY <1>1, <1>2
<1>8. cur'[t].pc \in Busy
  BY <1>2
<1> HIDE DEF i
<1>9. Sited' /\ Counted'
  BY <1>1, <1>2, <1>4, <1>5, <1>6, <1>7, <1>8, WorkRef
<1> QED
  BY <1>2, <1>3, <1>4, <1>9 DEF i, Worked

LEMMA UnrefMore ==
  ASSUME NEW f \in FlowType, f.ref # 1
  PROVE  Unref(f) \in FlowType /\ Unref(f) = [f EXCEPT !.ref = f.ref - 1]
BY DEF Unref, FlowType

(* While a thread is at work on a flow it holds a reference.               *)
LEMMA WorkCount ==
  ASSUME Typed, Sited, Counted, NEW t \in Thread, cur[t].pc \in Busy
  PROVE  /\ NumIn(queue[t], cur[t].flow) \in Nat
         /\ Its(t).ref = One(~Its(t).dead) + NumIn(queue[t], cur[t].flow) + 1
                         + One(Its(t).mark # NoMark \/ cur[t].pc \in {"del", "drop"})
<1> DEFINE i == cur[t].flow
<1>1. i \in Ids /\ flow[i].used /\ Server(i) = t /\ Its(t) = flow[i]
  BY WorkServed
<1>2. NumIn(queue[t], i) \in Nat
  BY NumInNat DEF Typed
<1>3. Marked(i) <=> flow[i].mark # NoMark \/ cur[t].pc \in {"del", "drop"}
  BY <1>1 DEF Marked
<1>4. flow[i].ref = One(~flow[i].dead) + NumIn(queue[t], i) + One(cur[t].flow = i)
                    + One(Marked(i))
  BY <1>1 DEF Counted
<1> QED
  BY <1>1, <1>2, <1>3, <1>4 DEF One

LEMMA CurSame ==
  ASSUME Typed, NEW t \in Thread, NEW step
  PROVE  /\ [cur EXCEPT ![t].pc = step]
            = [cur EXCEPT ![t] = [cur[t] EXCEPT !.pc = step, !.mark = cur[t].mark]]
         /\ cur[t].mark \in MarkOrNone
BY DEF Typed, CurType

LEMMA PutDoneStep ==
  ASSUME Typed, Sited, Counted, MarksAgree, NEW t \in Thread, PutDone(t)
  PROVE  /\ Typed' /\ Sited' /\ Counted'
         /\ Worked(t, "done", cur[t].mark, IF cur[t].mod THEN Its(t).mark ELSE cur[t].mark)
<1>1. cur[t].pc = "put" /\ cur[t].pc \in Busy /\ "done" \in Busy
  BY DEF PutDone, At, Busy
<1>2. /\ cur[t].flow \in Ids /\ Its(t) = flow[cur[t].flow] /\ Its(t) \in FlowType
      /\ Its(t).used /\ Its(t).mega \in Mega
  BY <1>1, WorkServed
<1>3. /\ cur' = [cur EXCEPT ![t] = [cur[t] EXCEPT !.pc = "done", !.mark = cur[t].mark]]
      /\ cur[t].mark \in MarkOrNone
  BY CurSame DEF PutDone, Goto
<1>4. hw' \in [Mega -> MarkOrNone]
  BY <1>2, <1>3 DEF PutDone, Typed
<1>5. CASE cur[t].mod
  <2>1. flow' = [flow EXCEPT ![cur[t].flow] = Its(t)] /\ byMega' = byMega
    BY <1>2, <1>5, SameFlow DEF PutDone
  <2>2. Its(t).ref = Its(t).ref + One(Its(t).mark # NoMark \/ "done" \in {"del", "drop"})
                     - One(Its(t).mark # NoMark \/ cur[t].pc \in {"del", "drop"})
    BY <1>1, <1>2 DEF One, FlowType
  <2>3. byMega' \in [Mega -> MarkOrNone] /\ pool' \in SUBSET Mark /\ queue' = queue
        /\ UNCHANGED portVars
    BY <2>1 DEF PutDone, Typed
  <2>4. Typed' /\ Sited' /\ Counted' /\ Worked(t, "done", cur[t].mark, Its(t).mark)
    BY <1>1, <1>2, <1>3, <1>4, <2>1, <2>2, <2>3, WorkStep
  <2> QED
    BY <1>5, <2>4
<1>6. CASE ~cur[t].mod
  <2> DEFINE g == [Ref(Its(t)) EXCEPT !.mark = cur[t].mark]
  <2>1. Its(t).mark = NoMark /\ cur[t].mark # NoMark
    BY <1>1, <1>2, <1>6 DEF MarksAgree, At
  <2>2. flow' = [flow EXCEPT ![cur[t].flow] = g]
        /\ byMega' = [byMega EXCEPT ![Its(t).mega] = cur[t].mark]
    BY <1>2, <1>6 DEF PutDone
  <2>3. /\ g \in FlowType /\ g.used /\ g.mega = Its(t).mega /\ g.dead = Its(t).dead
        /\ g.listed = Its(t).listed /\ g.mark = cur[t].mark /\ g.ref = Its(t).ref + 1
    <3>1. /\ Ref(Its(t)) \in FlowType /\ Ref(Its(t)).used
          /\ Ref(Its(t)).mega = Its(t).mega /\ Ref(Its(t)).dead = Its(t).dead
          /\ Ref(Its(t)).listed = Its(t).listed /\ Ref(Its(t)).ref = Its(t).ref + 1
      BY <1>2, RefFields
    <3> QED
      BY <1>3, <3>1 DEF FlowType
  <2> HIDE DEF g
  <2>4. g.ref = Its(t).ref + One(g.mark # NoMark \/ "done" \in {"del", "drop"})
                - One(Its(t).mark # NoMark \/ cur[t].pc \in {"del", "drop"})
    BY <1>1, <1>2, <2>1, <2>3 DEF One, FlowType
  <2>5. byMega' \in [Mega -> MarkOrNone] /\ pool' \in SUBSET Mark /\ queue' = queue
        /\ UNCHANGED portVars
    BY <1>3, <2>2 DEF PutDone, Typed
  <2>6. Typed' /\ Sited' /\ Counted' /\ Worked(t, "done", cur[t].mark, g.mark)
    BY <1>1, <1>2, <1>3, <1>4, <2>2, <2>3, <2>4, <2>5, WorkStep
  <2> QED
    BY <1>6, <2>3, <2>6
<1> QED
  BY <1>5, <1>6

(* Steps that leave the flow as it is.                                     *)
LEMMA WorkOnly ==
  ASSUME Typed, Sited, Counted, NEW t \in Thread, cur[t].pc \in {"put", "dis"},
         NEW step \in {"dis", "done"}, Goto(t, step), UNCHANGED <<flow, queue, portVars>>,
         byMega' \in [Mega -> MarkOrNone], hw' \in [Mega -> MarkOrNone],
         pool' \in SUBSET Mark
  PROVE  Typed' /\ Sited' /\ Counted' /\ Worked(t, step, cur[t].mark, Its(t).mark)
<1>1. cur[t].pc \in Busy /\ step \in Busy
  BY DEF Busy
<1>2. /\ cur[t].flow \in Ids /\ Its(t) = flow[cur[t].flow] /\ Its(t) \in FlowType
      /\ Its(t).used
  BY <1>1, WorkServed
<1>3. /\ cur' = [cur EXCEPT ![t] = [cur[t] EXCEPT !.pc = step, !.mark = cur[t].mark]]
      /\ cur[t].mark \in MarkOrNone
  BY CurSame DEF Goto
<1>4. flow' = [flow EXCEPT ![cur[t].flow] = Its(t)]
  BY <1>2, SameFlow
<1>5. Its(t).ref = Its(t).ref + One(Its(t).mark # NoMark \/ step \in {"del", "drop"})
                   - One(Its(t).mark # NoMark \/ cur[t].pc \in {"del", "drop"})
  BY <1>2 DEF One, FlowType
<1>6. queue' = queue /\ UNCHANGED portVars
  OBVIOUS
<1> QED
  BY <1>1, <1>2, <1>3, <1>4, <1>5, <1>6, WorkStep

LEMMA DisSharedStep ==
  ASSUME Typed, Sited, Counted, NEW t \in Thread, DisShared(t)
  PROVE  Typed' /\ Sited' /\ Counted' /\ Worked(t, "done", cur[t].mark, NoMark)
<1>1. cur[t].pc = "dis" /\ cur[t].pc \in Busy /\ "done" \in Busy
  BY DEF DisShared, At, Busy
<1>2. /\ cur[t].flow \in Ids /\ Its(t) = flow[cur[t].flow] /\ Its(t) \in FlowType
      /\ Its(t).used /\ Its(t).mark # NoMark
  BY <1>1, WorkServed DEF DisShared
<1>3. /\ cur' = [cur EXCEPT ![t] = [cur[t] EXCEPT !.pc = "done", !.mark = cur[t].mark]]
      /\ cur[t].mark \in MarkOrNone
  BY CurSame DEF DisShared, Goto
<1> DEFINE f == [Its(t) EXCEPT !.mark = NoMark]
           g == Unref(f)
<1>4. f \in FlowType /\ f.ref = Its(t).ref /\ f.ref # 1 /\ f.mark = NoMark /\ f.used
      /\ f.mega = Its(t).mega /\ f.dead = Its(t).dead /\ f.listed = Its(t).listed
  <2>1. Its(t).ref # 1
    BY <1>1, <1>2, WorkCount DEF One
  <2> QED
    BY <1>2, <2>1, FlowTypes DEF FlowType
<1>5. flow' = [flow EXCEPT ![cur[t].flow] = g]
  BY <1>2 DEF DisShared
<1> HIDE DEF f
<1>6. /\ g \in FlowType /\ g.used /\ g.mega = Its(t).mega /\ g.dead = Its(t).dead
      /\ g.listed = Its(t).listed /\ g.mark = NoMark /\ g.ref = Its(t).ref - 1
  <2>1. g = [f EXCEPT !.ref = f.ref - 1] /\ g \in FlowType
    BY <1>4, UnrefMore
  <2> HIDE DEF g
  <2> QED
    BY <1>4, <2>1 DEF FlowType
<1> HIDE DEF g
<1>7. g.ref = Its(t).ref + One(g.mark # NoMark \/ "done" \in {"del", "drop"})
              - One(Its(t).mark # NoMark \/ cur[t].pc \in {"del", "drop"})
  BY <1>2, <1>6 DEF One, FlowType
<1>8. /\ byMega' \in [Mega -> MarkOrNone] /\ hw' \in [Mega -> MarkOrNone]
      /\ pool' \in SUBSET Mark /\ queue' = queue /\ UNCHANGED portVars
  BY DEF DisShared, Typed
<1> QED
  BY <1>1, <1>2, <1>3, <1>5, <1>6, <1>7, <1>8, WorkStep

LEMMA DisLastStep ==
  ASSUME Typed, Sited, Counted, NEW t \in Thread, DisLast(t)
  PROVE  /\ Typed' /\ Sited' /\ Counted'
         /\ \E step \in {"del", "drop"} :
              /\ Worked(t, step, Its(t).mark, NoMark)
              /\ step = "drop" => InPort[Its(t).mega] \notin mapped
<1>1. cur[t].pc = "dis" /\ cur[t].pc \in Busy
  BY DEF DisLast, At, Busy
<1>2. /\ cur[t].flow \in Ids /\ Its(t) = flow[cur[t].flow] /\ Its(t) \in FlowType
      /\ Its(t).used /\ Its(t).mark # NoMark /\ Its(t).mark \in MarkOrNone
  BY <1>1, WorkServed DEF DisLast, FlowType
<1> DEFINE step == IF InPort[Its(t).mega] \in mapped THEN "del" ELSE "drop"
           g == [Its(t) EXCEPT !.mark = NoMark]
<1>3. cur' = [cur EXCEPT ![t] = [cur[t] EXCEPT !.pc = step, !.mark = Its(t).mark]]
  BY DEF DisLast, Typed, CurType
<1>4. /\ g \in FlowType /\ g.used /\ g.mega = Its(t).mega /\ g.dead = Its(t).dead
      /\ g.listed = Its(t).listed /\ g.mark = NoMark /\ g.ref = Its(t).ref
  BY <1>2, FlowTypes DEF FlowType
<1>5. flow' = [flow EXCEPT ![cur[t].flow] = g]
  BY <1>2 DEF DisLast, Typed
<1>6. step \in {"del", "drop"} /\ step \in Busy
      /\ (step = "drop" => InPort[Its(t).mega] \notin mapped)
  BY DEF Busy
<1> HIDE DEF step, g
<1>7. g.ref = Its(t).ref + One(g.mark # NoMark \/ step \in {"del", "drop"})
              - One(Its(t).mark # NoMark \/ cur[t].pc \in {"del", "drop"})
  BY <1>2, <1>4, <1>6 DEF One, FlowType
<1>8. /\ byMega' \in [Mega -> MarkOrNone] /\ hw' \in [Mega -> MarkOrNone]
      /\ pool' \in SUBSET Mark /\ queue' = queue /\ UNCHANGED portVars
  BY DEF DisLast, Typed
<1>9. Typed' /\ Sited' /\ Counted' /\ Worked(t, step, Its(t).mark, g.mark)
  BY <1>1, <1>2, <1>3, <1>4, <1>5, <1>6, <1>7, <1>8, WorkStep
<1> QED
  BY <1>4, <1>6, <1>9

(* HwDel and DropMark.                                                     *)
LEMMA GiveUpStep ==
  ASSUME Typed, Sited, Counted, MarksAgree, NEW t \in Thread, cur[t].pc \in {"del", "drop"},
         GiveUpMark(t), hw' \in [Mega -> MarkOrNone], UNCHANGED <<queue, portVars>>
  PROVE  Typed' /\ Sited' /\ Counted' /\ Worked(t, "done", cur[t].mark, NoMark)
<1>1. cur[t].pc \in Busy /\ "done" \in Busy
  BY DEF Busy
<1>2. /\ cur[t].flow \in Ids /\ Its(t) = flow[cur[t].flow] /\ Its(t) \in FlowType
      /\ Its(t).used /\ Its(t).mega \in Mega
  BY <1>1, WorkServed
<1>3. /\ cur' = [cur EXCEPT ![t] = [cur[t] EXCEPT !.pc = "done", !.mark = cur[t].mark]]
      /\ cur[t].mark \in MarkOrNone
  BY CurSame DEF GiveUpMark, Goto
<1>4. Its(t).mark = NoMark /\ cur[t].mark \in Mark
  BY <1>2, <1>3 DEF MarksAgree, MarkOrNone
<1> DEFINE g == Unref(Its(t))
<1>5. flow' = [flow EXCEPT ![cur[t].flow] = g]
  BY <1>2 DEF GiveUpMark
<1>6. /\ g \in FlowType /\ g.used /\ g.mega = Its(t).mega /\ g.dead = Its(t).dead
      /\ g.listed = Its(t).listed /\ g.mark = NoMark /\ g.ref = Its(t).ref - 1
  <2>1. Its(t).ref # 1
    BY <1>1, WorkCount DEF One
  <2>2. g = [Its(t) EXCEPT !.ref = Its(t).ref - 1] /\ g \in FlowType
    BY <1>2, <2>1, UnrefMore
  <2> HIDE DEF g
  <2> QED
    BY <1>2, <1>4, <2>2 DEF FlowType
<1> HIDE DEF g
<1>7. g.ref = Its(t).ref + One(g.mark # NoMark \/ "done" \in {"del", "drop"})
              - One(Its(t).mark # NoMark \/ cur[t].pc \in {"del", "drop"})
  BY <1>2, <1>4, <1>6 DEF One, FlowType
<1>8. /\ byMega' \in [Mega -> MarkOrNone] /\ pool' \in SUBSET Mark
      /\ queue' = queue /\ UNCHANGED portVars
  BY <1>4, FlowTypes DEF GiveUpMark, Typed
<1> QED
  BY <1>1, <1>2, <1>3, <1>5, <1>6, <1>7, <1>8, WorkStep

LEMMA DoneStep ==
  ASSUME Typed, Sited, Counted, NEW t \in Thread, Done(t)
  PROVE  /\ Typed' /\ Sited' /\ Counted'
         /\ cur[t].flow \in Ids
         /\ cur'[t] = Idle /\ \A u \in Thread \ {t} : cur'[u] = cur[u]
         /\ flow'[cur[t].flow].mark = Its(t).mark
         /\ \/ flow'[cur[t].flow].mega = Its(t).mega
            \/ flow'[cur[t].flow].mega = 0 /\ Its(t).mark = NoMark
         /\ \A j \in Ids \ {cur[t].flow} : flow'[j] = flow[j]
<1> DEFINE i == cur[t].flow
           g == Unref(flow[i])
<1>1. cur[t].pc = "done" /\ cur[t].pc \in Busy
  BY DEF Done, At, Busy
<1>2. /\ i \in Ids /\ Its(t) = flow[i] /\ flow[i] \in FlowType
      /\ flow[i].used /\ flow[i].mega \in Mega /\ Server(i) = t /\ ThreadOf[flow[i].mega] = t
      /\ cur[t] \in CurType
  BY <1>1, WorkServed
<1>3. cur' \in [Thread -> CurType] /\ cur'[t] = Idle
      /\ (\A u \in Thread \ {t} : cur'[u] = cur[u])
      /\ Idle.flow = 0 /\ Idle.pc = "idle"
  BY FlowTypes DEF Done, Typed, Idle
<1>4. flow' = [flow EXCEPT ![i] = g] /\ g \in FlowType /\ queue' = queue
  BY <1>2, FlowTypes DEF Done
<1>5. Typed'
  BY <1>2, <1>3, <1>4, ThreadTyped DEF Done, Typed
<1>6. /\ NumIn(queue[t], i) \in Nat
      /\ flow[i].ref = One(~flow[i].dead) + NumIn(queue[t], i) + 1 + One(flow[i].mark # NoMark)
  <2>1. /\ NumIn(queue[t], i) \in Nat
        /\ Its(t).ref = One(~Its(t).dead) + NumIn(queue[t], i) + 1
                        + One(Its(t).mark # NoMark \/ cur[t].pc \in {"del", "drop"})
    BY <1>1, WorkCount
  <2> QED
    BY <1>1, <1>2, <2>1 DEF One
<1>7. /\ IF g.used
         THEN /\ g.mega = flow[i].mega /\ g.dead = flow[i].dead /\ g.listed = flow[i].listed
              /\ g.ref = One(~g.dead) + NumIn(queue'[t], i) + One(cur'[t].flow = i)
                         + One(\/ g.mark # NoMark
                               \/ cur'[t].flow = i /\ cur'[t].pc \in {"del", "drop"})
         ELSE g = NoFlow /\ NumIn(queue'[t], i) = 0 /\ cur'[t].flow # i
      /\ g.mark = flow[i].mark
      /\ \/ g.mega = flow[i].mega
         \/ g.mega = 0 /\ flow[i].mark = NoMark
      /\ g.listed => ~g.dead
  <2>1. CASE flow[i].ref = 1
    <3>1. g = NoFlow /\ NumIn(queue[t], i) = 0 /\ flow[i].mark = NoMark
      BY <1>2, <1>6, <2>1 DEF Unref, One
    <3>2. ~g.used /\ ~g.listed /\ g.mark = NoMark /\ g.mega = 0
      BY <3>1 DEF NoFlow
    <3> HIDE DEF g
    <3> QED
      BY <1>2, <1>3, <1>4, <3>1, <3>2, FlowTypes
  <2>2. CASE flow[i].ref # 1
    <3>1. g = [flow[i] EXCEPT !.ref = flow[i].ref - 1]
      BY <1>2, <2>2, UnrefMore
    <3> HIDE DEF g
    <3>2. /\ g.used /\ g.mega = flow[i].mega /\ g.dead = flow[i].dead
          /\ g.listed = flow[i].listed /\ g.mark = flow[i].mark /\ g.ref = flow[i].ref - 1
      BY <1>2, <3>1 DEF FlowType
    <3>3. g.ref = One(~g.dead) + NumIn(queue'[t], i) + One(cur'[t].flow = i)
                  + One(\/ g.mark # NoMark
                        \/ cur'[t].flow = i /\ cur'[t].pc \in {"del", "drop"})
      BY <1>2, <1>3, <1>4, <1>6, <3>2, FlowTypes DEF One
    <3>4. g.listed => ~g.dead
      BY <1>2, <3>2 DEF Sited
    <3> QED
      BY <3>2, <3>3, <3>4
  <2> QED
    BY <2>1, <2>2
<1> HIDE DEF g
<1>8. \A n \in 1 .. Len(queue'[t]) : \E k \in 1 .. Len(queue[t]) : queue'[t][n] = queue[t][k]
  BY <1>4
<1>9. Changes(t, i, g)
  BY <1>2, <1>3, <1>4, <1>7, <1>8 DEF Changes, Busy
<1>10. Sited' /\ Counted'
  BY <1>2, <1>4, <1>5, <1>9, RefStep
<1> QED
  BY <1>2, <1>3, <1>4, <1>5, <1>7, <1>10 DEF Typed

-----------------------------------------------------------------------------
(* Those who add, modify and remove flows.                                 *)

(* A request about flow i is put in the queue of thread t.                 *)
Asks(t, i) ==
  \E op \in {"add", "mod", "del"} :
    queue' = [queue EXCEPT ![t] = Append(queue[t], [op |-> op, flow |-> i])]

LEMMA AskStep ==
  ASSUME Typed, NEW t \in Thread, NEW i \in Ids, Asks(t, i)
  PROVE  /\ queue' \in [Thread -> Seq(Request)]
         /\ \A u \in Thread \ {t} : queue'[u] = queue[u]
         /\ \A n \in 1 .. Len(queue'[t]) :
              \/ queue'[t][n].flow = i
              \/ \E k \in 1 .. Len(queue[t]) : queue'[t][n] = queue[t][k]
         /\ \A j \in Ids \ {i} : NumIn(queue'[t], j) = NumIn(queue[t], j)
         /\ NumIn(queue'[t], i) = NumIn(queue[t], i) + 1 /\ NumIn(queue[t], i) \in Nat
<1>1. PICK op \in {"add", "mod", "del"} :
        queue' = [queue EXCEPT ![t] = Append(queue[t], [op |-> op, flow |-> i])]
  BY DEF Asks
<1> DEFINE r == [op |-> op, flow |-> i]
<1>2. r \in Request /\ r.flow = i
  BY DEF Request
<1> HIDE DEF r
<1>3. queue[t] \in Seq(Request) /\ queue \in [Thread -> Seq(Request)]
  BY DEF Typed
<1>4. queue' = [queue EXCEPT ![t] = Append(queue[t], r)]
  BY <1>1 DEF r
<1>5. queue'[t] = Append(queue[t], r) /\ queue'[t] \in Seq(Request)
  BY <1>2, <1>3, <1>4
<1>6. ASSUME NEW j \in Ids
      PROVE  NumIn(queue'[t], j) = NumIn(queue[t], j) + One(i = j) /\ NumIn(queue[t], j) \in Nat
  <2>1. NumIn(Append(queue[t], r), j) = NumIn(queue[t], j) + One(r.flow = j)
    BY <1>2, <1>3, NumInAppend
  <2>2. NumIn(queue[t], j) \in Nat
    BY <1>3, NumInNat
  <2> QED
    BY <1>2, <1>5, <2>1, <2>2
<1>7. \A n \in 1 .. Len(queue'[t]) :
        \/ queue'[t][n].flow = i
        \/ \E k \in 1 .. Len(queue[t]) : queue'[t][n] = queue[t][k]
  BY <1>2, <1>3, <1>5
<1>8. \A j \in Ids \ {i} : NumIn(queue'[t], j) = NumIn(queue[t], j)
  BY <1>6 DEF One
<1>9. NumIn(queue'[t], i) = NumIn(queue[t], i) + 1 /\ NumIn(queue[t], i) \in Nat
  BY <1>6 DEF One
<1>10. queue' \in [Thread -> Seq(Request)] /\ \A u \in Thread \ {t} : queue'[u] = queue[u]
  BY <1>3, <1>4, <1>5
<1> QED
  BY <1>7, <1>8, <1>9, <1>10

(* The flows keep their marks, and used flows their megaflows.             *)
FlowsKept ==
  \A j \in Ids : /\ flow'[j].mark = flow[j].mark
                 /\ flow[j].used /\ flow'[j].used => flow'[j].mega = flow[j].mega

(* What nobody refers to is in no queue and in no hand.                    *)
LEMMA Unreferred ==
  ASSUME Typed, Sited, NEW i \in Ids, ~flow[i].used, NEW t \in Thread
  PROVE  NumIn(queue[t], i) = 0 /\ cur[t].flow # i /\ flow[i] = NoFlow
<1>1. ~Serves(t, i)
  BY FlowTypes DEF Serves
<1>2. \A n \in 1 .. Len(queue[t]) : queue[t][n].flow # i
  BY <1>1 DEF Sited
<1>3. queue[t] \in Seq(Request)
  BY DEF Typed
<1> QED
  BY <1>1, <1>2, <1>3, NumInNat DEF Sited

LEMMA AddFlowStep ==
  ASSUME Typed, Sited, Counted, NEW p \in Pmd, NEW m \in Mega, AddFlow(p, m)
  PROVE  Typed' /\ Sited' /\ Counted' /\ FlowsKept
<1> DEFINE t == ThreadOf[m]
           g == [NoFlow EXCEPT !.used = TRUE, !.pmd = p, !.mega = m, !.listed = TRUE, !.ref = 2]
<1>1. t \in Thread
  BY OffloadAssumption
<1>2. PICK i \in Ids :
        /\ ~flow[i].used
        /\ flow' = [flow EXCEPT ![i] = g]
        /\ queue' = [queue EXCEPT ![t] = Append(@, [op |-> "add", flow |-> i])]
  BY DEF AddFlow
<1>3. Asks(t, i)
  BY <1>2 DEF Asks, Typed
<1>4. g \in FlowType /\ g.used /\ g.mega = m /\ ~g.dead /\ g.mark = NoMark /\ g.ref = 2
  <2>1. NoFlow \in FlowType /\ ~NoFlow.dead /\ NoFlow.mark = NoMark
    BY FlowTypes DEF NoFlow
  <2>2. p \in Pmd \cup {0} /\ m \in Mega \cup {0} /\ 2 \in Int
    OBVIOUS
  <2> DEFINE h == [NoFlow EXCEPT !.used = TRUE, !.pmd = p]
             k == [h EXCEPT !.mega = m, !.listed = TRUE]
  <2>3. h \in FlowType /\ h.used /\ ~h.dead /\ h.mark = NoMark
    BY <2>1, <2>2 DEF FlowType
  <2>4. g = [k EXCEPT !.ref = 2]
    OBVIOUS
  <2> HIDE DEF h
  <2>5. k \in FlowType /\ k.used /\ ~k.dead /\ k.mark = NoMark /\ k.mega = m
    BY <2>2, <2>3 DEF FlowType
  <2> HIDE DEF k, g
  <2> QED
    BY <2>2, <2>4, <2>5 DEF FlowType
<1>5. NumIn(queue[t], i) = 0 /\ cur[t].flow # i /\ flow[i].mark = NoMark
  BY <1>1, <1>2, Unreferred DEF NoFlow
<1> HIDE DEF t, g
<1>6. cur' = cur /\ UNCHANGED <<byMega, pool, hw, portVars>>
  BY DEF AddFlow
<1>7. flow' \in [Ids -> FlowType] /\ flow'[i] = g /\ \A j \in Ids \ {i} : flow'[j] = flow[j]
  BY <1>2, <1>4 DEF Typed
<1>8. Typed'
  BY <1>1, <1>3, <1>6, <1>7, AskStep, ThreadTyped DEF Typed
<1>9. cur'[t].flow # 0 <=> cur'[t].pc \in Busy
  BY <1>1, <1>6 DEF Sited
<1>10. g.ref = One(~g.dead) + NumIn(queue'[t], i) + One(cur'[t].flow = i)
               + One(\/ g.mark # NoMark
                     \/ cur'[t].flow = i /\ cur'[t].pc \in {"del", "drop"})
  BY <1>1, <1>3, <1>4, <1>5, <1>6, AskStep DEF One
<1>11. Changes(t, i, g)
  <2>1. /\ \A u \in Thread \ {t} : queue'[u] = queue[u] /\ cur'[u] = cur[u]
        /\ \A n \in 1 .. Len(queue'[t]) :
             \/ queue'[t][n].flow = i
             \/ \E k \in 1 .. Len(queue[t]) : queue'[t][n] = queue[t][k]
        /\ \A j \in Ids \ {i} : NumIn(queue'[t], j) = NumIn(queue[t], j)
    BY <1>1, <1>3, <1>6, AskStep
  <2>2. g.mega \in Mega /\ ThreadOf[g.mega] = t
    BY <1>4 DEF t
  <2> QED
    BY <1>2, <1>4, <1>6, <1>9, <1>10, <2>1, <2>2 DEF Changes
<1>12. Sited' /\ Counted'
  BY <1>1, <1>2, <1>4, <1>8, <1>11, RefStep
<1>13. FlowsKept
  BY <1>2, <1>4, <1>5, <1>7 DEF FlowsKept
<1> QED
  BY <1>8, <1>12, <1>13

LEMMA UsedFlow ==
  ASSUME Typed, Sited, Counted, NEW i \in Ids, flow[i].used
  PROVE  /\ flow[i] \in FlowType /\ flow[i].mega \in Mega
         /\ Server(i) \in Thread /\ ThreadOf[flow[i].mega] = Server(i)
         /\ NumIn(queue[Server(i)], i) \in Nat
         /\ flow[i].ref = One(~flow[i].dead) + NumIn(queue[Server(i)], i)
                          + One(cur[Server(i)].flow = i)
                          + One(\/ flow[i].mark # NoMark
                                \/ /\ cur[Server(i)].flow = i
                                   /\ cur[Server(i)].pc \in {"del", "drop"})
<1>1. flow[i] \in FlowType /\ flow[i].mega \in Mega
  BY DEF Typed, Sited
<1>2. Server(i) \in Thread
  BY <1>1, OffloadAssumption DEF Server
<1>3. NumIn(queue[Server(i)], i) \in Nat
  BY <1>2, NumInNat DEF Typed
<1> QED
  BY <1>1, <1>2, <1>3 DEF Counted, Marked, Server

(* ModFlow and RemoveFlow.                                                 *)
LEMMA AskFlowStep ==
  ASSUME Typed, Sited, Counted, NEW i \in Ids, flow[i].used, Asks(Server(i), i),
         NEW g \in FlowType, flow' = [flow EXCEPT ![i] = g],
         g.used, g.mega = flow[i].mega, g.dead = flow[i].dead, g.mark = flow[i].mark,
         g.listed => flow[i].listed, g.ref = flow[i].ref + 1,
         UNCHANGED <<cur, byMega, pool, hw, portVars>>
  PROVE  Typed' /\ Sited' /\ Counted' /\ FlowsKept
<1> DEFINE t == Server(i)
<1>1. /\ t \in Thread /\ flow[i] \in FlowType /\ flow[i].mega \in Mega
      /\ ThreadOf[flow[i].mega] = t /\ NumIn(queue[t], i) \in Nat
      /\ flow[i].ref = One(~flow[i].dead) + NumIn(queue[t], i)
                          + One(cur[t].flow = i)
                          + One(\/ flow[i].mark # NoMark
                                \/ cur[t].flow = i /\ cur[t].pc \in {"del", "drop"})
  BY UsedFlow
<1>2. flow' \in [Ids -> FlowType] /\ flow'[i] = g /\ \A j \in Ids \ {i} : flow'[j] = flow[j]
  BY DEF Typed
<1>3. Typed'
  BY <1>1, <1>2, AskStep, ThreadTyped DEF Typed
<1>4. Server(i) = t /\ Asks(t, i)
  OBVIOUS
<1> HIDE DEF t
<1>5. cur'[t].flow # 0 <=> cur'[t].pc \in Busy
  BY <1>1 DEF Sited
<1>6. g.ref = One(~g.dead) + NumIn(queue'[t], i) + One(cur'[t].flow = i)
               + One(\/ g.mark # NoMark
                     \/ cur'[t].flow = i /\ cur'[t].pc \in {"del", "drop"})
  BY <1>1, <1>4, AskStep DEF One
<1>7. g.listed => ~g.dead
  BY DEF Sited
<1>8. Changes(t, i, g)
  BY <1>1, <1>4, <1>5, <1>6, <1>7, AskStep DEF Changes
<1>9. Sited' /\ Counted'
  BY <1>1, <1>3, <1>8, RefStep
<1>10. FlowsKept
  BY <1>2 DEF FlowsKept
<1> QED
  BY <1>3, <1>9, <1>10

LEMMA ModRemoveStep ==
  ASSUME Typed, Sited, Counted, NEW i \in Ids, ModFlow(i) \/ RemoveFlow(i)
  PROVE  Typed' /\ Sited' /\ Counted' /\ FlowsKept
<1>1. flow[i].listed /\ flow[i] \in FlowType
  BY DEF ModFlow, RemoveFlow, Typed
<1>2. flow[i].used
  BY <1>1 DEF Sited, NoFlow
<1>3. Asks(Server(i), i)
  BY DEF ModFlow, RemoveFlow, Asks, Queue, Server, Typed
<1>4. UNCHANGED <<cur, byMega, pool, hw, portVars>>
  BY DEF ModFlow, RemoveFlow
<1> DEFINE r == Ref(flow[i])
<1>5. /\ r \in FlowType /\ r.used /\ r.mega = flow[i].mega /\ r.dead = flow[i].dead
      /\ r.listed = flow[i].listed /\ r.mark = flow[i].mark /\ r.ref = flow[i].ref + 1
  BY <1>1, <1>2, RefFields
<1>6. CASE ModFlow(i)
  <2>1. flow' = [flow EXCEPT ![i] = r]
    BY <1>6 DEF ModFlow, Typed
  <2> HIDE DEF r
  <2> QED
    BY <1>2, <1>3, <1>4, <1>5, <2>1, AskFlowStep
<1>7. CASE RemoveFlow(i)
  <2> DEFINE g == [r EXCEPT !.listed = FALSE]
  <2>1. flow' = [flow EXCEPT ![i] = g]
    BY <1>7 DEF RemoveFlow, Typed
  <2> HIDE DEF r
  <2>2. /\ g \in FlowType /\ g.used /\ g.mega = flow[i].mega /\ g.dead = flow[i].dead
        /\ ~g.listed /\ g.mark = flow[i].mark /\ g.ref = flow[i].ref + 1
    BY <1>5 DEF FlowType
  <2> HIDE DEF g
  <2> QED
    BY <1>2, <1>3, <1>4, <2>1, <2>2, AskFlowStep
<1> QED
  BY <1>6, <1>7

LEMMA SetDeadStep ==
  ASSUME Typed, Sited, Counted, NEW i \in Ids, SetDead(i)
  PROVE  Typed' /\ Sited' /\ Counted' /\ FlowsKept
<1> DEFINE t == Server(i)
           f == [flow[i] EXCEPT !.dead = TRUE]
           g == Unref(f)
<1>1. flow[i].used /\ ~flow[i].listed /\ ~flow[i].dead
  BY DEF SetDead
<1>2. /\ t \in Thread /\ flow[i] \in FlowType /\ flow[i].mega \in Mega
      /\ ThreadOf[flow[i].mega] = t /\ NumIn(queue[t], i) \in Nat
      /\ flow[i].ref = One(~flow[i].dead) + NumIn(queue[t], i)
                          + One(cur[t].flow = i)
                          + One(\/ flow[i].mark # NoMark
                                \/ cur[t].flow = i /\ cur[t].pc \in {"del", "drop"})
  BY <1>1, UsedFlow
<1>3. Server(i) = t
  OBVIOUS
<1> HIDE DEF t
<1>4. /\ f \in FlowType /\ f.used /\ f.mega = flow[i].mega /\ f.dead /\ ~f.listed
      /\ f.mark = flow[i].mark /\ f.ref = flow[i].ref
  BY <1>1, <1>2 DEF FlowType
<1>5. flow' = [flow EXCEPT ![i] = g] /\ UNCHANGED <<queue, cur, byMega, pool, hw, portVars>>
  BY DEF SetDead, Typed
<1> HIDE DEF f
<1>6. g \in FlowType
  BY <1>4, FlowTypes
<1>7. flow' \in [Ids -> FlowType] /\ flow'[i] = g /\ \A j \in Ids \ {i} : flow'[j] = flow[j]
  BY <1>5, <1>6 DEF Typed
<1>8. Typed'
  BY <1>5, <1>7, ThreadTyped DEF Typed
<1>9. /\ IF g.used
         THEN /\ g.mega = flow[i].mega /\ g.dead
              /\ g.ref = NumIn(queue[t], i) + One(cur[t].flow = i)
                         + One(\/ g.mark # NoMark
                               \/ cur[t].flow = i /\ cur[t].pc \in {"del", "drop"})
         ELSE g = NoFlow /\ NumIn(queue[t], i) = 0 /\ cur[t].flow # i
      /\ g.mark = flow[i].mark /\ ~g.listed
  <2>1. CASE f.ref = 1
    <3>1. g = NoFlow /\ NumIn(queue[t], i) = 0 /\ flow[i].mark = NoMark /\ cur[t].flow # i
      BY <1>1, <1>2, <1>4, <2>1 DEF Unref, One
    <3>2. ~g.used /\ ~g.listed /\ g.mark = NoMark
      BY <3>1 DEF NoFlow
    <3> QED
      BY <3>1, <3>2
  <2>2. CASE f.ref # 1
    <3>1. g = [f EXCEPT !.ref = f.ref - 1]
      BY <1>4, <2>2, UnrefMore
    <3> HIDE DEF g
    <3>2. /\ g.used /\ g.mega = flow[i].mega /\ g.dead /\ ~g.listed /\ g.mark = flow[i].mark
          /\ g.ref = flow[i].ref - 1
      BY <1>4, <3>1 DEF FlowType
    <3>3. g.ref = NumIn(queue[t], i) + One(cur[t].flow = i)
                  + One(\/ g.mark # NoMark
                        \/ cur[t].flow = i /\ cur[t].pc \in {"del", "drop"})
      BY <1>1, <1>2, <3>2 DEF One
    <3> QED
      BY <3>2, <3>3
  <2> QED
    BY <2>1, <2>2
<1> HIDE DEF g
<1>10. cur'[t].flow # 0 <=> cur'[t].pc \in Busy
  BY <1>2, <1>5 DEF Sited
<1>11. IF g.used
       THEN /\ g.mega \in Mega /\ ThreadOf[g.mega] = t
            /\ g.ref = One(~g.dead) + NumIn(queue'[t], i) + One(cur'[t].flow = i)
                       + One(\/ g.mark # NoMark
                             \/ cur'[t].flow = i /\ cur'[t].pc \in {"del", "drop"})
       ELSE g = NoFlow /\ NumIn(queue'[t], i) = 0 /\ cur'[t].flow # i
  BY <1>2, <1>5, <1>9 DEF One
<1>12. Changes(t, i, g)
  BY <1>3, <1>5, <1>9, <1>10, <1>11 DEF Changes
<1>13. Sited' /\ Counted'
  BY <1>2, <1>6, <1>8, <1>12, RefStep
<1>14. FlowsKept
  BY <1>7, <1>9 DEF FlowsKept
<1> QED
  BY <1>8, <1>13, <1>14

-----------------------------------------------------------------------------
(* The main thread, and the threads while they flush.                      *)

(* Nobody's flow changes, and no request about a flow comes or goes.       *)
Aside ==
  \A u \in Thread :
    /\ cur'[u].flow = cur[u].flow
    /\ \/ cur'[u] = cur[u]
       \/ cur'[u].pc \notin Busy /\ cur[u].pc \notin Busy
    /\ \A n \in 1 .. Len(queue'[u]) :
         \/ queue'[u][n].flow = 0
         \/ \E k \in 1 .. Len(queue[u]) : queue'[u][n] = queue[u][k]
    /\ \A j \in Ids : NumIn(queue'[u], j) = NumIn(queue[u], j)

LEMMA AsideRef ==
  ASSUME Typed, Sited, Counted, Typed', flow' = flow, Aside
  PROVE  Sited' /\ Counted'
<1>1. \A u \in Thread :
        /\ cur'[u].flow = cur[u].flow
        /\ cur'[u].pc \in Busy <=> cur[u].pc \in Busy
        /\ cur'[u].pc \in {"del", "drop"} <=> cur[u].pc \in {"del", "drop"}
        /\ \A n \in 1 .. Len(queue'[u]) :
             \/ queue'[u][n].flow = 0
             \/ \E k \in 1 .. Len(queue[u]) : queue'[u][n] = queue[u][k]
        /\ \A j \in Ids : NumIn(queue'[u], j) = NumIn(queue[u], j)
  BY DEF Aside, Busy
<1> QED
  BY <1>1, RefKept

LEMMA TakeFlushStep ==
  ASSUME Typed, Sited, Counted, NEW t \in Thread, TakeFlush(t)
  PROVE  /\ Typed' /\ flow' = flow /\ Aside
         /\ cur[t].pc = "idle" /\ cur'[t].pc = "flush"
         /\ \A u \in Thread \ {t} : cur'[u] = cur[u]
<1>1. Take(t, {"flush"}) /\ Serve(t, "flush", NoMark, FALSE)
      /\ UNCHANGED <<flow, byMega, pool, hw, portVars>>
  BY DEF TakeFlush
<1>2. /\ Head(queue[t]) \in Request /\ Head(queue[t]).op = "flush"
      /\ queue[t] \in Seq(Request) /\ queue[t] # <<>>
      /\ queue' = [queue EXCEPT ![t] = Tail(queue[t])] /\ queue' \in [Thread -> Seq(Request)]
      /\ cur[t].pc = "idle"
  BY <1>1, TakeType
<1>3. Head(queue[t]).flow = 0
  BY <1>2 DEF Request
<1>4. /\ cur' \in [Thread -> CurType] /\ cur'[t].pc = "flush" /\ cur'[t].flow = 0
      /\ \A u \in Thread \ {t} : cur'[u] = cur[u]
  BY <1>1, <1>2, <1>3, ServeType, FlowTypes DEF Waits
<1>5. Typed'
  BY <1>1, <1>2, <1>4, ThreadTyped DEF Typed
<1>6. cur[t].flow = 0
  BY <1>2 DEF Sited, Busy
<1>7. /\ \A n \in 1 .. Len(queue'[t]) : \E k \in 1 .. Len(queue[t]) : queue'[t][n] = queue[t][k]
      /\ \A u \in Thread \ {t} : queue'[u] = queue[u]
  <2>1. queue'[t] = Tail(queue[t]) /\ \A u \in Thread \ {t} : queue'[u] = queue[u]
    BY <1>2 DEF Typed
  <2>2. \A n \in 1 .. Len(queue[t]) - 1 : n + 1 \in 1 .. Len(queue[t])
                                         /\ Tail(queue[t])[n] = queue[t][n + 1]
    BY <1>2
  <2>3. Len(Tail(queue[t])) = Len(queue[t]) - 1
    BY <1>2
  <2> QED
    BY <2>1, <2>2, <2>3
<1>8. ASSUME NEW u \in Thread, NEW j \in Ids
      PROVE  NumIn(queue'[u], j) = NumIn(queue[u], j)
  <2>1. CASE u = t
    <3>1. queue'[t] = Tail(queue[t])
      BY <1>2 DEF Typed
    <3>2. NumIn(Tail(queue[t]), j) = NumIn(queue[t], j) - One(Head(queue[t]).flow = j)
      BY <1>2, NumInTail
    <3>3. NumIn(queue[t], j) \in Nat
      BY <1>2, NumInNat
    <3> QED
      BY <1>3, <2>1, <3>1, <3>2, <3>3, FlowTypes DEF One
  <2>2. CASE u # t
    BY <1>7, <2>2
  <2> QED
    BY <2>1, <2>2
<1>9. Aside
  BY <1>2, <1>4, <1>6, <1>7, <1>8 DEF Aside, Busy
<1> QED
  BY <1>1, <1>2, <1>4, <1>5, <1>9

LEMMA FlushStep ==
  ASSUME Typed, Sited, Counted, NEW t \in Thread, Flush(t)
  PROVE  /\ Typed' /\ flow' = flow /\ Aside
         /\ cur[t].pc = "flush" /\ cur'[t].pc = "barrier1"
         /\ \A u \in Thread \ {t} : cur'[u] = cur[u]
<1>1. cur[t].pc = "flush" /\ Goto(t, "barrier1")
      /\ UNCHANGED <<flow, queue, byMega, pool, portVars>>
  BY DEF Flush, At, flowVars
<1>2. /\ cur' \in [Thread -> CurType] /\ cur'[t].pc = "barrier1"
      /\ cur'[t].flow = cur[t].flow /\ \A u \in Thread \ {t} : cur'[u] = cur[u]
  BY <1>1, GotoType DEF Waits
<1>3. hw' \in [Mega -> MarkOrNone]
  BY FlowTypes DEF Flush, Typed
<1>4. Typed'
  BY <1>1, <1>2, <1>3, ThreadTyped DEF Typed
<1>5. Aside
  BY <1>1, <1>2 DEF Aside, Busy
<1> QED
  BY <1>1, <1>2, <1>4, <1>5

(* The steps of the main thread.                                           *)
MainNext == (\E p \in Port : AddPort(p) \/ DelPort(p)) \/ MapPort \/ Deletion

LEMMA MainTyped ==
  ASSUME Typed, MainNext
  PROVE  /\ main' \in MainType /\ wr' \in BOOLEAN
         /\ polled' \in SUBSET Port /\ mapped' \in SUBSET Port /\ api' \in SUBSET mapped'
         /\ main'.pc # "idle" => main'.port \in Port
         /\ main'.pc = "unmap" => main'.port \notin api'
<1>1. /\ main \in MainType /\ wr \in BOOLEAN
      /\ polled \in SUBSET Port /\ mapped \in SUBSET Port /\ api \in SUBSET mapped
      /\ main.pc # "idle" => main.port \in Port
      /\ main.pc = "unmap" => main.port \notin api
  BY DEF Typed
<1>2. ASSUME NEW step, GotoMain(step),
             step \in {"idle", "barrier1", "relock", "barrier2", "uninit", "unmap"}
      PROVE  main' \in MainType /\ main'.pc = step /\ main'.port = main.port
  BY <1>1, <1>2 DEF GotoMain, MainType
<1>3. ASSUME NEW p \in Port, AddPort(p)
      PROVE  /\ main' = [pc |-> "map", port |-> p] /\ main' \in MainType
             /\ polled' = polled \cup {p} /\ UNCHANGED <<mapped, api, wr>>
  BY <1>3 DEF AddPort, MainType
<1>4. ASSUME NEW p \in Port, DelPort(p)
      PROVE  /\ main' = [pc |-> "flush", port |-> p] /\ main' \in MainType
             /\ main'.pc = "flush" /\ main'.port = p
             /\ polled' = polled \ {p} /\ wr' \in BOOLEAN /\ UNCHANGED <<mapped, api>>
  <2>1. /\ main' = [pc |-> "flush", port |-> p] /\ main' \in MainType
        /\ polled' = polled \ {p} /\ UNCHANGED <<mapped, api>>
    BY <1>4 DEF DelPort, MainType
  <2>2. wr' \in BOOLEAN
    BY <1>4 DEF DelPort
  <2>3. main'.pc = "flush" /\ main'.port = p
    BY <2>1
  <2> QED
    BY <2>1, <2>2, <2>3
<1>5. CASE \E p \in Port : AddPort(p) \/ DelPort(p)
  <2>1. PICK p \in Port : AddPort(p) \/ DelPort(p)
    BY <1>5
  <2>2. CASE AddPort(p)
    <3>1. main'.pc = "map" /\ main'.port = p
      BY <1>3, <2>2
    <3>2. polled' \in SUBSET Port
      BY <1>1, <1>3, <2>2
    <3> QED
      BY <1>1, <1>3, <2>2, <3>1, <3>2
  <2>3. CASE DelPort(p)
    BY <1>1, <1>4, <2>3
  <2> QED
    BY <2>1, <2>2, <2>3
<1>6. CASE MapPort
  <2>1. /\ mapped' = mapped \cup {main.port} /\ api' = api \cup {main.port} /\ main.port \in Port
        /\ GotoMain("idle") /\ UNCHANGED <<polled, wr>>
    BY <1>1, <1>6 DEF MapPort
  <2>2. main' \in MainType /\ main'.pc = "idle"
    BY <1>2, <2>1
  <2>3. mapped' \in SUBSET Port /\ api' \in SUBSET mapped'
    BY <1>1, <2>1
  <2> QED
    BY <1>1, <2>1, <2>2, <2>3
<1>7. CASE FlushEnqueue
  <2>1. main.pc = "flush" /\ GotoMain("barrier1") /\ UNCHANGED <<polled, mapped, api>>
    BY <1>7 DEF FlushEnqueue
  <2>2. wr' \in BOOLEAN
    BY <1>7 DEF FlushEnqueue
  <2>3. main' \in MainType /\ main'.pc = "barrier1" /\ main'.port \in Port
    BY <1>1, <1>2, <2>1
  <2> QED
    BY <1>1, <2>1, <2>2, <2>3
<1>8. CASE Barrier1
  <2>1. main.pc = "barrier1" /\ GotoMain("relock") /\ UNCHANGED <<polled, mapped, api, wr>>
    BY <1>8 DEF Barrier1
  <2> QED
    BY <1>1, <1>2, <2>1
<1>9. CASE Relock
  <2>1. main.pc = "relock" /\ GotoMain("barrier2") /\ wr' = TRUE /\ UNCHANGED <<polled, mapped, api>>
    BY <1>9 DEF Relock
  <2> QED
    BY <1>1, <1>2, <2>1
<1>10. CASE Barrier2
  <2>1. main.pc = "barrier2" /\ GotoMain("uninit") /\ UNCHANGED <<polled, mapped, api, wr>>
    BY <1>10 DEF Barrier2
  <2> QED
    BY <1>1, <1>2, <2>1
<1>11. CASE Uninit
  <2>1. /\ main.pc = "uninit" /\ GotoMain("unmap") /\ wr' = FALSE /\ api' = api \ {main.port}
        /\ UNCHANGED <<polled, mapped>>
    BY <1>11 DEF Uninit
  <2> QED
    BY <1>1, <1>2, <2>1
<1>12. CASE Unmap
  <2>1. /\ main.pc = "unmap" /\ GotoMain("idle") /\ mapped' = mapped \ {main.port}
        /\ UNCHANGED <<polled, api, wr>>
    BY <1>12 DEF Unmap
  <2> QED
    BY <1>1, <1>2, <2>1
<1> QED
  BY <1>5, <1>6, <1>7, <1>8, <1>9, <1>10, <1>11, <1>12 DEF MainNext, Deletion

LEMMA MainStep ==
  ASSUME Typed, Sited, Counted, MainNext
  PROVE  Typed' /\ UNCHANGED <<flow, byMega, pool, hw>> /\ Aside
<1>1. UNCHANGED <<flow, byMega, pool, hw>>
  BY DEF MainNext, AddPort, DelPort, MapPort, Deletion, FlushEnqueue, Barrier1, Relock,
         Barrier2, Uninit, Unmap, ByMain
<1>2. /\ main' \in MainType /\ wr' \in BOOLEAN
      /\ polled' \in SUBSET Port /\ mapped' \in SUBSET Port /\ api' \in SUBSET mapped'
      /\ main'.pc # "idle" => main'.port \in Port
      /\ main'.pc = "unmap" => main'.port \notin api'
  BY MainTyped
<1>3. ASSUME cur' \in [Thread -> CurType], queue' \in [Thread -> Seq(Request)]
      PROVE  Typed'
  BY <1>1, <1>2, <1>3 DEF Typed
<1>4. CASE UNCHANGED <<queue, cur>>
  <2>1. Aside
    BY <1>4 DEF Aside
  <2>2. Typed'
    BY <1>3, <1>4 DEF Typed
  <2> QED
    BY <1>1, <2>1, <2>2
<1>5. CASE FlushEnqueue
  <2> DEFINE r == [op |-> "flush", flow |-> 0]
  <2>1. r \in Request /\ r.flow = 0
    BY DEF Request
  <2>2. cur' = cur /\ queue' = [t \in Thread |-> Append(queue[t], r)]
    BY <1>5 DEF FlushEnqueue
  <2> HIDE DEF r
  <2>3. \A t \in Thread : queue[t] \in Seq(Request)
    BY DEF Typed
  <2>4. queue' \in [Thread -> Seq(Request)] /\ cur' \in [Thread -> CurType]
    BY <2>1, <2>2, <2>3 DEF Typed
  <2>5. ASSUME NEW u \in Thread, NEW j \in Ids
        PROVE  NumIn(queue'[u], j) = NumIn(queue[u], j)
    <3>1. NumIn(Append(queue[u], r), j) = NumIn(queue[u], j) + One(r.flow = j)
      BY <2>1, <2>3, NumInAppend
    <3>2. NumIn(queue[u], j) \in Nat
      BY <2>3, NumInNat
    <3> QED
      BY <2>1, <2>2, <3>1, <3>2, FlowTypes DEF One
  <2>6. ASSUME NEW u \in Thread, NEW n \in 1 .. Len(queue'[u])
        PROVE  \/ queue'[u][n].flow = 0
               \/ \E k \in 1 .. Len(queue[u]) : queue'[u][n] = queue[u][k]
    BY <2>1, <2>2, <2>3
  <2>7. Aside
    BY <2>2, <2>5, <2>6 DEF Aside
  <2> QED
    BY <1>1, <1>3, <2>4, <2>7
<1>6. CASE Barrier1
  <2>1. /\ cur' = [t \in Thread |-> [cur[t] EXCEPT !.pc = "barrier2"]] /\ queue' = queue
        /\ \A t \in Thread : cur[t] \in CurType /\ cur[t].pc = "barrier1"
    BY <1>6 DEF Barrier1, At, Typed
  <2>2. \A t \in Thread : cur'[t] \in CurType /\ cur'[t].flow = cur[t].flow
                          /\ cur'[t].pc = "barrier2"
    BY <2>1 DEF CurType, Waits
  <2>3. cur' \in [Thread -> CurType] /\ queue' \in [Thread -> Seq(Request)]
    BY <2>1, <2>2 DEF Typed
  <2>4. Aside
    BY <2>1, <2>2 DEF Aside, Busy
  <2> QED
    BY <1>1, <1>3, <2>3, <2>4
<1>7. CASE Barrier2
  <2>1. /\ cur' = [t \in Thread |-> Idle] /\ queue' = queue
        /\ \A t \in Thread : cur[t].pc = "barrier2"
    BY <1>7 DEF Barrier2, At
  <2>2. \A t \in Thread : cur[t].flow = 0
    BY <2>1 DEF Sited, Busy
  <2>3. \A t \in Thread : cur'[t] \in CurType /\ cur'[t].flow = 0 /\ cur'[t].pc = "idle"
    BY <2>1, FlowTypes DEF Idle
  <2>4. cur' \in [Thread -> CurType] /\ queue' \in [Thread -> Seq(Request)]
    BY <2>1, <2>3 DEF Typed
  <2>5. Aside
    BY <2>1, <2>2, <2>3 DEF Aside, Busy
  <2> QED
    BY <1>1, <1>3, <2>4, <2>5
<1> QED
  BY <1>4, <1>5, <1>6, <1>7
     DEF MainNext, AddPort, DelPort, MapPort, Deletion, Relock, Uninit, Unmap

(* The steps of an offload thread.                                         *)
LEMMA ThreadRefs ==
  ASSUME Typed, Sited, Counted, MarksAgree, NEW t \in Thread, ThreadStep(t)
  PROVE  Typed' /\ Sited' /\ Counted'
<1> USE FlowTypes
<1>1. CASE TakeDel(t)
  <2>1. /\ Take(t, {"del"}) /\ Serve(t, "dis", NoMark, FALSE) /\ pool' \in SUBSET Mark
        /\ UNCHANGED <<flow, byMega, hw, portVars>>
    BY <1>1 DEF TakeDel, Typed
  <2> QED
    BY <2>1, TakeOnly
<1>2. CASE TakeFlush(t)
  BY <1>2, TakeFlushStep, AsideRef
<1>3. CASE PutDead(t)
  <2>1. /\ Take(t, {"add", "mod"}) /\ Serve(t, "done", NoMark, FALSE) /\ pool' \in SUBSET Mark
        /\ UNCHANGED <<flow, byMega, hw, portVars>>
    BY <1>3 DEF PutDead, Typed
  <2> QED
    BY <2>1, TakeOnly
<1>4. CASE PutMod(t)
  <2> DEFINE f == flow[Head(queue[t]).flow]
             step == IF InPort[f.mega] \in mapped THEN "put" ELSE "dis"
  <2>1. Take(t, {"mod"}) /\ Serve(t, step, f.mark, TRUE) /\ pool' \in SUBSET Mark
        /\ UNCHANGED <<flow, byMega, hw, portVars>>
    BY <1>4 DEF PutMod, Typed
  <2>2. f \in FlowType
    BY <2>1, HeadServed
  <2>3. f.mark \in MarkOrNone /\ step \in {"put", "dis", "done"}
    BY <2>2 DEF FlowType
  <2> QED
    BY <2>1, <2>3, TakeOnly
<1>5. CASE PutShared(t)
  BY <1>5, PutSharedRef
<1>6. CASE PutNew(t)
  <2>1. /\ Take(t, {"add", "mod"}) /\ UNCHANGED <<flow, byMega, hw, portVars>>
        /\ \/ Serve(t, "done", NoMark, FALSE) /\ UNCHANGED pool
           \/ \E k \in pool : pool' = pool \ {k} /\ Serve(t, "put", k, FALSE)
    BY <1>6 DEF PutNew
  <2>2. \E step \in {"put", "dis", "done"}, k \in MarkOrNone :
          Serve(t, step, k, FALSE) /\ pool' \in SUBSET Mark
    BY <2>1 DEF Typed, MarkOrNone
  <2> QED
    BY <2>1, <2>2, TakeOnly
<1>7. CASE PutDone(t)
  BY <1>7, PutDoneStep
<1>8. CASE PutFailed(t)
  <2> DEFINE step == IF cur[t].mod THEN "dis" ELSE "done"
  <2>1. cur[t].pc = "put" /\ Goto(t, step) /\ UNCHANGED <<flow, queue, byMega, portVars>>
    BY <1>8 DEF PutFailed, At, flowVars
  <2>2. cur[t].mark \in MarkOrNone /\ cur[t].mark # NoMark
    BY <2>1 DEF MarksAgree, At, Typed, CurType
  <2>3. pool' \in SUBSET Mark
    BY <1>8, <2>2 DEF PutFailed, Typed, MarkOrNone
  <2>4. hw' \in [Mega -> MarkOrNone]
    BY <1>8 DEF PutFailed, Typed
  <2>5. byMega' \in [Mega -> MarkOrNone] /\ step \in {"dis", "done"}
    BY <2>1 DEF Typed
  <2> QED
    BY <2>1, <2>3, <2>4, <2>5, WorkOnly
<1>9. CASE DisNone(t)
  <2>1. cur[t].pc = "dis" /\ Goto(t, "done") /\ UNCHANGED <<flow, queue, byMega, pool, hw, portVars>>
    BY <1>9 DEF DisNone, At, flowVars
  <2>2. byMega' \in [Mega -> MarkOrNone] /\ hw' \in [Mega -> MarkOrNone] /\ pool' \in SUBSET Mark
    BY <2>1 DEF Typed
  <2> QED
    BY <2>1, <2>2, WorkOnly
<1>10. CASE DisShared(t)
  BY <1>10, DisSharedStep
<1>11. CASE DisLast(t)
  BY <1>11, DisLastStep
<1>12. CASE HwDel(t) \/ DropMark(t)
  <2>1. cur[t].pc \in {"del", "drop"} /\ GiveUpMark(t) /\ UNCHANGED <<queue, portVars>>
    BY <1>12 DEF HwDel, DropMark, At
  <2>2. hw' \in [Mega -> MarkOrNone]
    BY <1>12 DEF HwDel, DropMark, Typed
  <2> QED
    BY <2>1, <2>2, GiveUpStep
<1>13. CASE Done(t)
  BY <1>13, DoneStep
<1>14. CASE Flush(t)
  BY <1>14, FlushStep, AsideRef
<1> QED
  BY <1>1, <1>2, <1>3, <1>4, <1>5, <1>6, <1>7, <1>8, <1>9, <1>10, <1>11, <1>12, <1>13, <1>14
     DEF ThreadStep

(* Types, references and their count, of every step.                       *)
LEMMA NextRefs ==
  ASSUME Inv, [Next]_vars
  PROVE  Typed' /\ Sited' /\ Counted'
<1> USE DEF Inv
<1>1. CASE \E p \in Pmd, m \in Mega : AddFlow(p, m)
  BY <1>1, AddFlowStep
<1>2. CASE \E i \in Ids : ModFlow(i) \/ RemoveFlow(i) \/ SetDead(i)
  BY <1>2, ModRemoveStep, SetDeadStep
<1>3. CASE \E t \in Thread : ThreadStep(t)
  BY <1>3, ThreadRefs
<1>4. CASE MainNext
  BY <1>4, MainStep, AsideRef
<1>5. CASE UNCHANGED vars
  <2>1. Typed'
    BY <1>5 DEF vars, Typed
  <2>2. Aside /\ flow' = flow
    BY <1>5 DEF vars, Aside
  <2> QED
    BY <2>1, <2>2, AsideRef
<1> QED
  BY <1>1, <1>2, <1>3, <1>4, <1>5 DEF Next, MainNext

-----------------------------------------------------------------------------
(* Marks: where each one is.                                               *)

LEMMA InHandType ==
  ASSUME Typed
  PROVE  \A u \in Thread : InHand(u) \in MarkOrNone
BY FlowTypes DEF Typed, CurType, InHand

(* Nobody takes a mark or gives one up.                                    *)
LEMMA PlaceKept ==
  ASSUME OnePlace, byMega' = byMega, pool' = pool,
         \A u \in Thread : InHand(u)' = InHand(u)
  PROVE  OnePlace'
BY DEF OnePlace

(* Thread t takes mark k from the pool.                                    *)
LEMMA PlaceTaken ==
  ASSUME OnePlace, NEW t \in Thread, NEW k \in pool, k # NoMark, byMega' = byMega,
         pool' = pool \ {k}, InHand(t) = NoMark, InHand(t)' = k,
         \A u \in Thread \ {t} : InHand(u)' = InHand(u)
  PROVE  OnePlace'
<1>1. \A u \in Thread : InHand(u) # k
  BY DEF OnePlace
<1>2. \A m \in Mega : byMega[m] # k
  BY DEF OnePlace
<1>3. ASSUME NEW j \in Mark
      PROVE  \/ j \in pool'
             \/ \E m \in Mega : byMega'[m] = j
             \/ \E u \in Thread : InHand(u)' = j
  <2>1. CASE j = k
    BY <2>1
  <2>2. CASE j # k /\ \E u \in Thread : InHand(u) = j
    <3>1. PICK u \in Thread : InHand(u) = j
      BY <2>2
    <3>2. CASE u = t
      BY <3>1, <3>2, OffloadAssumption
    <3>3. CASE u # t
      BY <3>1, <3>3
    <3> QED
      BY <3>2, <3>3
  <2> QED
    BY <2>1, <2>2 DEF OnePlace
<1>4. \A u, v \in Thread : InHand(u)' # NoMark /\ InHand(u)' = InHand(v)' => u = v
  BY <1>1 DEF OnePlace
<1>5. \A u \in Thread : InHand(u)' \notin pool'
  BY DEF OnePlace
<1>6. \A u \in Thread, m \in Mega : InHand(u)' # NoMark => byMega'[m] # InHand(u)'
  BY <1>2 DEF OnePlace
<1> QED
  BY <1>3, <1>4, <1>5, <1>6 DEF OnePlace

(* Thread t puts the mark it holds back into the pool.                     *)
LEMMA PlaceReturned ==
  ASSUME OnePlace, NEW t \in Thread, InHand(t) # NoMark, byMega' = byMega,
         pool' = pool \cup {InHand(t)}, InHand(t)' = NoMark, NoMark \notin pool,
         \A u \in Thread \ {t} : InHand(u)' = InHand(u)
  PROVE  OnePlace'
<1>1. \A u \in Thread \ {t} : InHand(u) # InHand(t)
  BY DEF OnePlace
<1>2. \A j \in Mark : \/ j \in pool'
                      \/ \E m \in Mega : byMega'[m] = j
                      \/ \E u \in Thread : InHand(u)' = j
  BY DEF OnePlace
<1>3. \A u \in Thread : InHand(u)' \notin pool'
  BY <1>1 DEF OnePlace
<1>4. \A u, v \in Thread : InHand(u)' # NoMark /\ InHand(u)' = InHand(v)' => u = v
  BY DEF OnePlace
<1>5. \A u \in Thread, m \in Mega : InHand(u)' # NoMark => byMega'[m] # InHand(u)'
  BY DEF OnePlace
<1> QED
  BY <1>2, <1>3, <1>4, <1>5 DEF OnePlace

(* Thread t binds the mark it holds to megaflow m.                         *)
LEMMA PlaceBound ==
  ASSUME OnePlace, NEW t \in Thread, InHand(t) # NoMark, NEW m \in Mega, byMega[m] = NoMark,
         byMega \in [Mega -> MarkOrNone], byMega' = [byMega EXCEPT ![m] = InHand(t)],
         pool' = pool, InHand(t)' = NoMark,
         \A u \in Thread \ {t} : InHand(u)' = InHand(u)
  PROVE  OnePlace'
<1>1. byMega'[m] = InHand(t) /\ \A o \in Mega \ {m} : byMega'[o] = byMega[o]
  OBVIOUS
<1>2. \A u \in Thread \ {t} : InHand(u) # InHand(t)
  BY DEF OnePlace
<1>3. ASSUME NEW j \in Mark
      PROVE  \/ j \in pool'
             \/ \E o \in Mega : byMega'[o] = j
             \/ \E u \in Thread : InHand(u)' = j
  <2>1. CASE j \in pool
    BY <2>1
  <2>2. CASE \E o \in Mega : byMega[o] = j
    <3>1. PICK o \in Mega : byMega[o] = j
      BY <2>2
    <3>2. o # m
      BY <3>1, OffloadAssumption
    <3> QED
      BY <1>1, <3>1, <3>2
  <2>3. CASE \E u \in Thread : InHand(u) = j
    <3>1. PICK u \in Thread : InHand(u) = j
      BY <2>3
    <3> QED
      BY <1>1, <3>1
  <2> QED
    BY <2>1, <2>2, <2>3 DEF OnePlace
<1>4. \A o \in Mega : byMega'[o] \notin pool'
  BY <1>1 DEF OnePlace
<1>5. \A o, q \in Mega : byMega'[o] # NoMark /\ byMega'[o] = byMega'[q] => o = q
  BY <1>1 DEF OnePlace
<1>6. NoMark \notin pool
  BY <1>4, <1>1 DEF OnePlace
<1>7. \A u \in Thread : InHand(u)' \notin pool'
  BY <1>6 DEF OnePlace
<1>8. \A u \in Thread, o \in Mega : InHand(u)' # NoMark => byMega'[o] # InHand(u)'
  BY <1>1, <1>2 DEF OnePlace
<1>9. \A u, v \in Thread : InHand(u)' # NoMark /\ InHand(u)' = InHand(v)' => u = v
  BY DEF OnePlace
<1> QED
  BY <1>3, <1>4, <1>5, <1>7, <1>8, <1>9 DEF OnePlace

(* The mark of megaflow m goes back into the pool.                         *)
LEMMA PlaceFreed ==
  ASSUME OnePlace, NEW m \in Mega, byMega[m] # NoMark, NoMark \notin pool,
         byMega \in [Mega -> MarkOrNone], byMega' = [byMega EXCEPT ![m] = NoMark],
         pool' = pool \cup {byMega[m]}, \A u \in Thread : InHand(u)' = InHand(u)
  PROVE  OnePlace'
<1>1. byMega'[m] = NoMark /\ \A o \in Mega \ {m} : byMega'[o] = byMega[o]
  OBVIOUS
<1>2. ASSUME NEW j \in Mark
      PROVE  \/ j \in pool'
             \/ \E o \in Mega : byMega'[o] = j
             \/ \E u \in Thread : InHand(u)' = j
  <2>1. CASE \E o \in Mega : byMega[o] = j
    <3>1. PICK o \in Mega : byMega[o] = j
      BY <2>1
    <3>2. CASE o = m
      BY <3>1, <3>2
    <3>3. CASE o # m
      BY <1>1, <3>1, <3>3
    <3> QED
      BY <3>2, <3>3
  <2> QED
    BY <2>1 DEF OnePlace
<1>3. \A o \in Mega : byMega'[o] \notin pool'
  BY <1>1 DEF OnePlace
<1>4. \A o, q \in Mega : byMega'[o] # NoMark /\ byMega'[o] = byMega'[q] => o = q
  BY <1>1 DEF OnePlace
<1>5. \A u \in Thread : InHand(u)' \notin pool'
  BY DEF OnePlace
<1>6. \A u \in Thread, o \in Mega : InHand(u)' # NoMark => byMega'[o] # InHand(u)'
  BY <1>1 DEF OnePlace
<1>7. \A u, v \in Thread : InHand(u)' # NoMark /\ InHand(u)' = InHand(v)' => u = v
  BY DEF OnePlace
<1> QED
  BY <1>2, <1>3, <1>4, <1>5, <1>6, <1>7 DEF OnePlace

-----------------------------------------------------------------------------
(* Marks: whose each one is.                                               *)

(* Thread u does nothing to a mark, or starts to modify the rule of one    *)
(* its flow has.                                                           *)
Rests(u) ==
  \/ cur'[u] = cur[u]
  \/ /\ cur[u].pc \notin {"del", "drop"} /\ ~(cur[u].pc = "put" /\ ~cur[u].mod)
     /\ \/ cur'[u].pc \notin {"put", "del", "drop"}
        \/ /\ cur'[u].pc = "put" /\ cur'[u].mod
           /\ cur'[u].mark = flow'[cur'[u].flow].mark /\ cur'[u].mark # NoMark

LEMMA MarksKept ==
  ASSUME Typed, Sited, Typed', Sited', OnePlace, MarksAgree, FlowsKept,
         byMega' = byMega, pool' = pool, \A u \in Thread : Rests(u)
  PROVE  OnePlace' /\ MarksAgree'
<1>1. \A u \in Thread : InHand(u)' = InHand(u)
  BY DEF Rests, InHand, At
<1>2. OnePlace'
  BY <1>1, PlaceKept
<1>3. ASSUME NEW j \in Ids
      PROVE  /\ flow'[j].mark = flow[j].mark
             /\ flow[j].mark # NoMark => flow[j].used /\ flow'[j].used
                                          /\ flow'[j].mega = flow[j].mega
             /\ flow'[j].used /\ flow[j].used => flow'[j].mega = flow[j].mega
  BY DEF FlowsKept, Sited, NoFlow
<1>4. \A j \in Ids : flow'[j].mark # NoMark => flow'[j].mark = byMega'[flow'[j].mega]
  BY <1>3 DEF MarksAgree
<1>5. ASSUME NEW u \in Thread, cur[u].pc \in {"put", "del", "drop"}, cur'[u] = cur[u]
      PROVE  cur[u].flow \in Ids /\ Its(u)' = flow'[cur[u].flow] /\ Its(u)'.mega = Its(u).mega
             /\ Its(u)'.mark = Its(u).mark /\ Its(u)'.mega \in Mega /\ Its(u).mega \in Mega
  <2>1. cur[u].flow \in Ids /\ cur'[u].flow = cur[u].flow
    BY <1>5 DEF Sited, Busy, Typed, CurType
  <2>2. flow[cur[u].flow].used /\ flow'[cur[u].flow].used
    BY <2>1, FlowTypes DEF Sited, Serves
  <2> QED
    BY <1>3, <2>1, <2>2 DEF Its, Sited
<1>6. ASSUME NEW m \in Mega, byMega'[m] # NoMark
      PROVE  \/ \E i \in Ids : flow'[i].mega = m /\ flow'[i].mark # NoMark
             \/ cur'[ThreadOf[m]].pc \in {"del", "drop"} /\ Its(ThreadOf[m])'.mega = m
  <2>1. CASE \E i \in Ids : flow[i].mega = m /\ flow[i].mark # NoMark
    BY <1>3, <2>1
  <2>2. CASE cur[ThreadOf[m]].pc \in {"del", "drop"} /\ Its(ThreadOf[m]).mega = m
    <3>1. ThreadOf[m] \in Thread
      BY OffloadAssumption
    <3>2. cur'[ThreadOf[m]] = cur[ThreadOf[m]]
      BY <2>2, <3>1 DEF Rests
    <3> QED
      BY <1>5, <2>2, <3>1, <3>2
  <2> QED
    BY <1>6, <2>1, <2>2 DEF MarksAgree
<1>7. ASSUME NEW u \in Thread
      PROVE  /\ At(u, "put")' => cur'[u].mark # NoMark
             /\ At(u, "put")' /\ ~cur'[u].mod => byMega'[Its(u)'.mega] = NoMark
             /\ At(u, "put")' /\ cur'[u].mod => cur'[u].mark = Its(u)'.mark
             /\ cur'[u].pc \in {"del", "drop"} =>
                  /\ cur'[u].mark # NoMark /\ cur'[u].mark = byMega'[Its(u)'.mega]
                  /\ \A i \in Ids : flow'[i].mega = Its(u)'.mega => flow'[i].mark = NoMark
  <2>1. CASE cur'[u] = cur[u] /\ cur[u].pc \in {"put", "del", "drop"}
    <3>1. ASSUME cur[u].pc \in {"del", "drop"}, NEW i \in Ids, flow'[i].mega = Its(u)'.mega
          PROVE  flow'[i].mark = NoMark
      BY <1>3, <1>5, <2>1, <3>1 DEF MarksAgree
    <3>2. Its(u)'.mega = Its(u).mega /\ Its(u)'.mark = Its(u).mark
      BY <1>5, <2>1
    <3> QED
      BY <2>1, <3>1, <3>2 DEF MarksAgree, At
  <2>2. CASE cur'[u].pc \notin {"put", "del", "drop"}
    BY <2>2 DEF At
  <2>3. CASE cur'[u] # cur[u] /\ cur'[u].pc \in {"put", "del", "drop"}
    BY <2>3 DEF Rests, At, Its
  <2> QED
    BY <2>1, <2>2, <2>3
<1>8. MarksAgree'
  BY <1>4, <1>6, <1>7 DEF MarksAgree
<1> QED
  BY <1>2, <1>8

(* Only flow i and its megaflow change, and thread t, which serves it.     *)
LocalTo(t, i) ==
  /\ flow[i].used /\ Server(i) = t /\ flow'[i].mega = flow[i].mega
  /\ cur[t].flow \in {0, i} /\ cur'[t].flow = i
  /\ \A u \in Thread \ {t} : cur'[u] = cur[u]
  /\ \A j \in Ids \ {i} : flow'[j] = flow[j]
  /\ \A o \in Mega \ {flow[i].mega} : byMega'[o] = byMega[o]

(* What the marks of the megaflow are then.                                *)
NewMarks(t, i) ==
  /\ \A j \in Ids : flow'[j].mega = flow[i].mega /\ flow'[j].mark # NoMark =>
       flow'[j].mark = byMega'[flow[i].mega]
  /\ byMega'[flow[i].mega] # NoMark =>
       \/ \E j \in Ids : flow'[j].mega = flow[i].mega /\ flow'[j].mark # NoMark
       \/ cur'[t].pc \in {"del", "drop"}
  /\ cur'[t].pc = "put" =>
       /\ cur'[t].mark # NoMark
       /\ IF cur'[t].mod THEN cur'[t].mark = flow'[i].mark ELSE byMega'[flow[i].mega] = NoMark
  /\ cur'[t].pc \in {"del", "drop"} =>
       /\ cur'[t].mark # NoMark /\ cur'[t].mark = byMega'[flow[i].mega]
       /\ \A j \in Ids : flow'[j].mega = flow[i].mega => flow'[j].mark = NoMark

LEMMA LocalMarks ==
  ASSUME Typed, Sited, Typed', Sited', MarksAgree, NEW t \in Thread, NEW i \in Ids,
         LocalTo(t, i), NewMarks(t, i)
  PROVE  MarksAgree'
<1> DEFINE m == flow[i].mega
<1>1. m \in Mega /\ ThreadOf[m] = t /\ flow'[i].mega = m
  BY DEF LocalTo, Sited, Server
<1>2. \A j \in Ids : flow[j].mega # m \/ flow'[j].mega # m => flow'[j] = flow[j]
  BY DEF LocalTo
<1>3. \A j \in Ids : flow'[j].mark # NoMark => flow'[j].mega \in Mega
  BY DEF Sited, NoFlow
<1>4. ASSUME NEW j \in Ids, flow'[j].mark # NoMark
      PROVE  flow'[j].mark = byMega'[flow'[j].mega]
  BY <1>2, <1>3, <1>4 DEF LocalTo, NewMarks, MarksAgree
<1>5. ASSUME NEW u \in Thread \ {t}, cur[u].pc \in {"put", "del", "drop"}
      PROVE  cur'[u] = cur[u] /\ Its(u)' = Its(u) /\ Its(u).mega \in Mega \ {m}
  <2>1. cur[u].flow \in Ids /\ Its(u) = flow[cur[u].flow] /\ Its(u).mega \in Mega
        /\ ThreadOf[Its(u).mega] = u
    BY <1>5, WorkServed DEF Busy
  <2>2. Its(u).mega # m
    BY <1>1, <2>1
  <2>3. cur[u].flow # i
    BY <2>1, <2>2
  <2> QED
    BY <2>1, <2>2, <2>3 DEF LocalTo, Its
<1>6. ASSUME NEW o \in Mega, byMega'[o] # NoMark
      PROVE  \/ \E j \in Ids : flow'[j].mega = o /\ flow'[j].mark # NoMark
             \/ cur'[ThreadOf[o]].pc \in {"del", "drop"} /\ Its(ThreadOf[o])'.mega = o
  <2>1. CASE o = m
    <3>1. Its(t)'.mega = m
      BY <1>1 DEF LocalTo, Its
    <3> QED
      BY <1>1, <1>6, <2>1, <3>1 DEF NewMarks
  <2>2. CASE o # m
    <3>1. byMega[o] # NoMark
      BY <1>6, <2>2 DEF LocalTo
    <3>2. CASE \E j \in Ids : flow[j].mega = o /\ flow[j].mark # NoMark
      BY <1>2, <2>2, <3>2
    <3>3. CASE cur[ThreadOf[o]].pc \in {"del", "drop"} /\ Its(ThreadOf[o]).mega = o
      <4>1. ThreadOf[o] \in Thread
        BY OffloadAssumption
      <4>2. ThreadOf[o] # t
        <5>1. SUFFICES ASSUME ThreadOf[o] = t PROVE FALSE
          OBVIOUS
        <5>2. cur[t].flow \in Ids
          BY <3>3, <5>1, WorkServed DEF Busy
        <5>3. cur[t].flow = i
          BY <5>2, FlowTypes DEF LocalTo
        <5> QED
          BY <2>2, <3>3, <5>1, <5>3 DEF Its
      <4> QED
        BY <1>5, <3>3, <4>1, <4>2
    <3> QED
      BY <3>1, <3>2, <3>3 DEF MarksAgree
  <2> QED
    BY <2>1, <2>2
<1>7. ASSUME NEW u \in Thread
      PROVE  /\ At(u, "put")' => cur'[u].mark # NoMark
             /\ At(u, "put")' /\ ~cur'[u].mod => byMega'[Its(u)'.mega] = NoMark
             /\ At(u, "put")' /\ cur'[u].mod => cur'[u].mark = Its(u)'.mark
             /\ cur'[u].pc \in {"del", "drop"} =>
                  /\ cur'[u].mark # NoMark /\ cur'[u].mark = byMega'[Its(u)'.mega]
                  /\ \A j \in Ids : flow'[j].mega = Its(u)'.mega => flow'[j].mark = NoMark
  <2>1. CASE u = t
    <3>1. Its(u)'.mega = m /\ Its(u)'.mark = flow'[i].mark
      BY <1>1, <2>1 DEF LocalTo, Its
    <3> HIDE DEF m
    <3> QED
      BY <2>1, <3>1 DEF NewMarks, At, m
  <2>2. CASE u # t /\ cur'[u].pc \in {"put", "del", "drop"}
    <3>1. u \in Thread \ {t} /\ cur'[u] = cur[u]
      BY <2>2 DEF LocalTo
    <3>2. Its(u)' = Its(u) /\ Its(u).mega \in Mega \ {m}
      BY <1>5, <2>2, <3>1
    <3>3. byMega'[Its(u).mega] = byMega[Its(u).mega]
      BY <3>2 DEF LocalTo
    <3>4. ASSUME cur[u].pc \in {"del", "drop"}, NEW j \in Ids, flow'[j].mega = Its(u).mega
          PROVE  flow'[j].mark = NoMark
      BY <1>2, <3>2, <3>4 DEF MarksAgree
    <3> QED
      BY <3>1, <3>2, <3>3, <3>4 DEF MarksAgree, At
  <2>3. CASE cur'[u].pc \notin {"put", "del", "drop"}
    BY <2>3 DEF At
  <2> QED
    BY <2>1, <2>2, <2>3
<1> QED
  BY <1>4, <1>6, <1>7 DEF MarksAgree

(* Flows, marks and pool are as they were but for references.              *)
LEMMA FlowsSame ==
  ASSUME flow' = flow
  PROVE  FlowsKept
BY DEF FlowsKept

LEMMA PutSharedMarks ==
  ASSUME Typed, Sited, Typed', Sited', OnePlace, MarksAgree, NEW t \in Thread, PutShared(t)
  PROVE  OnePlace' /\ MarksAgree'
<1>1. Take(t, {"add", "mod"}) /\ Serve(t, "done", NoMark, FALSE)
      /\ UNCHANGED <<byMega, pool, hw, portVars>>
  BY DEF PutShared
<1> DEFINE i == Head(queue[t]).flow
           m == flow[i].mega
           g == IF flow[i].mark # NoMark THEN flow[i] ELSE [Ref(flow[i]) EXCEPT !.mark = byMega[m]]
<1>2. /\ i \in Ids /\ flow[i].used /\ flow[i] \in FlowType /\ m \in Mega /\ Server(i) = t
      /\ cur[t].flow = 0 /\ cur[t].pc = "idle" /\ Head(queue[t]) \in Request
  BY <1>1, HeadServed
<1>3. byMega[m] # NoMark /\ byMega[m] \in MarkOrNone
  BY <1>2 DEF PutShared, Typed
<1>4. flow'[i] = g /\ \A j \in Ids \ {i} : flow'[j] = flow[j]
  BY <1>2 DEF PutShared, Typed
<1>5. g.mega = m /\ g.mark = byMega[m]
  <2>1. CASE flow[i].mark # NoMark
    BY <1>2, <2>1 DEF MarksAgree
  <2>2. CASE flow[i].mark = NoMark
    <3>1. Ref(flow[i]) \in FlowType /\ Ref(flow[i]).mega = m
      BY <1>2, RefFields
    <3> QED
      BY <2>2, <3>1 DEF FlowType
  <2> QED
    BY <2>1, <2>2
<1>6. /\ cur'[t].pc = "done" /\ cur'[t].flow = i /\ \A u \in Thread \ {t} : cur'[u] = cur[u]
  BY <1>1, <1>2, ServeType, FlowTypes DEF Busy
<1> HIDE DEF g
<1>7. OnePlace'
  <2>1. \A u \in Thread : InHand(u)' = InHand(u)
    BY <1>2, <1>6 DEF InHand, At
  <2> QED
    BY <1>1, <2>1, PlaceKept
<1>8. LocalTo(t, i)
  BY <1>1, <1>2, <1>4, <1>5, <1>6 DEF LocalTo
<1>9. NewMarks(t, i)
  <2>1. ASSUME NEW j \in Ids, flow'[j].mega = m, flow'[j].mark # NoMark
        PROVE  flow'[j].mark = byMega'[m]
    BY <1>1, <1>4, <1>5, <2>1 DEF MarksAgree
  <2>2. flow'[i].mega = m /\ flow'[i].mark # NoMark
    BY <1>3, <1>4, <1>5
  <2> QED
    BY <1>2, <1>6, <2>1, <2>2 DEF NewMarks
<1> HIDE DEF i
<1> QED
  BY <1>2, <1>7, <1>8, <1>9, LocalMarks

LEMMA PutNewMarks ==
  ASSUME Typed, Sited, Typed', Sited', OnePlace, MarksAgree, NEW t \in Thread,
         NEW k \in pool, Take(t, {"add", "mod"}), Serve(t, "put", k, FALSE),
         pool' = pool \ {k}, byMega[flow[Head(queue[t]).flow].mega] = NoMark,
         UNCHANGED <<flow, byMega>>
  PROVE  OnePlace' /\ MarksAgree'
<1> DEFINE i == Head(queue[t]).flow
<1>1. /\ i \in Ids /\ flow[i].used /\ flow[i].mega \in Mega /\ Server(i) = t
      /\ cur[t].flow = 0 /\ cur[t].pc = "idle" /\ Head(queue[t]) \in Request
  BY HeadServed
<1>2. k \in Mark /\ k # NoMark /\ k \in MarkOrNone
  BY OffloadAssumption DEF Typed, MarkOrNone
<1>3. /\ cur'[t].pc = "put" /\ cur'[t].flow = i /\ cur'[t].mark = k /\ ~cur'[t].mod
      /\ \A u \in Thread \ {t} : cur'[u] = cur[u]
  BY <1>1, <1>2, ServeType DEF Busy
<1>4. OnePlace'
  <2>1. InHand(t) = NoMark /\ InHand(t)' = k /\ \A u \in Thread \ {t} : InHand(u)' = InHand(u)
    BY <1>1, <1>3 DEF InHand, At
  <2> QED
    BY <1>2, <2>1, PlaceTaken
<1>5. LocalTo(t, i)
  BY <1>1, <1>3 DEF LocalTo
<1>6. NewMarks(t, i)
  <2>1. \A j \in Ids : flow'[j].mega = flow[i].mega /\ flow'[j].mark # NoMark =>
                          flow'[j].mark = byMega'[flow[i].mega]
    BY DEF MarksAgree
  <2> QED
    BY <1>2, <1>3, <2>1 DEF NewMarks
<1> HIDE DEF i
<1> QED
  BY <1>1, <1>4, <1>5, <1>6, LocalMarks

(* The rule of a new mark is in the hardware.                              *)
LEMMA PutDoneMarks ==
  ASSUME Typed, Sited, Counted, Typed', Sited', OnePlace, MarksAgree,
         NEW t \in Thread, PutDone(t)
  PROVE  OnePlace' /\ MarksAgree'
<1> DEFINE i == cur[t].flow
           m == flow[i].mega
<1>1. cur[t].pc = "put" /\ pool' = pool
  BY DEF PutDone, At
<1>2. Worked(t, "done", cur[t].mark, IF cur[t].mod THEN Its(t).mark ELSE cur[t].mark)
  BY PutDoneStep
<1>3. /\ i \in Ids /\ Its(t) = flow[i] /\ flow[i].used /\ Server(i) = t /\ m \in Mega
      /\ cur[t] \in CurType
  BY <1>1, WorkServed DEF Busy
<1>4. CASE cur[t].mod
  <2>1. byMega' = byMega /\ flow' = flow
    BY <1>4 DEF PutDone
  <2>2. \A u \in Thread : Rests(u)
    BY <1>1, <1>2, <1>4 DEF Rests, Worked
  <2> QED
    BY <1>1, <2>1, <2>2, FlowsSame, MarksKept
<1>5. CASE ~cur[t].mod
  <2>1. cur[t].mark # NoMark /\ byMega[m] = NoMark /\ byMega \in [Mega -> MarkOrNone]
    BY <1>1, <1>3, <1>5 DEF MarksAgree, At, Typed
  <2>2. byMega' = [byMega EXCEPT ![m] = cur[t].mark]
    BY <1>3, <1>5 DEF PutDone
  <2>3. InHand(t) = cur[t].mark /\ InHand(t)' = NoMark
        /\ \A u \in Thread \ {t} : InHand(u)' = InHand(u)
    BY <1>1, <1>2, <1>5 DEF InHand, At, Worked
  <2>4. OnePlace'
    BY <1>1, <1>3, <2>1, <2>2, <2>3, PlaceBound
  <2>5. byMega'[m] = cur[t].mark /\ \A o \in Mega \ {m} : byMega'[o] = byMega[o]
    BY <1>3, <2>1, <2>2
  <2>6. flow'[i].mark = cur[t].mark /\ flow'[i].mega = m /\ \A j \in Ids \ {i} : flow'[j] = flow[j]
    BY <1>2, <1>3, <1>5 DEF Worked
  <2>7. LocalTo(t, i)
    BY <1>2, <1>3, <2>5, <2>6 DEF LocalTo, Worked
  <2>8. NewMarks(t, i)
    <3>1. ASSUME NEW j \in Ids, flow'[j].mega = m, flow'[j].mark # NoMark
          PROVE  flow'[j].mark = byMega'[m]
      BY <2>1, <2>5, <2>6, <3>1 DEF MarksAgree
    <3>2. cur'[t].pc = "done"
      BY <1>2 DEF Worked
    <3> QED
      BY <1>3, <2>1, <2>6, <3>1, <3>2 DEF NewMarks
  <2> HIDE DEF i
  <2> QED
    BY <1>3, <2>4, <2>7, <2>8, LocalMarks
<1> QED
  BY <1>4, <1>5

LEMMA PutFailedMarks ==
  ASSUME Typed, Sited, Counted, Typed', Sited', OnePlace, MarksAgree,
         NEW t \in Thread, PutFailed(t)
  PROVE  OnePlace' /\ MarksAgree'
<1> DEFINE i == cur[t].flow
           step == IF cur[t].mod THEN "dis" ELSE "done"
<1>1. /\ cur[t].pc = "put" /\ flow' = flow /\ byMega' = byMega
      /\ pool' = (IF cur[t].mod THEN pool ELSE pool \cup {cur[t].mark}) /\ Goto(t, step)
  BY DEF PutFailed, At, flowVars
<1>2. /\ cur'[t].pc = step /\ cur'[t].flow = i /\ \A u \in Thread \ {t} : cur'[u] = cur[u]
  BY <1>1, GotoType DEF Busy
<1>3. /\ i \in Ids /\ Its(t) = flow[i] /\ flow[i].used /\ Server(i) = t /\ flow[i].mega \in Mega
  BY <1>1, WorkServed DEF Busy
<1>4. CASE cur[t].mod
  <2>1. pool' = pool /\ cur'[t].pc = "dis"
    BY <1>1, <1>2, <1>4
  <2>2. \A u \in Thread : Rests(u)
    BY <1>1, <1>2, <1>4, <2>1 DEF Rests
  <2> QED
    BY <1>1, <2>1, <2>2, FlowsSame, MarksKept
<1>5. CASE ~cur[t].mod
  <2>1. cur[t].mark # NoMark /\ byMega[flow[i].mega] = NoMark /\ cur'[t].pc = "done"
    BY <1>1, <1>2, <1>3, <1>5 DEF MarksAgree, At
  <2>2. InHand(t) = cur[t].mark /\ InHand(t)' = NoMark
        /\ \A u \in Thread \ {t} : InHand(u)' = InHand(u)
    BY <1>1, <1>2, <1>5, <2>1 DEF InHand, At
  <2>3. OnePlace'
    <3>1. pool' = pool \cup {InHand(t)} /\ NoMark \notin pool
      BY <1>1, <1>5, <2>2, OffloadAssumption DEF Typed
    <3> QED
      BY <1>1, <2>1, <2>2, <3>1, PlaceReturned
  <2>4. LocalTo(t, i)
    BY <1>1, <1>2, <1>3 DEF LocalTo
  <2>5. NewMarks(t, i)
    <3>1. \A j \in Ids : flow'[j].mega = flow[i].mega /\ flow'[j].mark # NoMark =>
                            flow'[j].mark = byMega'[flow[i].mega]
      BY <1>1 DEF MarksAgree
    <3> QED
      BY <1>1, <2>1, <3>1 DEF NewMarks
  <2> HIDE DEF i
  <2> QED
    BY <1>3, <2>3, <2>4, <2>5, LocalMarks
<1> QED
  BY <1>4, <1>5

LEMMA DisSharedMarks ==
  ASSUME Typed, Sited, Counted, Typed', Sited', OnePlace, MarksAgree,
         NEW t \in Thread, DisShared(t)
  PROVE  OnePlace' /\ MarksAgree'
<1> DEFINE i == cur[t].flow
           m == flow[i].mega
<1>1. cur[t].pc = "dis" /\ byMega' = byMega /\ pool' = pool
  BY DEF DisShared, At
<1>2. Worked(t, "done", cur[t].mark, NoMark)
  BY DisSharedStep
<1>3. i \in Ids /\ Its(t) = flow[i] /\ flow[i].used /\ Server(i) = t /\ m \in Mega
  BY <1>1, WorkServed DEF Busy
<1>4. OnePlace'
  <2>1. \A u \in Thread : InHand(u)' = InHand(u)
    BY <1>1, <1>2 DEF InHand, At, Worked
  <2> QED
    BY <1>1, <2>1, PlaceKept
<1>5. LocalTo(t, i)
  BY <1>1, <1>2, <1>3 DEF LocalTo, Worked
<1>6. /\ flow'[i].mark = NoMark /\ cur'[t].pc = "done"
      /\ \A j \in Ids \ {i} : flow'[j] = flow[j]
  BY <1>2 DEF Worked
<1>7. PICK j \in Ids \ {i} : flow[j].mark = flow[i].mark
  BY <1>3 DEF DisShared, Shared
<1>8. flow'[j].mega = m /\ flow'[j].mark # NoMark
  <2>1. flow[i].mark # NoMark
    BY <1>3 DEF DisShared
  <2>2. byMega[flow[j].mega] = byMega[m] /\ byMega[m] # NoMark
    BY <1>3, <1>7, <2>1 DEF MarksAgree
  <2>3. flow[j].mega \in Mega
    BY <1>7, <2>1 DEF Sited, NoFlow
  <2>4. flow[j].mega = m
    BY <1>3, <2>2, <2>3 DEF OnePlace
  <2> QED
    BY <1>6, <1>7, <2>1, <2>4
<1>9. NewMarks(t, i)
  <2>1. ASSUME NEW k \in Ids, flow'[k].mega = m, flow'[k].mark # NoMark
        PROVE  flow'[k].mark = byMega'[m]
    BY <1>1, <1>6, <2>1 DEF MarksAgree
  <2> QED
    BY <1>6, <1>8, <2>1 DEF NewMarks
<1> HIDE DEF i
<1> QED
  BY <1>3, <1>4, <1>5, <1>9, LocalMarks

LEMMA DisLastMarks ==
  ASSUME Typed, Sited, Counted, Typed', Sited', OnePlace, MarksAgree,
         NEW t \in Thread, DisLast(t)
  PROVE  OnePlace' /\ MarksAgree'
<1> DEFINE i == cur[t].flow
           m == flow[i].mega
<1>1. cur[t].pc = "dis" /\ byMega' = byMega /\ pool' = pool
  BY DEF DisLast, At
<1>2. PICK step \in {"del", "drop"} : Worked(t, step, Its(t).mark, NoMark)
  BY DisLastStep
<1>3. i \in Ids /\ Its(t) = flow[i] /\ flow[i].used /\ Server(i) = t /\ m \in Mega
  BY <1>1, WorkServed DEF Busy
<1>4. OnePlace'
  <2>1. \A u \in Thread : InHand(u)' = InHand(u)
    BY <1>1, <1>2 DEF InHand, At, Worked
  <2> QED
    BY <1>1, <2>1, PlaceKept
<1>5. LocalTo(t, i)
  BY <1>1, <1>2, <1>3 DEF LocalTo, Worked
<1>6. /\ flow'[i].mark = NoMark /\ cur'[t].pc = step /\ cur'[t].mark = flow[i].mark
      /\ \A j \in Ids \ {i} : flow'[j] = flow[j]
  BY <1>2, <1>3 DEF Worked
<1>7. flow[i].mark # NoMark /\ flow[i].mark = byMega[m]
  BY <1>3 DEF DisLast, MarksAgree
<1>8. ASSUME NEW j \in Ids, flow'[j].mega = m
      PROVE  flow'[j].mark = NoMark
  <2>1. CASE j = i
    BY <1>6, <2>1
  <2>2. CASE j # i
    <3>1. flow[j].mark # flow[i].mark
      BY <1>3, <2>2 DEF DisLast, Shared
    <3> QED
      BY <1>6, <1>7, <1>8, <2>2, <3>1 DEF MarksAgree
  <2> QED
    BY <2>1, <2>2
<1>9. NewMarks(t, i)
  BY <1>1, <1>6, <1>7, <1>8 DEF NewMarks
<1> HIDE DEF i
<1> QED
  BY <1>3, <1>4, <1>5, <1>9, LocalMarks

LEMMA GiveUpMarks ==
  ASSUME Typed, Sited, Counted, Typed', Sited', OnePlace, MarksAgree, NEW t \in Thread,
         cur[t].pc \in {"del", "drop"}, GiveUpMark(t), Worked(t, "done", cur[t].mark, NoMark)
  PROVE  OnePlace' /\ MarksAgree'
<1> DEFINE i == cur[t].flow
           m == flow[i].mega
<1>1. /\ i \in Ids /\ Its(t) = flow[i] /\ flow[i].used /\ Server(i) = t /\ m \in Mega
  BY WorkServed DEF Busy
<1>2. cur[t].mark # NoMark /\ cur[t].mark = byMega[m]
      /\ \A j \in Ids : flow[j].mega = m => flow[j].mark = NoMark
  BY <1>1 DEF MarksAgree
<1>3. byMega \in [Mega -> MarkOrNone] /\ byMega' = [byMega EXCEPT ![m] = NoMark]
      /\ pool' = pool \cup {byMega[m]} /\ NoMark \notin pool
  BY <1>1, <1>2, OffloadAssumption DEF GiveUpMark, Typed
<1>4. OnePlace'
  <2>1. \A u \in Thread : InHand(u)' = InHand(u)
    BY DEF InHand, At, Worked
  <2>2. byMega[m] # NoMark
    BY <1>2
  <2> HIDE DEF m
  <2> QED
    BY <1>1, <1>3, <2>1, <2>2, PlaceFreed
<1>5. byMega'[m] = NoMark /\ \A o \in Mega \ {m} : byMega'[o] = byMega[o]
  BY <1>1, <1>3
<1>6. LocalTo(t, i)
  BY <1>1, <1>5 DEF LocalTo, Worked
<1>7. \A j \in Ids : flow'[j].mega = m => flow'[j].mark = NoMark
  BY <1>1, <1>2 DEF Worked
<1>8. NewMarks(t, i)
  BY <1>5, <1>7 DEF NewMarks, Worked
<1> HIDE DEF i
<1> QED
  BY <1>1, <1>4, <1>6, <1>8, LocalMarks

LEMMA DoneMarks ==
  ASSUME Typed, Sited, Counted, Typed', Sited', OnePlace, MarksAgree,
         NEW t \in Thread, Done(t)
  PROVE  OnePlace' /\ MarksAgree'
<1>1. cur[t].pc = "done" /\ byMega' = byMega /\ pool' = pool
  BY DEF Done, At
<1>2. /\ cur[t].flow \in Ids /\ cur'[t] = Idle /\ \A u \in Thread \ {t} : cur'[u] = cur[u]
      /\ flow'[cur[t].flow].mark = Its(t).mark
      /\ \/ flow'[cur[t].flow].mega = Its(t).mega
         \/ flow'[cur[t].flow].mega = 0 /\ Its(t).mark = NoMark
      /\ \A j \in Ids \ {cur[t].flow} : flow'[j] = flow[j]
  BY DoneStep
<1>3. Its(t) = flow[cur[t].flow]
  BY DEF Its
<1>4. \A u \in Thread : Rests(u)
  BY <1>1, <1>2 DEF Rests, Idle
<1>5. FlowsKept
  <2>1. flow' \in [Ids -> FlowType]
    BY DEF Typed
  <2>2. cur[t].flow \in Ids /\ flow'[cur[t].flow].used => flow'[cur[t].flow].mega = Its(t).mega
    <3>1. cur[t].pc \in Busy
      BY <1>1 DEF Busy
    <3> DEFINE f == Its(t)
    <3>2. f \in FlowType /\ flow \in [Ids -> FlowType]
      BY <3>1, WorkServed DEF Typed
    <3>3. flow'[cur[t].flow] = Unref(f)
      BY <1>2, <1>3 DEF Done, Typed
    <3>4. Unref(f) = NoFlow \/ Unref(f).mega = f.mega
      BY <3>2 DEF Unref, FlowType
    <3> QED
      BY <1>2, <3>3, <3>4 DEF NoFlow
  <2> QED
    BY <1>2, <1>3, <2>2 DEF FlowsKept
<1> QED
  BY <1>1, <1>4, <1>5, MarksKept

LEMMA ThreadMarks ==
  ASSUME Typed, Sited, Counted, Typed', Sited', OnePlace, MarksAgree,
         NEW t \in Thread, ThreadStep(t)
  PROVE  OnePlace' /\ MarksAgree'
<1>1. CASE TakeDel(t) \/ PutDead(t)
  <2>1. PICK ops \in {{"del"}, {"add", "mod"}}, step \in {"dis", "done"} :
          Take(t, ops) /\ Serve(t, step, NoMark, FALSE) /\ UNCHANGED <<flow, byMega, pool>>
    BY <1>1 DEF TakeDel, PutDead
  <2>2. Head(queue[t]) \in Request /\ cur[t].pc = "idle"
    BY <2>1, TakeType
  <2>3. cur'[t].pc \in {"dis", "done"} /\ \A u \in Thread \ {t} : cur'[u] = cur[u]
    BY <2>1, <2>2, ServeType, FlowTypes DEF Busy
  <2>4. \A u \in Thread : Rests(u)
    BY <2>2, <2>3 DEF Rests
  <2> QED
    BY <2>1, <2>4, FlowsSame, MarksKept
<1>2. CASE TakeFlush(t)
  <2>1. UNCHANGED <<flow, byMega, pool>>
    BY <1>2 DEF TakeFlush
  <2>2. \A u \in Thread : Rests(u)
    BY <1>2, TakeFlushStep DEF Rests
  <2> QED
    BY <2>1, <2>2, FlowsSame, MarksKept
<1>3. CASE PutMod(t)
  <2> DEFINE f == flow[Head(queue[t]).flow]
             step == IF InPort[f.mega] \in mapped THEN "put" ELSE "dis"
  <2>1. /\ Take(t, {"mod"}) /\ Serve(t, step, f.mark, TRUE) /\ UNCHANGED <<flow, byMega, pool>>
        /\ f.mark # NoMark
    BY <1>3 DEF PutMod
  <2>2. f \in FlowType /\ Head(queue[t]) \in Request /\ cur[t].pc = "idle"
    BY <2>1, HeadServed
  <2>3. f.mark \in MarkOrNone /\ step \in Busy
    BY <2>2 DEF FlowType, Busy
  <2>4. /\ cur'[t].pc = step /\ cur'[t].flow = Head(queue[t]).flow /\ cur'[t].mark = f.mark
        /\ cur'[t].mod /\ \A u \in Thread \ {t} : cur'[u] = cur[u]
    <3>1. Serve(t, step, f.mark, TRUE)
      BY <2>1
    <3>2. step \in {"idle"} \cup Busy \cup Waits /\ f.mark \in MarkOrNone
      BY <2>3
    <3> HIDE DEF f, step
    <3> QED
      BY <2>2, <3>1, <3>2, ServeType, ZenonT(30)
  <2>5. Rests(t)
    BY <2>1, <2>2, <2>4 DEF Rests
  <2>6. \A u \in Thread : Rests(u)
    BY <2>4, <2>5 DEF Rests
  <2> QED
    BY <2>1, <2>6, FlowsSame, MarksKept
<1>4. CASE PutShared(t)
  BY <1>4, PutSharedMarks
<1>5. CASE PutNew(t)
  <2>1. /\ Take(t, {"add", "mod"}) /\ UNCHANGED <<flow, byMega, hw, portVars>>
        /\ byMega[flow[Head(queue[t]).flow].mega] = NoMark
        /\ \/ Serve(t, "done", NoMark, FALSE) /\ UNCHANGED pool
           \/ \E k \in pool : pool' = pool \ {k} /\ Serve(t, "put", k, FALSE)
    BY <1>5 DEF PutNew
  <2>2. CASE Serve(t, "done", NoMark, FALSE) /\ UNCHANGED pool
    <3>1. Head(queue[t]) \in Request /\ cur[t].pc = "idle"
      BY <2>1, TakeType
    <3>2. cur'[t].pc = "done" /\ \A u \in Thread \ {t} : cur'[u] = cur[u]
      BY <2>2, <3>1, ServeType, FlowTypes DEF Busy
    <3>3. \A u \in Thread : Rests(u)
      BY <3>1, <3>2 DEF Rests
    <3> QED
      BY <2>1, <2>2, <3>3, FlowsSame, MarksKept
  <2>3. CASE \E k \in pool : pool' = pool \ {k} /\ Serve(t, "put", k, FALSE)
    BY <2>1, <2>3, PutNewMarks
  <2> QED
    BY <2>1, <2>2, <2>3
<1>6. CASE PutDone(t)
  BY <1>6, PutDoneMarks
<1>7. CASE PutFailed(t)
  BY <1>7, PutFailedMarks
<1>8. CASE DisNone(t)
  <2>1. cur[t].pc = "dis" /\ Goto(t, "done") /\ UNCHANGED <<flow, byMega, pool>>
    BY <1>8 DEF DisNone, At, flowVars
  <2>2. cur'[t].pc = "done" /\ \A u \in Thread \ {t} : cur'[u] = cur[u]
    BY <2>1, GotoType DEF Busy
  <2>3. \A u \in Thread : Rests(u)
    BY <2>1, <2>2 DEF Rests
  <2> QED
    BY <2>1, <2>3, FlowsSame, MarksKept
<1>9. CASE DisShared(t)
  BY <1>9, DisSharedMarks
<1>10. CASE DisLast(t)
  BY <1>10, DisLastMarks
<1>11. CASE HwDel(t) \/ DropMark(t)
  <2>1. cur[t].pc \in {"del", "drop"} /\ GiveUpMark(t) /\ UNCHANGED <<queue, portVars>>
    BY <1>11 DEF HwDel, DropMark, At
  <2>2. hw' \in [Mega -> MarkOrNone]
    BY DEF Typed
  <2>3. Worked(t, "done", cur[t].mark, NoMark)
    BY <2>1, <2>2, GiveUpStep
  <2> QED
    BY <2>1, <2>3, GiveUpMarks
<1>12. CASE Done(t)
  BY <1>12, DoneMarks
<1>13. CASE Flush(t)
  <2>1. UNCHANGED <<flow, byMega, pool>>
    BY <1>13 DEF Flush, flowVars
  <2>2. \A u \in Thread : Rests(u)
    BY <1>13, FlushStep DEF Rests
  <2> QED
    BY <2>1, <2>2, FlowsSame, MarksKept
<1> QED
  BY <1>1, <1>2, <1>3, <1>4, <1>5, <1>6, <1>7, <1>8, <1>9, <1>10, <1>11, <1>12, <1>13
     DEF ThreadStep

(* Marks, of every step.                                                   *)
LEMMA NextMarks ==
  ASSUME Inv, [Next]_vars
  PROVE  OnePlace' /\ MarksAgree'
<1>1. Typed' /\ Sited' /\ Counted'
  BY NextRefs
<1> USE DEF Inv
<1>2. CASE \E t \in Thread : ThreadStep(t)
  BY <1>1, <1>2, ThreadMarks
<1>3. CASE \E p \in Pmd, m \in Mega : AddFlow(p, m)
  <2>1. PICK p \in Pmd, m \in Mega : AddFlow(p, m)
    BY <1>3
  <2>2. FlowsKept
    BY <2>1, AddFlowStep
  <2>3. UNCHANGED <<byMega, pool, cur>>
    BY <2>1 DEF AddFlow
  <2> QED
    BY <1>1, <2>2, <2>3, MarksKept DEF Rests
<1>4. CASE \E i \in Ids : ModFlow(i) \/ RemoveFlow(i) \/ SetDead(i)
  <2>1. UNCHANGED <<byMega, pool, cur>> /\ FlowsKept
    BY <1>4, ModRemoveStep, SetDeadStep DEF ModFlow, RemoveFlow, SetDead
  <2> QED
    BY <1>1, <2>1, MarksKept DEF Rests
<1>5. CASE MainNext
  <2>1. UNCHANGED <<byMega, pool>> /\ FlowsKept /\ Aside
    BY <1>5, MainStep, FlowsSame
  <2>2. \A u \in Thread : Rests(u)
    BY <2>1 DEF Aside, Rests, Busy
  <2> QED
    BY <1>1, <2>1, <2>2, MarksKept
<1>6. CASE UNCHANGED vars
  <2>1. UNCHANGED <<byMega, pool, cur>> /\ FlowsKept
    BY <1>6, FlowsSame DEF vars
  <2> QED
    BY <1>1, <2>1, MarksKept DEF Rests
<1> QED
  BY <1>2, <1>3, <1>4, <1>5, <1>6 DEF Next, MainNext

-----------------------------------------------------------------------------
(* Flushes.                                                                *)

LEMMA FlushAppend ==
  ASSUME NEW s \in Seq(Request), NEW r \in Request
  PROVE  /\ HasFlush(Append(s, r)) <=> HasFlush(s) \/ IsFlush(r)
         /\ OneFlush(s) /\ ~(HasFlush(s) /\ IsFlush(r)) => OneFlush(Append(s, r))
         /\ Len(Append(s, r)) = Len(s) + 1
<1>1. /\ Len(Append(s, r)) = Len(s) + 1 /\ Len(s) \in Nat /\ Append(s, r)[Len(s) + 1] = r
      /\ \A n \in 1 .. Len(s) : Append(s, r)[n] = s[n]
  OBVIOUS
<1>2. \A n \in 1 .. Len(s) + 1 : n \in 1 .. Len(s) \/ n = Len(s) + 1
  BY <1>1
<1>3. Len(s) + 1 \in 1 .. Len(s) + 1 /\ \A n \in 1 .. Len(s) : n \in 1 .. Len(s) + 1
  BY <1>1
<1> QED
  BY <1>1, <1>2, <1>3 DEF HasFlush, OneFlush

LEMMA FlushTail ==
  ASSUME NEW s \in Seq(Request), s # <<>>, OneFlush(s)
  PROVE  /\ OneFlush(Tail(s)) /\ Len(Tail(s)) = Len(s) - 1 /\ Len(s) \in Nat
         /\ HasFlush(Tail(s)) => HasFlush(s)
         /\ IF IsFlush(Head(s)) THEN HasFlush(s) /\ ~HasFlush(Tail(s))
            ELSE HasFlush(s) => HasFlush(Tail(s))
<1>1. /\ Tail(s) \in Seq(Request) /\ Len(Tail(s)) = Len(s) - 1 /\ Len(s) \in Nat \ {0}
      /\ (\A n \in 1 .. Len(s) - 1 : Tail(s)[n] = s[n + 1]) /\ Head(s) = s[1]
  OBVIOUS
<1>2. OneFlush(Tail(s))
  BY <1>1 DEF OneFlush
<1>3. HasFlush(Tail(s)) => HasFlush(s)
  BY <1>1 DEF HasFlush
<1>4. ASSUME IsFlush(Head(s))
      PROVE  HasFlush(s) /\ ~HasFlush(Tail(s))
  BY <1>1, <1>4 DEF HasFlush, OneFlush
<1>5. ASSUME ~IsFlush(Head(s)), HasFlush(s)
      PROVE  HasFlush(Tail(s))
  <2>1. PICK n \in 1 .. Len(s) : IsFlush(s[n])
    BY <1>5 DEF HasFlush
  <2>2. n - 1 \in 1 .. Len(s) - 1 /\ (n - 1) + 1 = n
    BY <1>1, <1>5, <2>1
  <2>3. Tail(s)[n - 1] = s[n]
    BY <1>1, <2>2
  <2> QED
    BY <1>1, <2>1, <2>2, <2>3 DEF HasFlush
<1> QED
  BY <1>1, <1>2, <1>3, <1>4, <1>5

(* Nothing of a flush begins or ends: requests for flows are asked for and *)
(* taken.                                                                  *)
NoFlush ==
  /\ main'.pc = main.pc
  /\ \A u \in Thread :
       /\ cur'[u].pc = cur[u].pc \/ (cur'[u].pc \notin Waits /\ cur[u].pc \notin Waits)
       /\ \/ queue'[u] = queue[u]
          \/ \E r \in Request : ~IsFlush(r) /\ queue'[u] = Append(queue[u], r)
                               /\ Len(queue[u]) < MaxQueue
          \/ queue[u] # <<>> /\ ~IsFlush(Head(queue[u])) /\ queue'[u] = Tail(queue[u])

LEMMA NoFlushStep ==
  ASSUME Typed, Flushes, NoFlush
  PROVE  Flushes'
<1>1. ASSUME NEW u \in Thread
      PROVE  /\ HasFlush(queue'[u]) <=> HasFlush(queue[u])
             /\ OneFlush(queue'[u]) /\ Len(queue'[u]) <= MaxQueue + One(HasFlush(queue'[u]))
  <2>1. queue[u] \in Seq(Request) /\ OneFlush(queue[u]) /\ MaxQueue \in Nat
        /\ Len(queue[u]) <= MaxQueue + One(HasFlush(queue[u]))
    BY OffloadAssumption DEF Typed, Flushes
  <2>2. CASE queue'[u] = queue[u]
    BY <2>1, <2>2
  <2>3. CASE \E r \in Request : ~IsFlush(r) /\ queue'[u] = Append(queue[u], r)
                               /\ Len(queue[u]) < MaxQueue
    <3>1. PICK r \in Request : ~IsFlush(r) /\ queue'[u] = Append(queue[u], r)
                               /\ Len(queue[u]) < MaxQueue
      BY <2>3
    <3>2. /\ HasFlush(queue'[u]) <=> HasFlush(queue[u])
          /\ OneFlush(queue'[u]) /\ Len(queue'[u]) = Len(queue[u]) + 1
      BY <2>1, <3>1, FlushAppend
    <3>3. Len(queue[u]) \in Nat /\ One(HasFlush(queue'[u])) \in {0, 1}
      BY <2>1 DEF One
    <3> QED
      BY <2>1, <3>1, <3>2, <3>3
  <2>4. CASE queue[u] # <<>> /\ ~IsFlush(Head(queue[u])) /\ queue'[u] = Tail(queue[u])
    <3>1. /\ HasFlush(queue'[u]) <=> HasFlush(queue[u])
          /\ OneFlush(queue'[u]) /\ Len(queue'[u]) = Len(queue[u]) - 1 /\ Len(queue[u]) \in Nat
      BY <2>1, <2>4, FlushTail
    <3>2. One(HasFlush(queue'[u])) = One(HasFlush(queue[u])) /\ One(HasFlush(queue[u])) \in {0, 1}
      BY <3>1 DEF One
    <3> QED
      BY <2>1, <3>1, <3>2
  <2> QED
    BY <2>2, <2>3, <2>4 DEF NoFlush
<1>2. \A u \in Thread : HasFlush(queue'[u]) => main'.pc = "barrier1" /\ cur'[u].pc \notin Waits
  BY <1>1 DEF Flushes, NoFlush
<1>3. \A u \in Thread : cur'[u].pc \in {"flush", "barrier1"} => main'.pc = "barrier1"
  BY DEF Flushes, NoFlush, Waits
<1>4. \A u \in Thread : cur'[u].pc = "barrier2" <=> main'.pc \in {"relock", "barrier2"}
  BY DEF Flushes, NoFlush, Waits
<1> QED
  BY <1>1, <1>2, <1>3, <1>4 DEF Flushes

(* Thread t takes a request that is not a flush, or works on its flow.     *)
Begins(t) ==
  \E ops \in SUBSET {"add", "mod", "del"}, step \in Busy, mark \in MarkOrNone, mod \in BOOLEAN :
    Take(t, ops) /\ Serve(t, step, mark, mod)
GoesOn(t) ==
  /\ queue' = queue /\ cur[t].pc \in Busy /\ cur'[t].pc \in Busy \cup {"idle"}
  /\ \A u \in Thread \ {t} : cur'[u] = cur[u]

LEMMA ThreadNoFlush ==
  ASSUME Typed, Sited, Counted, MarksAgree, NEW t \in Thread, ThreadStep(t), ~TakeFlush(t), ~Flush(t)
  PROVE  NoFlush
<1>1. main' = main
  BY DEF ThreadStep, TakeDel, PutDead, PutMod, PutShared, PutNew, PutDone, PutFailed, DisNone,
         DisShared, DisLast, HwDel, DropMark, Done, portVars
<1>2. Begins(t) \/ GoesOn(t)
  <2>0. {"del"} \in SUBSET {"add", "mod", "del"} /\ {"mod"} \in SUBSET {"add", "mod", "del"}
        /\ {"add", "mod"} \in SUBSET {"add", "mod", "del"} /\ "dis" \in Busy /\ "done" \in Busy
        /\ "put" \in Busy /\ FALSE \in BOOLEAN /\ TRUE \in BOOLEAN /\ NoMark \in MarkOrNone
    BY FlowTypes DEF Busy
  <2>1. CASE TakeDel(t) \/ PutDead(t) \/ PutShared(t)
    <3>1. \/ Take(t, {"del"}) /\ Serve(t, "dis", NoMark, FALSE)
          \/ Take(t, {"add", "mod"}) /\ Serve(t, "done", NoMark, FALSE)
      BY <2>1 DEF TakeDel, PutDead, PutShared
    <3> QED
      BY <2>0, <3>1 DEF Begins
  <2>2. CASE PutMod(t)
    <3> DEFINE f == flow[Head(queue[t]).flow]
               step == IF InPort[f.mega] \in mapped THEN "put" ELSE "dis"
    <3>1. Take(t, {"mod"}) /\ Serve(t, step, f.mark, TRUE)
      BY <2>2 DEF PutMod
    <3>2. f.mark \in MarkOrNone /\ step \in Busy
      BY <2>0, <3>1, HeadServed DEF FlowType
    <3> HIDE DEF f, step
    <3> QED
      BY <2>0, <3>1, <3>2 DEF Begins
  <2>3. CASE PutNew(t)
    <3>1. Take(t, {"add", "mod"}) /\ \E step \in Busy, k \in MarkOrNone : Serve(t, step, k, FALSE)
      BY <2>0, <2>3 DEF PutNew, Typed, MarkOrNone
    <3> QED
      BY <2>0, <3>1 DEF Begins
  <2>4. CASE PutDone(t) \/ PutFailed(t) \/ DisNone(t) \/ DisShared(t) \/ HwDel(t) \/ DropMark(t)
    <3>1. PICK step \in {"dis", "done"} : Goto(t, step)
      BY <2>4 DEF PutDone, PutFailed, DisNone, DisShared, HwDel, DropMark, GiveUpMark
    <3>2. step \in {"idle"} \cup Busy \cup Waits /\ step \in Busy
      BY <3>1 DEF Busy
    <3>3. cur'[t].pc \in Busy /\ \A u \in Thread \ {t} : cur'[u] = cur[u]
      BY <3>1, <3>2, GotoType
    <3>4. queue' = queue /\ cur[t].pc \in Busy
      BY <2>4 DEF PutDone, PutFailed, DisNone, DisShared, HwDel, DropMark, At, flowVars, Busy
    <3> QED
      BY <3>3, <3>4 DEF GoesOn
  <2>5. CASE DisLast(t)
    <3>1. cur[t].pc = "dis" /\ queue' = queue
      BY <2>5 DEF DisLast, At
    <3>2. PICK step \in {"del", "drop"} : Worked(t, step, Its(t).mark, NoMark)
      BY <2>5, DisLastStep
    <3> QED
      BY <3>1, <3>2 DEF Worked, GoesOn, Busy
  <2>6. CASE Done(t)
    <3>1. cur[t].pc = "done" /\ queue' = queue
      BY <2>6 DEF Done, At
    <3>2. cur'[t] = Idle /\ \A u \in Thread \ {t} : cur'[u] = cur[u]
      BY <2>6, DoneStep
    <3> QED
      BY <3>1, <3>2 DEF Idle, GoesOn, Busy
  <2> QED
    BY <2>1, <2>2, <2>3, <2>4, <2>5, <2>6 DEF ThreadStep
<1>3. CASE Begins(t)
  <2>1. PICK ops \in SUBSET {"add", "mod", "del"}, step \in Busy, mark \in MarkOrNone,
             mod \in BOOLEAN : Take(t, ops) /\ Serve(t, step, mark, mod)
    BY <1>3 DEF Begins
  <2>2. /\ Head(queue[t]) \in Request /\ Head(queue[t]).op \in ops /\ queue[t] # <<>>
        /\ queue' = [queue EXCEPT ![t] = Tail(queue[t])] /\ cur[t].pc = "idle"
    BY <2>1, TakeType
  <2>3. /\ queue'[t] = Tail(queue[t]) /\ \A u \in Thread \ {t} : queue'[u] = queue[u]
        /\ ~IsFlush(Head(queue[t]))
    BY <2>1, <2>2 DEF Typed, IsFlush
  <2>4. cur'[t].pc \in Busy /\ \A u \in Thread \ {t} : cur'[u] = cur[u]
    <3>1. step \in {"idle"} \cup Busy \cup Waits
      OBVIOUS
    <3> QED
      BY <2>1, <2>2, <3>1, ServeType
  <2> QED
    BY <1>1, <2>2, <2>3, <2>4 DEF NoFlush, Busy, Waits
<1>4. CASE GoesOn(t)
  BY <1>1, <1>4 DEF NoFlush, GoesOn, Busy, Waits
<1> QED
  BY <1>2, <1>3, <1>4

LEMMA AskNoFlush ==
  ASSUME Typed, NEW t \in Thread, NEW i \in Ids, NEW op \in {"add", "mod", "del"},
         Len(queue[t]) < MaxQueue,
         queue' = [queue EXCEPT ![t] = Append(queue[t], [op |-> op, flow |-> i])],
         cur' = cur, main' = main
  PROVE  NoFlush
<1> DEFINE r == [op |-> op, flow |-> i]
<1>1. r \in Request /\ ~IsFlush(r)
  BY DEF Request, IsFlush
<1>2. queue'[t] = Append(queue[t], r) /\ \A u \in Thread \ {t} : queue'[u] = queue[u]
  BY DEF Typed
<1> QED
  BY <1>1, <1>2 DEF NoFlush

LEMMA TakeFlushFlushes ==
  ASSUME Typed, Sited, Counted, Flushes, NEW t \in Thread, TakeFlush(t)
  PROVE  Flushes'
<1>1. /\ cur[t].pc = "idle" /\ cur'[t].pc = "flush"
      /\ \A u \in Thread \ {t} : cur'[u] = cur[u]
  BY TakeFlushStep
<1>2. Take(t, {"flush"}) /\ main' = main
  BY DEF TakeFlush, portVars
<1>3. /\ queue[t] \in Seq(Request) /\ queue[t] # <<>> /\ Head(queue[t]).op = "flush"
      /\ queue' = [queue EXCEPT ![t] = Tail(queue[t])]
  BY <1>2, TakeType
<1>4. queue'[t] = Tail(queue[t]) /\ \A u \in Thread \ {t} : queue'[u] = queue[u]
  BY <1>3 DEF Typed
<1>5. /\ OneFlush(queue'[t]) /\ Len(queue'[t]) = Len(queue[t]) - 1 /\ Len(queue[t]) \in Nat
      /\ HasFlush(queue[t]) /\ ~HasFlush(queue'[t])
  BY <1>3, <1>4, FlushTail DEF Flushes, IsFlush
<1>6. main.pc = "barrier1"
  BY <1>5 DEF Flushes
<1>7. Len(queue'[t]) <= MaxQueue + One(HasFlush(queue'[t]))
  <2>1. Len(queue[t]) <= MaxQueue + One(HasFlush(queue[t])) /\ MaxQueue \in Nat
    BY OffloadAssumption DEF Flushes
  <2> QED
    BY <1>5, <2>1 DEF One
<1>8. \A u \in Thread : /\ HasFlush(queue'[u]) => main'.pc = "barrier1" /\ cur'[u].pc \notin Waits
                        /\ OneFlush(queue'[u])
                        /\ Len(queue'[u]) <= MaxQueue + One(HasFlush(queue'[u]))
  BY <1>1, <1>2, <1>4, <1>5, <1>7 DEF Flushes
<1>9. \A u \in Thread : cur'[u].pc \in {"flush", "barrier1"} => main'.pc = "barrier1"
  BY <1>2, <1>6
<1>10. \A u \in Thread : cur'[u].pc = "barrier2" <=> main'.pc \in {"relock", "barrier2"}
  BY <1>1, <1>2, <1>6 DEF Flushes
<1> QED
  BY <1>8, <1>9, <1>10 DEF Flushes

LEMMA FlushFlushes ==
  ASSUME Typed, Sited, Counted, Flushes, NEW t \in Thread, Flush(t)
  PROVE  Flushes'
<1>1. /\ cur[t].pc = "flush" /\ cur'[t].pc = "barrier1"
      /\ \A u \in Thread \ {t} : cur'[u] = cur[u]
  BY FlushStep
<1>2. main' = main /\ queue' = queue
  BY DEF Flush, portVars, flowVars
<1>3. main.pc = "barrier1" /\ ~HasFlush(queue[t])
  BY <1>1 DEF Flushes, Waits
<1>4. \A u \in Thread : HasFlush(queue'[u]) => main'.pc = "barrier1" /\ cur'[u].pc \notin Waits
  BY <1>1, <1>2, <1>3 DEF Flushes
<1>5. \A u \in Thread : cur'[u].pc = "barrier2" <=> main'.pc \in {"relock", "barrier2"}
  BY <1>1, <1>2, <1>3 DEF Flushes
<1> QED
  BY <1>2, <1>3, <1>4, <1>5 DEF Flushes

(* The main thread outside a flush.                                        *)
LEMMA MainElsewhere ==
  ASSUME Flushes, UNCHANGED <<queue, cur>>,
         main.pc \notin {"barrier1", "relock", "barrier2"},
         main'.pc \notin {"barrier1", "relock", "barrier2"}
  PROVE  Flushes'
BY DEF Flushes

LEMMA MainFlushes ==
  ASSUME Typed, Flushes, MainNext
  PROVE  Flushes'
<1>1. CASE (\E p \in Port : AddPort(p) \/ DelPort(p)) \/ MapPort \/ Uninit \/ Unmap
  <2>1. main \in MainType
    BY DEF Typed
  <2>2. /\ main.pc \notin {"barrier1", "relock", "barrier2"}
        /\ main'.pc \notin {"barrier1", "relock", "barrier2"} /\ UNCHANGED <<queue, cur>>
    BY <1>1, <2>1 DEF AddPort, DelPort, MapPort, Uninit, Unmap, GotoMain, MainType
  <2> QED
    BY <2>2, MainElsewhere
<1>2. main \in MainType
  BY DEF Typed
<1>3. CASE FlushEnqueue
  <2> DEFINE r == [op |-> "flush", flow |-> 0]
  <2>1. r \in Request /\ IsFlush(r)
    BY DEF Request, IsFlush
  <2>2. cur' = cur /\ queue' = [t \in Thread |-> Append(queue[t], r)]
        /\ main.pc = "flush" /\ main'.pc = "barrier1"
    BY <1>2, <1>3 DEF FlushEnqueue, GotoMain, MainType
  <2> HIDE DEF r
  <2>3. ASSUME NEW u \in Thread
        PROVE  /\ cur'[u].pc \notin Waits /\ OneFlush(queue'[u])
               /\ Len(queue'[u]) <= MaxQueue + One(HasFlush(queue'[u]))
    <3>1. queue[u] \in Seq(Request) /\ queue'[u] = Append(queue[u], r)
      BY <2>2 DEF Typed
    <3>2. /\ ~HasFlush(queue[u]) /\ OneFlush(queue[u]) /\ MaxQueue \in Nat
          /\ Len(queue[u]) <= MaxQueue + One(HasFlush(queue[u]))
      BY <2>2, OffloadAssumption DEF Flushes
    <3>3. HasFlush(queue'[u]) /\ OneFlush(queue'[u]) /\ Len(queue'[u]) = Len(queue[u]) + 1
      BY <2>1, <3>1, <3>2, FlushAppend
    <3>4. Len(queue[u]) \in Nat /\ Len(queue'[u]) <= MaxQueue + 1
      BY <3>1, <3>2, <3>3 DEF One
    <3>5. cur[u].pc \notin Waits
      BY <2>2 DEF Flushes, Waits
    <3> QED
      BY <2>2, <3>3, <3>4, <3>5 DEF One
  <2> QED
    BY <2>2, <2>3 DEF Flushes, Waits
<1>4. CASE Barrier1
  <2>1. /\ main.pc = "barrier1" /\ main'.pc = "relock" /\ queue' = queue
        /\ cur' = [t \in Thread |-> [cur[t] EXCEPT !.pc = "barrier2"]]
        /\ \A t \in Thread : cur[t].pc = "barrier1" /\ cur[t] \in CurType
    BY <1>2, <1>4 DEF Barrier1, GotoMain, MainType, At, Typed
  <2>2. \A t \in Thread : cur'[t].pc = "barrier2" /\ ~HasFlush(queue[t])
    BY <2>1 DEF CurType, Flushes, Waits
  <2> QED
    BY <2>1, <2>2 DEF Flushes
<1>5. CASE Relock
  <2>1. main.pc = "relock" /\ main'.pc = "barrier2" /\ queue' = queue /\ cur' = cur
    BY <1>2, <1>5 DEF Relock, GotoMain, MainType
  <2> QED
    BY <2>1 DEF Flushes
<1>6. CASE Barrier2
  <2>1. /\ main.pc = "barrier2" /\ main'.pc = "uninit" /\ queue' = queue
        /\ cur' = [t \in Thread |-> Idle]
    BY <1>2, <1>6 DEF Barrier2, GotoMain, MainType
  <2>2. \A t \in Thread : cur'[t].pc = "idle" /\ ~HasFlush(queue[t])
    BY <2>1 DEF Idle, Flushes
  <2> QED
    BY <2>1, <2>2 DEF Flushes
<1> QED
  BY <1>1, <1>3, <1>4, <1>5, <1>6 DEF MainNext, Deletion

(* Flushes, of every step.                                                 *)
LEMMA NextFlushes ==
  ASSUME Inv, [Next]_vars
  PROVE  Flushes'
<1> USE DEF Inv
<1>1. CASE \E p \in Pmd, m \in Mega : AddFlow(p, m)
  <2>1. PICK p \in Pmd, m \in Mega : AddFlow(p, m)
    BY <1>1
  <2>2. PICK i \in Ids : queue' = [queue EXCEPT ![ThreadOf[m]] =
                                      Append(queue[ThreadOf[m]], [op |-> "add", flow |-> i])]
    BY <2>1 DEF AddFlow
  <2>3. /\ Len(queue[ThreadOf[m]]) < MaxQueue /\ cur' = cur /\ main' = main
        /\ ThreadOf[m] \in Thread
    BY <2>1, OffloadAssumption DEF AddFlow, portVars
  <2> QED
    BY <2>2, <2>3, AskNoFlush, NoFlushStep
<1>2. CASE \E i \in Ids : ModFlow(i) \/ RemoveFlow(i)
  <2>1. PICK i \in Ids : ModFlow(i) \/ RemoveFlow(i)
    BY <1>2
  <2>2. PICK op \in {"add", "mod", "del"} :
          queue' = [queue EXCEPT ![Server(i)] = Append(queue[Server(i)], [op |-> op, flow |-> i])]
    BY <2>1 DEF ModFlow, RemoveFlow, Queue, Server
  <2>3. flow[i].used
    BY <2>1 DEF ModFlow, RemoveFlow, Sited, NoFlow
  <2>4. /\ Len(queue[Server(i)]) < MaxQueue /\ cur' = cur /\ main' = main
        /\ Server(i) \in Thread
    BY <2>1, <2>3, UsedFlow DEF ModFlow, RemoveFlow, portVars, Queue, Server
  <2> QED
    BY <2>2, <2>4, AskNoFlush, NoFlushStep
<1>3. CASE (\E i \in Ids : SetDead(i)) \/ UNCHANGED vars
  <2>1. NoFlush
    BY <1>3 DEF SetDead, vars, NoFlush, portVars
  <2> QED
    BY <2>1, NoFlushStep
<1>4. CASE \E t \in Thread : ThreadStep(t)
  <2>1. PICK t \in Thread : ThreadStep(t)
    BY <1>4
  <2>2. CASE TakeFlush(t)
    BY <2>2, TakeFlushFlushes
  <2>3. CASE Flush(t)
    BY <2>3, FlushFlushes
  <2>4. CASE ~TakeFlush(t) /\ ~Flush(t)
    BY <2>1, <2>4, ThreadNoFlush, NoFlushStep
  <2> QED
    BY <2>2, <2>3, <2>4
<1>5. CASE MainNext
  BY <1>5, MainFlushes
<1> QED
  BY <1>1, <1>2, <1>3, <1>4, <1>5 DEF Next, MainNext

-----------------------------------------------------------------------------
(* Rules in the hardware.                                                  *)

(* Nothing but rules of megaflow m changes, in the hands of thread t.      *)
OneRule(t, m) ==
  /\ ThreadOf[m] = t /\ cur[t].pc \in Busy /\ cur'[t].pc \in Busy
  /\ \A u \in Thread \ {t} : cur'[u] = cur[u]
  /\ \A u \in Thread \ {t} : At(u, "drop") => Its(u)' = Its(u) /\ Its(u).mega \in Mega \ {m}
  /\ \A o \in Mega \ {m} : hw'[o] = hw[o] /\ byMega'[o] = byMega[o]
  /\ hw'[m] # NoMark => hw'[m] = byMega'[m] /\ InPort[m] \in api
  /\ hw'[m] # NoMark /\ hw[m] = NoMark => ~wr
  /\ At(t, "drop")' => Its(t)'.mega = m /\ hw'[m] = NoMark
  /\ UNCHANGED <<api, main, wr>>

LEMMA OneRuleStep ==
  ASSUME Flushes, Rules, NEW t \in Thread, NEW m \in Mega, OneRule(t, m)
  PROVE  Rules'
<1>1. \A o \in Mega : hw'[o] # NoMark => hw'[o] = byMega'[o]
  BY DEF OneRule, Rules
<1>2. \A o \in Mega : hw'[o] # NoMark => InPort[o] \in api'
  BY DEF OneRule, Rules
<1>3. ASSUME NEW u \in Thread, At(u, "drop")'
      PROVE  hw'[Its(u)'.mega] = NoMark
  <2>1. CASE u = t
    BY <1>3, <2>1 DEF OneRule
  <2>2. CASE u # t
    <3>1. At(u, "drop")
      BY <1>3, <2>2 DEF OneRule, At
    <3> QED
      BY <2>2, <3>1 DEF OneRule, Rules
  <2> QED
    BY <2>1, <2>2
<1>4. ASSUME NEW u \in Thread, cur'[u].pc \in {"barrier1", "barrier2"},
             NEW o \in Mega, ThreadOf[o] = u, InPort[o] = main'.port
      PROVE  hw'[o] = NoMark
  <2>1. u # t /\ o # m /\ cur'[u] = cur[u] /\ main' = main
    BY <1>4 DEF OneRule, Busy
  <2> QED
    BY <1>4, <2>1 DEF OneRule, Rules
<1>5. ASSUME main'.pc = "uninit", NEW o \in Mega, InPort[o] = main'.port
      PROVE  hw'[o] = NoMark
  <2>1. wr /\ hw[o] = NoMark
    BY <1>5 DEF OneRule, Rules
  <2> QED
    BY <1>5, <2>1 DEF OneRule
<1>6. main'.pc \in {"barrier2", "uninit"} => wr'
  BY DEF OneRule, Rules
<1> QED
  BY <1>1, <1>2, <1>3, <1>4, <1>5, <1>6 DEF Rules

(* A thread at work: the other threads at "drop" have other megaflows.     *)
LEMMA OthersDrop ==
  ASSUME Typed, Sited, NEW t \in Thread, NEW m \in Mega, ThreadOf[m] = t, NEW i,
         Serves(t, i), i # 0, \A u \in Thread \ {t} : cur'[u] = cur[u],
         \A j \in Ids \ {i} : flow'[j] = flow[j]
  PROVE  \A u \in Thread \ {t} : At(u, "drop") => Its(u)' = Its(u) /\ Its(u).mega \in Mega \ {m}
<1> SUFFICES ASSUME NEW u \in Thread \ {t}, At(u, "drop")
             PROVE  Its(u)' = Its(u) /\ Its(u).mega \in Mega \ {m}
  OBVIOUS
<1>1. cur[u].flow \in Ids /\ Its(u).mega \in Mega /\ ThreadOf[Its(u).mega] = u
      /\ Server(cur[u].flow) = u
  BY WorkServed DEF At, Busy
<1>2. Server(i) = t
  BY DEF Serves
<1> QED
  BY <1>1, <1>2 DEF Its

LEMMA PutRules ==
  ASSUME Typed, Sited, Counted, MarksAgree, Flushes, Rules, NEW t \in Thread,
         PutDone(t) \/ PutFailed(t)
  PROVE  Rules'
<1> DEFINE i == cur[t].flow
           m == flow[i].mega
<1>1. cur[t].pc = "put" /\ ~wr /\ cur[t].pc \in Busy
  BY DEF PutDone, PutFailed, At, Busy
<1>2. /\ i \in Ids /\ Its(t) = flow[i] /\ Server(i) = t /\ m \in Mega /\ ThreadOf[m] = t
      /\ Serves(t, i) /\ i # 0
  BY <1>1, WorkServed, FlowTypes DEF Sited
<1>3. cur'[t].pc \in {"dis", "done"} /\ \A u \in Thread \ {t} : cur'[u] = cur[u]
  <2>1. PICK step \in {"dis", "done"} : Goto(t, step)
    BY DEF PutDone, PutFailed
  <2>2. step \in {"idle"} \cup Busy \cup Waits
    BY DEF Busy
  <2> QED
    BY <2>1, <2>2, GotoType
<1>4. \A j \in Ids \ {i} : flow'[j] = flow[j]
  <2>1. CASE PutDone(t)
    BY <2>1, PutDoneStep DEF Worked
  <2>2. CASE PutFailed(t)
    BY <2>2 DEF PutFailed, flowVars
  <2> QED
    BY <2>1, <2>2
<1>5. hw \in [Mega -> MarkOrNone] /\ byMega \in [Mega -> MarkOrNone] /\ UNCHANGED <<api, main, wr>>
  BY DEF Typed, PutDone, PutFailed, portVars
<1>6. /\ \A o \in Mega \ {m} : hw'[o] = hw[o] /\ byMega'[o] = byMega[o]
      /\ hw'[m] # NoMark => hw'[m] = byMega'[m] /\ InPort[m] \in api
  <2>1. CASE PutDone(t)
    <3>1. hw' = [hw EXCEPT ![m] = cur[t].mark] /\ InPort[m] \in api
      BY <1>2, <2>1 DEF PutDone
    <3>2. byMega' = IF cur[t].mod THEN byMega ELSE [byMega EXCEPT ![m] = cur[t].mark]
      BY <1>2, <2>1 DEF PutDone
    <3>3. ASSUME cur[t].mod
          PROVE  byMega[m] = cur[t].mark
      <4>1. cur[t].mark = flow[i].mark /\ cur[t].mark # NoMark
        BY <1>1, <1>2, <3>3 DEF MarksAgree, At
      <4> QED
        BY <1>2, <4>1 DEF MarksAgree
    <3> HIDE DEF m
    <3> QED
      BY <1>2, <1>5, <3>1, <3>2, <3>3
  <2>2. CASE PutFailed(t)
    <3>1. byMega' = byMega
      BY <2>2 DEF PutFailed
    <3>2. \E h \in {hw[m], NoMark} : hw' = [hw EXCEPT ![m] = h]
      BY <1>2, <1>5, <2>2 DEF PutFailed
    <3> HIDE DEF m
    <3> QED
      BY <1>2, <1>5, <3>1, <3>2 DEF Rules
  <2> QED
    BY <2>1, <2>2
<1>7. \A u \in Thread \ {t} : At(u, "drop") => Its(u)' = Its(u) /\ Its(u).mega \in Mega \ {m}
  BY <1>2, <1>3, <1>4, OthersDrop
<1>8. OneRule(t, m)
  BY <1>1, <1>2, <1>3, <1>5, <1>6, <1>7 DEF OneRule, At, Busy
<1> HIDE DEF m
<1> QED
  BY <1>2, <1>8, OneRuleStep

LEMMA DisLastRules ==
  ASSUME Typed, Sited, Counted, Flushes, Rules, NEW t \in Thread, DisLast(t)
  PROVE  Rules'
<1> DEFINE i == cur[t].flow
           m == flow[i].mega
<1>1. cur[t].pc = "dis" /\ cur[t].pc \in Busy /\ UNCHANGED <<byMega, hw, api, main, wr>>
  BY DEF DisLast, At, Busy, portVars
<1>2. /\ i \in Ids /\ Its(t) = flow[i] /\ Server(i) = t /\ m \in Mega /\ ThreadOf[m] = t
      /\ Serves(t, i) /\ i # 0
  BY <1>1, WorkServed, FlowTypes DEF Sited
<1>3. PICK step \in {"del", "drop"} :
        Worked(t, step, Its(t).mark, NoMark) /\ (step = "drop" => InPort[Its(t).mega] \notin mapped)
  BY DisLastStep
<1>4. /\ cur'[t].pc = step /\ cur'[t].flow = i /\ flow'[i].mega = m
      /\ \A u \in Thread \ {t} : cur'[u] = cur[u]
      /\ \A j \in Ids \ {i} : flow'[j] = flow[j]
  BY <1>2, <1>3 DEF Worked
<1>5. step = "drop" => hw[m] = NoMark
  BY <1>2, <1>3 DEF Rules, Typed
<1>6. \A u \in Thread \ {t} : At(u, "drop") => Its(u)' = Its(u) /\ Its(u).mega \in Mega \ {m}
  BY <1>2, <1>4, OthersDrop
<1>7. Its(t)'.mega = m
  BY <1>4 DEF Its
<1>8. hw'[m] # NoMark => hw'[m] = byMega'[m] /\ InPort[m] \in api
  BY <1>1, <1>2 DEF Rules
<1> HIDE DEF m
<1>9. OneRule(t, m)
  BY <1>1, <1>2, <1>4, <1>5, <1>6, <1>7, <1>8 DEF OneRule, At, Busy
<1> QED
  BY <1>2, <1>9, OneRuleStep

LEMMA GiveUpRules ==
  ASSUME Typed, Sited, Counted, MarksAgree, Flushes, Rules, NEW t \in Thread,
         HwDel(t) \/ DropMark(t), hw' \in [Mega -> MarkOrNone]
  PROVE  Rules'
<1> DEFINE i == cur[t].flow
           m == flow[i].mega
<1>1. /\ cur[t].pc \in {"del", "drop"} /\ cur[t].pc \in Busy /\ GiveUpMark(t)
      /\ UNCHANGED <<queue, portVars>> /\ UNCHANGED <<api, main, wr>>
  BY DEF HwDel, DropMark, At, Busy, portVars
<1>2. /\ i \in Ids /\ Its(t) = flow[i] /\ Server(i) = t /\ m \in Mega /\ ThreadOf[m] = t
      /\ Serves(t, i) /\ i # 0
  BY <1>1, WorkServed, FlowTypes DEF Sited
<1>3. Worked(t, "done", cur[t].mark, NoMark)
  BY <1>1, GiveUpStep
<1>4. /\ cur'[t].pc = "done"
      /\ \A u \in Thread \ {t} : cur'[u] = cur[u]
      /\ \A j \in Ids \ {i} : flow'[j] = flow[j]
  BY <1>3 DEF Worked
<1>5. \A u \in Thread \ {t} : At(u, "drop") => Its(u)' = Its(u) /\ Its(u).mega \in Mega \ {m}
  BY <1>2, <1>4, OthersDrop
<1>6. hw \in [Mega -> MarkOrNone] /\ byMega \in [Mega -> MarkOrNone]
  BY DEF Typed
<1>7. byMega' = [byMega EXCEPT ![m] = NoMark]
  BY <1>1, <1>2 DEF GiveUpMark
<1>8. hw'[m] = NoMark /\ \A o \in Mega \ {m} : hw'[o] = hw[o]
  <2>1. CASE HwDel(t)
    <3>1. hw' = IF InPort[m] \in api THEN [hw EXCEPT ![m] = NoMark] ELSE hw
      BY <1>2, <2>1 DEF HwDel
    <3> HIDE DEF m
    <3> QED
      BY <1>2, <1>6, <3>1 DEF Rules
  <2>2. CASE DropMark(t)
    <3>1. hw' = hw /\ At(t, "drop")
      BY <2>2 DEF DropMark
    <3> QED
      BY <1>2, <3>1 DEF Rules
  <2> QED
    BY <2>1, <2>2
<1> HIDE DEF m
<1>9. \A o \in Mega \ {m} : byMega'[o] = byMega[o]
  BY <1>6, <1>7
<1>10. OneRule(t, m)
  BY <1>1, <1>2, <1>4, <1>5, <1>8, <1>9 DEF OneRule, At, Busy
<1> QED
  BY <1>2, <1>10, OneRuleStep

(* No rule changes, and no thread comes to the end of a rule or of a flush.*)
NoRule ==
  /\ UNCHANGED <<byMega, hw, api, main, wr>>
  /\ \A u \in Thread : cur'[u].pc \in {"drop", "barrier1", "barrier2"} => cur'[u] = cur[u]

(* Who drops a mark still has its flow.                                    *)
DropKept ==
  \A u \in Thread : At(u, "drop") /\ cur'[u] = cur[u] => Its(u)'.mega = Its(u).mega

LEMMA FlowsDropKept ==
  ASSUME Typed, Sited, Sited', FlowsKept
  PROVE  DropKept
<1> SUFFICES ASSUME NEW u \in Thread, At(u, "drop"), cur'[u] = cur[u]
             PROVE  Its(u)'.mega = Its(u).mega
  BY DEF DropKept
<1>1. cur[u].flow \in Ids /\ flow[cur[u].flow].used
  BY WorkServed DEF Its, At, Busy
<1>2. flow'[cur[u].flow].used
  BY <1>1, FlowTypes DEF Sited, Serves
<1> QED
  BY <1>1, <1>2 DEF FlowsKept, Its

LEMMA NoRuleStep ==
  ASSUME Rules, DropKept, NoRule
  PROVE  Rules'
<1>1. ASSUME NEW u \in Thread, At(u, "drop")'
      PROVE  hw'[Its(u)'.mega] = NoMark
  <2>1. cur'[u] = cur[u] /\ At(u, "drop")
    BY <1>1 DEF NoRule, At
  <2> QED
    BY <2>1 DEF NoRule, Rules, DropKept
<1>2. ASSUME NEW u \in Thread, cur'[u].pc \in {"barrier1", "barrier2"},
             NEW o \in Mega, ThreadOf[o] = u, InPort[o] = main'.port
      PROVE  hw'[o] = NoMark
  BY <1>2 DEF NoRule, Rules
<1>3. /\ \A o \in Mega : hw'[o] # NoMark => hw'[o] = byMega'[o]
      /\ \A o \in Mega : hw'[o] # NoMark => InPort[o] \in api'
      /\ main'.pc = "uninit" => \A o \in Mega : InPort[o] = main'.port => hw'[o] = NoMark
      /\ main'.pc \in {"barrier2", "uninit"} => wr'
  BY DEF NoRule, Rules
<1> QED
  BY <1>1, <1>2, <1>3 DEF Rules

LEMMA FlushRules ==
  ASSUME Typed, Sited, Counted, Sited', Flushes, Rules, NEW t \in Thread, Flush(t)
  PROVE  Rules'
<1>1. /\ cur[t].pc = "flush" /\ cur'[t].pc = "barrier1" /\ flow' = flow
      /\ \A u \in Thread \ {t} : cur'[u] = cur[u]
  BY FlushStep
<1>2. UNCHANGED <<byMega, api, main, wr>> /\ main.pc = "barrier1"
  BY <1>1 DEF Flush, portVars, Flushes
<1>3. hw' = [m \in Mega |-> IF InPort[m] = main.port /\ ThreadOf[m] = t THEN NoMark ELSE hw[m]]
  BY DEF Flush
<1>4. \A m \in Mega : hw'[m] \in {hw[m], NoMark}
  BY <1>3
<1>5. \A m \in Mega : InPort[m] = main.port /\ ThreadOf[m] = t => hw'[m] = NoMark
  BY <1>3
<1>6. ASSUME NEW u \in Thread, At(u, "drop")'
      PROVE  hw'[Its(u)'.mega] = NoMark
  <2>1. u # t /\ cur'[u] = cur[u] /\ cur[u].pc \in Busy /\ At(u, "drop")
    BY <1>1, <1>6 DEF At, Busy
  <2>2. Its(u)' = Its(u) /\ Its(u).mega \in Mega
    BY <1>1, <2>1, WorkServed DEF Its
  <2> QED
    BY <1>4, <2>1, <2>2 DEF Rules
<1>7. ASSUME NEW u \in Thread, cur'[u].pc \in {"barrier1", "barrier2"},
             NEW o \in Mega, ThreadOf[o] = u, InPort[o] = main'.port
      PROVE  hw'[o] = NoMark
  <2>1. CASE u = t
    BY <1>2, <1>5, <1>7, <2>1
  <2>2. CASE u # t
    BY <1>1, <1>2, <1>4, <1>7, <2>2 DEF Rules
  <2> QED
    BY <2>1, <2>2
<1>8. /\ \A o \in Mega : hw'[o] # NoMark => hw'[o] = byMega'[o]
      /\ \A o \in Mega : hw'[o] # NoMark => InPort[o] \in api'
  BY <1>2, <1>4 DEF Rules
<1>9. main'.pc \notin {"barrier2", "uninit"}
  BY <1>2
<1> QED
  BY <1>6, <1>7, <1>8, <1>9 DEF Rules

LEMMA MainRules ==
  ASSUME Typed, Sited, Counted, Sited', Flushes, Rules, MainNext
  PROVE  Rules'
<1>1. UNCHANGED <<flow, byMega, hw>> /\ Aside
  BY MainStep
<1>2. main \in MainType
  BY DEF Typed
<1>3. ASSUME NEW u \in Thread, At(u, "drop")'
      PROVE  hw'[Its(u)'.mega] = NoMark
  <2>1. cur'[u] = cur[u]
    BY <1>1, <1>3 DEF Aside, At, Busy
  <2> QED
    BY <1>1, <1>3, <2>1 DEF Rules, At, Its
<1>4. \A o \in Mega : hw'[o] # NoMark => hw'[o] = byMega'[o]
  BY <1>1 DEF Rules
<1>5. ASSUME api' = api \/ api' = api \cup {main.port},
             \/ \A u \in Thread : cur'[u].pc \notin {"barrier1", "barrier2"}
             \/ /\ main'.port = main.port
                /\ \A u \in Thread : cur'[u].pc \in {"barrier1", "barrier2"} =>
                                       cur[u].pc \in {"barrier1", "barrier2"},
             main'.pc = "uninit" => \A o \in Mega : InPort[o] = main'.port => hw'[o] = NoMark,
             main'.pc \in {"barrier2", "uninit"} => wr'
      PROVE  Rules'
  <2>1. \A o \in Mega : hw'[o] # NoMark => InPort[o] \in api'
    BY <1>1, <1>5 DEF Rules
  <2>2. ASSUME NEW u \in Thread, cur'[u].pc \in {"barrier1", "barrier2"},
               NEW o \in Mega, ThreadOf[o] = u, InPort[o] = main'.port
        PROVE  hw'[o] = NoMark
    BY <1>1, <1>5, <2>2 DEF Rules
  <2> QED
    BY <1>3, <1>4, <1>5, <2>1, <2>2 DEF Rules
<1>6. CASE (\E p \in Port : AddPort(p) \/ DelPort(p)) \/ MapPort \/ FlushEnqueue
  <2>1. /\ main.pc \in {"idle", "map", "flush"} /\ cur' = cur
        /\ main'.pc \notin {"barrier2", "uninit"}
        /\ (api' = api \/ api' = api \cup {main.port})
    BY <1>2, <1>6 DEF AddPort, DelPort, MapPort, FlushEnqueue, GotoMain, MainType
  <2>2. \A u \in Thread : cur'[u].pc \notin {"barrier1", "barrier2"}
    BY <2>1 DEF Flushes
  <2> QED
    BY <1>5, <2>1, <2>2
<1>7. CASE Barrier1 \/ Relock
  <2>1. /\ main'.port = main.port /\ main'.pc \in {"relock", "barrier2"} /\ api' = api
        /\ main'.pc = "barrier2" => wr'
    BY <1>2, <1>7 DEF Barrier1, Relock, GotoMain, MainType
  <2>2. \A u \in Thread : cur[u].pc \in {"barrier1", "barrier2"} \/ cur'[u] = cur[u]
    BY <1>7 DEF Barrier1, Relock, At
  <2> QED
    BY <1>5, <2>1, <2>2
<1>8. CASE Barrier2
  <2>1. /\ main.pc = "barrier2" /\ main'.pc = "uninit" /\ main'.port = main.port
        /\ api' = api /\ wr' = wr
        /\ \A u \in Thread : cur'[u] = Idle /\ cur[u].pc = "barrier2"
    BY <1>2, <1>8 DEF Barrier2, GotoMain, MainType, At
  <2>2. \A u \in Thread : cur'[u].pc \notin {"barrier1", "barrier2"}
    BY <2>1 DEF Idle
  <2>3. ASSUME NEW o \in Mega, InPort[o] = main'.port
        PROVE  hw'[o] = NoMark
    <3>1. ThreadOf[o] \in Thread
      BY OffloadAssumption
    <3> QED
      BY <1>1, <2>1, <2>3, <3>1 DEF Rules
  <2>4. wr'
    BY <2>1 DEF Rules
  <2> QED
    BY <1>5, <2>1, <2>2, <2>3, <2>4
<1>9. CASE Unmap
  <2>1. main.pc = "unmap" /\ main'.pc = "idle" /\ api' = api /\ cur' = cur
    BY <1>2, <1>9 DEF Unmap, GotoMain, MainType
  <2>2. \A u \in Thread : cur'[u].pc \notin {"barrier1", "barrier2"}
    BY <2>1 DEF Flushes
  <2> QED
    BY <1>5, <2>1, <2>2
<1>10. CASE Uninit
  <2>1. /\ main.pc = "uninit" /\ main'.pc = "unmap" /\ cur' = cur
        /\ api' = api \ {main.port}
    BY <1>2, <1>10 DEF Uninit, GotoMain, MainType
  <2>2. \A u \in Thread : cur'[u].pc \notin {"barrier1", "barrier2"}
    BY <2>1 DEF Flushes
  <2>3. \A o \in Mega : hw'[o] # NoMark => InPort[o] \in api'
    BY <1>1, <2>1 DEF Rules
  <2> QED
    BY <1>3, <1>4, <2>1, <2>2, <2>3 DEF Rules
<1> QED
  BY <1>6, <1>7, <1>8, <1>9, <1>10 DEF MainNext, Deletion

(* A thread that takes a request, or drops a flow: no rule changes.        *)
LEMMA ThreadNoRule ==
  ASSUME Typed, Sited, Counted, NEW t \in Thread,
         \/ TakeDel(t) \/ TakeFlush(t) \/ PutDead(t) \/ PutMod(t) \/ PutShared(t) \/ PutNew(t)
         \/ DisNone(t) \/ DisShared(t) \/ Done(t)
  PROVE  NoRule
<1>1. UNCHANGED <<byMega, hw, api, main, wr>>
  BY DEF TakeDel, TakeFlush, PutDead, PutMod, PutShared, PutNew, DisNone, DisShared, Done, portVars
<1>2. \/ cur'[t].pc \in {"put", "dis", "done", "flush", "idle"}
         /\ \A u \in Thread \ {t} : cur'[u] = cur[u]
  <2>1. CASE TakeDel(t) \/ TakeFlush(t) \/ PutDead(t) \/ PutMod(t) \/ PutShared(t) \/ PutNew(t)
    <3>1. PICK step \in {"put", "dis", "done", "flush"} : \E mark, mod : Serve(t, step, mark, mod)
      BY <2>1 DEF TakeDel, TakeFlush, PutDead, PutMod, PutShared, PutNew
    <3>2. PICK mark, mod : Serve(t, step, mark, mod)
      BY <3>1
    <3> QED
      BY <3>2 DEF Serve, Typed
  <2>2. CASE DisNone(t) \/ DisShared(t)
    BY <2>2 DEF DisNone, DisShared, Goto, Typed, CurType
  <2>3. CASE Done(t)
    BY <2>3, DoneStep DEF Idle
  <2> QED
    BY <2>1, <2>2, <2>3
<1> QED
  BY <1>1, <1>2 DEF NoRule

(* The flow it changes is its own.                                         *)
LEMMA ThreadDropKept ==
  ASSUME Typed, Sited, Counted, NEW t \in Thread, PutShared(t) \/ DisShared(t) \/ Done(t)
  PROVE  DropKept
<1>1. PICK i \in Ids : /\ flow[i].used /\ Server(i) = t /\ flow[i].mega \in Mega
                       /\ \A j \in Ids \ {i} : flow'[j] = flow[j]
                       /\ \A u \in Thread \ {t} : cur'[u] = cur[u]
  <2>1. CASE PutShared(t)
    <3>1. Take(t, {"add", "mod"}) /\ Serve(t, "done", NoMark, FALSE)
      BY <2>1 DEF PutShared
    <3>2. /\ Head(queue[t]).flow \in Ids /\ flow[Head(queue[t]).flow].used
          /\ Server(Head(queue[t]).flow) = t /\ flow[Head(queue[t]).flow].mega \in Mega
      BY <3>1, HeadServed
    <3>3. \A j \in Ids \ {Head(queue[t]).flow} : flow'[j] = flow[j]
      BY <2>1, <3>2 DEF PutShared, Typed
    <3>4. \A u \in Thread \ {t} : cur'[u] = cur[u]
      BY <3>1 DEF Serve, Typed
    <3> QED
      BY <3>2, <3>3, <3>4
  <2>2. CASE DisShared(t) \/ Done(t)
    <3>1. cur[t].pc \in Busy
      BY <2>2 DEF DisShared, Done, At, Busy
    <3>2. cur[t].flow \in Ids /\ flow[cur[t].flow].used /\ Server(cur[t].flow) = t
          /\ flow[cur[t].flow].mega \in Mega
      BY <3>1, WorkServed DEF Its
    <3>3. /\ \A j \in Ids \ {cur[t].flow} : flow'[j] = flow[j]
          /\ \A u \in Thread \ {t} : cur'[u] = cur[u]
      BY <2>2, DisSharedStep, DoneStep DEF Worked
    <3> QED
      BY <3>2, <3>3
  <2> QED
    BY <2>1, <2>2
<1>2. Serves(t, i) /\ i # 0 /\ ThreadOf[flow[i].mega] = t
  BY <1>1, FlowTypes DEF Serves, Server
<1>3. \A u \in Thread \ {t} : At(u, "drop") => Its(u)' = Its(u)
  BY <1>1, <1>2, OthersDrop
<1>4. ~At(t, "drop")
  BY DEF PutShared, Take, DisShared, Done, At
<1> QED
  BY <1>3, <1>4 DEF DropKept

(* Rules, of every step.                                                   *)
LEMMA NextRules ==
  ASSUME Inv, [Next]_vars
  PROVE  Rules'
<1>1. Typed' /\ Sited' /\ Counted'
  BY NextRefs
<1> USE DEF Inv
<1>2. CASE \E p \in Pmd, m \in Mega : AddFlow(p, m)
  <2>1. FlowsKept
    BY <1>2, AddFlowStep
  <2>2. UNCHANGED <<cur, byMega, hw, api, main, wr>>
    BY <1>2 DEF AddFlow, portVars
  <2>3. NoRule
    BY <2>2 DEF NoRule
  <2> QED
    BY <1>1, <2>1, <2>3, FlowsDropKept, NoRuleStep
<1>3. CASE \E i \in Ids : ModFlow(i) \/ RemoveFlow(i) \/ SetDead(i)
  <2>1. FlowsKept
    BY <1>3, ModRemoveStep, SetDeadStep
  <2>2. UNCHANGED <<cur, byMega, hw, api, main, wr>>
    BY <1>3 DEF ModFlow, RemoveFlow, SetDead, portVars
  <2>3. NoRule
    BY <2>2 DEF NoRule
  <2> QED
    BY <1>1, <2>1, <2>3, FlowsDropKept, NoRuleStep
<1>4. CASE \E t \in Thread : ThreadStep(t)
  <2>1. PICK t \in Thread : ThreadStep(t)
    BY <1>4
  <2>2. CASE PutDone(t) \/ PutFailed(t)
    BY <2>2, PutRules
  <2>3. CASE DisLast(t)
    BY <2>3, DisLastRules
  <2>4. CASE HwDel(t) \/ DropMark(t)
    <3>1. hw' \in [Mega -> MarkOrNone]
      BY <1>1 DEF Typed
    <3> QED
      BY <2>4, <3>1, GiveUpRules
  <2>5. CASE Flush(t)
    BY <1>1, <2>5, FlushRules
  <2>6. CASE PutShared(t) \/ DisShared(t) \/ Done(t)
    BY <2>6, ThreadDropKept, ThreadNoRule, NoRuleStep
  <2>7. CASE TakeDel(t) \/ TakeFlush(t) \/ PutDead(t) \/ PutMod(t) \/ PutNew(t) \/ DisNone(t)
    <3>1. FlowsKept
      BY <2>7, FlowsSame DEF TakeDel, TakeFlush, PutDead, PutMod, PutNew, DisNone, flowVars
    <3> QED
      BY <1>1, <2>7, <3>1, FlowsDropKept, ThreadNoRule, NoRuleStep
  <2> QED
    BY <2>1, <2>2, <2>3, <2>4, <2>5, <2>6, <2>7 DEF ThreadStep
<1>5. CASE MainNext
  BY <1>1, <1>5, MainRules
<1>6. CASE UNCHANGED vars
  <2>1. FlowsKept /\ NoRule
    BY <1>6, FlowsSame DEF NoRule, vars
  <2> QED
    BY <1>1, <2>1, FlowsDropKept, NoRuleStep
<1> QED
  BY <1>2, <1>3, <1>4, <1>5, <1>6 DEF Next, MainNext

-----------------------------------------------------------------------------
(* A flow is freed with its last reference.                                *)

LEMMA UnrefHeld ==
  ASSUME NEW f \in FlowType, f.ref > 0, Unref(f).used
  PROVE  Unref(f).ref > 0
BY DEF Unref, FlowType, NoFlow

(* The flow that a thread has is counted once more.                        *)
LEMMA CurHeldNext ==
  ASSUME Typed', Sited', Counted', NEW t \in Thread, NEW i \in Ids, cur'[t].flow = i
  PROVE  flow'[i].ref > 0
<1>1. Server(i)' = t /\ flow'[i].used
  BY FlowTypes DEF Sited, Serves
<1>2. queue'[t] \in Seq(Request)
  BY DEF Typed
<1>3. NumIn(queue'[t], i) \in Nat
  BY <1>2, NumInNat
<1>4. flow'[i].ref = One(~flow'[i].dead) + NumIn(queue'[t], i) + One(cur'[t].flow = i) + One(Marked(i)')
  BY <1>1 DEF Counted
<1>5. One(~flow'[i].dead) \in Nat /\ One(cur'[t].flow = i) = 1 /\ One(Marked(i)') \in Nat
  BY DEF One
<1> QED
  BY <1>3, <1>4, <1>5

LEMMA NextHeld ==
  ASSUME Inv, [Next]_vars
  PROVE  Held'
<1>1. Typed' /\ Sited' /\ Counted'
  BY NextRefs
<1> USE DEF Inv
<1>2. ASSUME NEW i \in Ids, \A j \in Ids \ {i} : flow'[j] = flow[j],
             flow'[i].used => flow'[i].ref > 0
      PROVE  Held'
  BY <1>2 DEF Held
<1>3. flow \in [Ids -> FlowType]
  BY DEF Typed
<1>4. CASE \E p \in Pmd, m \in Mega : AddFlow(p, m)
  <2>1. PICK p \in Pmd, m \in Mega, i \in Ids :
          flow' = [flow EXCEPT ![i] = [NoFlow EXCEPT !.used = TRUE, !.pmd = p, !.mega = m,
                                                     !.listed = TRUE, !.ref = 2]]
    BY <1>4 DEF AddFlow
  <2>2. flow'[i].ref = 2 /\ \A j \in Ids \ {i} : flow'[j] = flow[j]
    BY <1>3, <2>1 DEF NoFlow
  <2> QED
    BY <1>2, <2>2
<1>5. CASE \E i \in Ids : ModFlow(i) \/ RemoveFlow(i)
  <2>1. PICK i \in Ids : ModFlow(i) \/ RemoveFlow(i)
    BY <1>5
  <2>2. flow[i].used
    BY <2>1 DEF ModFlow, RemoveFlow, Sited, NoFlow
  <2>3. flow[i] \in FlowType /\ flow[i].ref > 0 /\ Ref(flow[i]) \in FlowType
        /\ Ref(flow[i]).ref = flow[i].ref + 1
    BY <1>3, <2>2, RefFields DEF Held
  <2>4. flow' = [flow EXCEPT ![i] = Ref(flow[i])]
        \/ flow' = [flow EXCEPT ![i] = [Ref(flow[i]) EXCEPT !.listed = FALSE]]
    BY <2>1 DEF ModFlow, RemoveFlow
  <2>5. flow'[i].ref = flow[i].ref + 1 /\ \A j \in Ids \ {i} : flow'[j] = flow[j]
    BY <1>3, <2>3, <2>4 DEF FlowType
  <2>6. flow[i].ref \in Int
    BY <2>3 DEF FlowType
  <2>7. flow'[i].ref > 0
    BY <2>3, <2>5, <2>6
  <2> QED
    BY <1>2, <2>5, <2>7
<1>6. CASE \E i \in Ids : SetDead(i)
  <2>1. PICK i \in Ids : SetDead(i)
    BY <1>6
  <2> DEFINE f == [flow[i] EXCEPT !.dead = TRUE]
  <2>2. f \in FlowType /\ f.ref = flow[i].ref /\ flow[i].used
    BY <1>3, <2>1 DEF FlowType, SetDead
  <2>3. flow'[i] = Unref(f) /\ \A j \in Ids \ {i} : flow'[j] = flow[j]
    BY <1>3, <2>1 DEF SetDead
  <2> HIDE DEF f
  <2>4. f.ref > 0
    BY <2>2 DEF Held
  <2> QED
    BY <1>2, <2>2, <2>3, <2>4, UnrefHeld
<1>7. CASE \E t \in Thread : Done(t)
  <2>1. PICK t \in Thread : Done(t)
    BY <1>7
  <2> DEFINE i == cur[t].flow
  <2>2. i \in Ids /\ flow[i].used
    BY <2>1, WorkServed DEF Done, At, Busy, Its
  <2>3. flow'[i] = Unref(flow[i]) /\ \A j \in Ids \ {i} : flow'[j] = flow[j]
    BY <1>3, <2>1, <2>2 DEF Done
  <2>4. flow[i] \in FlowType /\ flow[i].ref > 0
    BY <1>3, <2>2 DEF Held
  <2> HIDE DEF i
  <2> QED
    BY <1>2, <2>2, <2>3, <2>4, UnrefHeld
<1>8. CASE \E t \in Thread : PutShared(t)
  <2>1. PICK t \in Thread : PutShared(t)
    BY <1>8
  <2> DEFINE i == Head(queue[t]).flow
  <2>2. Take(t, {"add", "mod"}) /\ Serve(t, "done", NoMark, FALSE)
    BY <2>1 DEF PutShared
  <2>3. i \in Ids
    BY <2>2, HeadServed
  <2>4. \A j \in Ids \ {i} : flow'[j] = flow[j]
    BY <1>3, <2>1, <2>3 DEF PutShared
  <2>5. cur'[t].flow = i
    BY <2>2 DEF Serve, Typed
  <2> HIDE DEF i
  <2>6. flow'[i].ref > 0
    BY <1>1, <2>3, <2>5, CurHeldNext
  <2> QED
    BY <1>2, <2>3, <2>4, <2>6
<1>9. CASE \E t \in Thread : PutDone(t) \/ DisShared(t) \/ DisLast(t) \/ HwDel(t) \/ DropMark(t)
  <2>1. PICK t \in Thread : PutDone(t) \/ DisShared(t) \/ DisLast(t) \/ HwDel(t) \/ DropMark(t)
    BY <1>9
  <2>2. cur[t].pc \in Busy /\ cur'[t].flow = cur[t].flow
        /\ \A j \in Ids \ {cur[t].flow} : flow'[j] = flow[j]
    <3>1. CASE PutDone(t) \/ DisShared(t) \/ DisLast(t)
      BY <3>1, PutDoneStep, DisSharedStep, DisLastStep DEF Worked, PutDone, DisShared, DisLast, At, Busy
    <3>2. CASE HwDel(t) \/ DropMark(t)
      <4>1. cur[t].pc \in {"del", "drop"} /\ GiveUpMark(t) /\ UNCHANGED <<queue, portVars>>
        BY <3>2 DEF HwDel, DropMark, At
      <4>2. hw' \in [Mega -> MarkOrNone]
        BY <1>1 DEF Typed
      <4> QED
        BY <4>1, <4>2, GiveUpStep DEF Worked, Busy
    <3> QED
      BY <2>1, <3>1, <3>2
  <2>3. cur[t].flow \in Ids
    BY <2>2, WorkServed
  <2>4. flow'[cur[t].flow].ref > 0
    BY <1>1, <2>2, <2>3, CurHeldNext
  <2> QED
    BY <1>2, <2>2, <2>3, <2>4
<1>10. CASE flow' = flow
  BY <1>10 DEF Held
<1>11. CASE MainNext
  BY <1>10, <1>11, MainStep
<1>12. CASE \E t \in Thread : \/ TakeDel(t) \/ TakeFlush(t) \/ PutDead(t) \/ PutMod(t) \/ PutNew(t)
                             \/ PutFailed(t) \/ DisNone(t) \/ Flush(t)
  BY <1>10, <1>12
     DEF TakeDel, TakeFlush, PutDead, PutMod, PutNew, PutFailed, DisNone, Flush, flowVars
<1> QED
  BY <1>4, <1>5, <1>6, <1>7, <1>8, <1>9, <1>10, <1>11, <1>12 DEF Next, MainNext, ThreadStep, vars

-----------------------------------------------------------------------------
(* The invariant, and what it says.                                        *)

LEMMA InitInv ==
  ASSUME Init
  PROVE  Inv
<1> USE FlowTypes DEF Init
<1>1. Typed
  <2>1. flow \in [Ids -> FlowType] /\ cur \in [Thread -> CurType]
        /\ byMega \in [Mega -> MarkOrNone] /\ hw \in [Mega -> MarkOrNone]
    OBVIOUS
  <2>2. queue \in [Thread -> Seq(Request)]
    OBVIOUS
  <2>3. main \in MainType /\ main.pc = "idle"
    BY DEF MainType
  <2>4. pool \in SUBSET Mark /\ polled \in SUBSET Port /\ mapped \in SUBSET Port
        /\ api \in SUBSET mapped /\ wr \in BOOLEAN
    OBVIOUS
  <2> QED
    BY <2>1, <2>2, <2>3, <2>4 DEF Typed
<1>2. \A i \in Ids : flow[i] = NoFlow
  OBVIOUS
<1>3. \A t \in Thread : queue[t] = <<>> /\ cur[t] = Idle
  OBVIOUS
<1>4. Sited
  BY <1>2, <1>3 DEF Sited, NoFlow, Idle, Serves, Busy
<1>5. Counted /\ Held
  BY <1>2 DEF Counted, Held, NoFlow
<1>6. \A t \in Thread : InHand(t) = NoMark
  BY <1>3 DEF InHand, At, Idle
<1>7. \A m \in Mega : byMega[m] = NoMark /\ hw[m] = NoMark
  OBVIOUS
<1>8. NoMark \notin pool /\ pool = Mark
  BY OffloadAssumption
<1>9. OnePlace
  BY <1>6, <1>7, <1>8 DEF OnePlace
<1>10. MarksAgree
  BY <1>2, <1>3, <1>7 DEF MarksAgree, NoFlow, Idle, At
<1>11. Flushes
  <2>1. main.pc = "idle"
    OBVIOUS
  <2>2. \A t \in Thread : ~HasFlush(queue[t]) /\ OneFlush(queue[t]) /\ Len(queue[t]) = 0
    BY <1>3 DEF HasFlush, OneFlush
  <2>3. 0 <= MaxQueue + One(FALSE)
    BY OffloadAssumption DEF One
  <2>4. \A t \in Thread : cur[t].pc = "idle"
    BY <1>3 DEF Idle
  <2>5. \A t \in Thread : Len(queue[t]) <= MaxQueue + One(HasFlush(queue[t]))
    BY <2>2, <2>3 DEF One
  <2> QED
    BY <2>1, <2>2, <2>4, <2>5 DEF Flushes
<1>12. Rules
  <2>1. main.pc = "idle" /\ \A t \in Thread : cur[t].pc = "idle"
    BY <1>3 DEF Idle
  <2> QED
    BY <1>7, <2>1 DEF Rules, At
<1> QED
  BY <1>1, <1>4, <1>5, <1>9, <1>10, <1>11, <1>12 DEF Inv

(* The invariant holds of every behaviour: references, marks, flushes and  *)
(* rules are kept together by every step.                                  *)
THEOREM Invariance == Spec => []Inv
<1>1. Inv /\ [Next]_vars => Inv'
  BY NextRefs, NextHeld, NextMarks, NextFlushes, NextRules DEF Inv
<1> QED
  BY <1>1, InitInv, PTL DEF Spec

(* One more member, or not.                                                *)
LEMMA AddOne ==
  ASSUME NEW S, IsFiniteSet(S), NEW e, e \notin S, NEW b \in BOOLEAN
  PROVE  LET T == S \cup (IF b THEN {e} ELSE {})
         IN  IsFiniteSet(T) /\ Cardinality(T) = Cardinality(S) + One(b)
<1>1. Cardinality(S) \in Nat
  BY FS_CardinalityType
<1>2. CASE b
  BY <1>2, FS_AddElement DEF One
<1>3. CASE ~b
  <2>1. S \cup (IF b THEN {e} ELSE {}) = S
    BY <1>3
  <2> QED
    BY <1>1, <1>3, <2>1 DEF One
<1> QED
  BY <1>2, <1>3

LEMMA AtMostOne ==
  ASSUME NEW S, \A x, y \in S : x = y
  PROVE  Cardinality(S) = One(S # {})
<1>1. CASE S = {}
  BY <1>1, FS_EmptySet DEF One
<1>2. CASE S # {}
  <2>1. PICK x \in S : TRUE
    BY <1>2
  <2>2. S = {x}
    BY <2>1
  <2> QED
    BY <1>2, <2>2, FS_Singleton DEF One
<1> QED
  BY <1>1, <1>2

QueueHolders(i) ==
  {h \in {"queue"} \X Thread \X (1 .. MaxQueue + 1) :
     h[3] <= Len(queue[h[2]]) /\ queue[h[2]][h[3]].flow = i}

(* The requests for a flow, as holders, are as many as counted.            *)
LEMMA QueueHoldersCount ==
  ASSUME Typed, Sited, Flushes, NEW i \in Ids, flow[i].used
  PROVE  /\ IsFiniteSet(QueueHolders(i))
         /\ Cardinality(QueueHolders(i)) = NumIn(queue[Server(i)], i)
         /\ NumIn(queue[Server(i)], i) \in 0 .. MaxQueue + 1
<1> DEFINE t == Server(i)
           P == {n \in 1 .. Len(queue[t]) : queue[t][n].flow = i}
           f == [n \in P |-> <<"queue", t, n>>]
<1>1. t \in Thread
  BY OffloadAssumption DEF Server, Sited
<1>2. queue[t] \in Seq(Request) /\ MaxQueue \in Nat
  BY <1>1, OffloadAssumption DEF Typed
<1>3. Len(queue[t]) \in Nat /\ Len(queue[t]) <= MaxQueue + 1
  <2>1. Len(queue[t]) <= MaxQueue + One(HasFlush(queue[t])) /\ Len(queue[t]) \in Nat
    BY <1>1, <1>2 DEF Flushes
  <2> QED
    BY <1>2, <2>1 DEF One
<1>4. IsFiniteSet(P) /\ NumIn(queue[t], i) = Cardinality(P) /\ Cardinality(P) \in Nat
  BY <1>2, NumInNat DEF NumIn
<1>5. Cardinality(P) <= MaxQueue + 1
  <2>1. IsFiniteSet(1 .. Len(queue[t])) /\ Cardinality(1 .. Len(queue[t])) = Len(queue[t])
    BY <1>3, FS_Interval
  <2>2. P \subseteq 1 .. Len(queue[t])
    OBVIOUS
  <2>3. Cardinality(P) <= Len(queue[t])
    BY <2>1, <2>2, FS_Subset
  <2> QED
    BY <1>2, <1>3, <1>4, <2>3
<1>6. f \in Bijection(P, QueueHolders(i))
  <2>1. ASSUME NEW n \in P
        PROVE  f[n] \in QueueHolders(i) /\ f[n] = <<"queue", t, n>>
    <3>1. n \in 1 .. MaxQueue + 1 /\ n <= Len(queue[t])
      BY <1>2, <1>3
    <3> QED
      BY <1>1, <3>1 DEF QueueHolders
  <2>2. f \in [P -> QueueHolders(i)]
    BY <2>1
  <2>3. \A a, b \in P : f[a] = f[b] => a = b
    BY <2>1
  <2>4. ASSUME NEW h \in QueueHolders(i)
        PROVE  \E n \in P : f[n] = h
    <3>1. PICK u \in Thread, n \in 1 .. MaxQueue + 1 : h = <<"queue", u, n>>
      BY DEF QueueHolders
    <3>2. n <= Len(queue[u]) /\ queue[u][n].flow = i
      BY <3>1 DEF QueueHolders
    <3>3. Len(queue[u]) \in Nat
      BY <3>1 DEF Typed
    <3>4. n \in 1 .. Len(queue[u])
      BY <1>2, <3>1, <3>2, <3>3
    <3>5. Serves(u, i)
      BY <3>1, <3>2, <3>4 DEF Sited
    <3>6. u = t
      BY <3>5, FlowTypes DEF Serves
    <3>7. n \in P
      BY <3>2, <3>4, <3>6
    <3> QED
      BY <2>1, <3>1, <3>6, <3>7
  <2> QED
    BY <2>2, <2>3, <2>4 DEF Bijection, Injection, Surjection, IsInjective
<1> HIDE DEF P, f
<1>7. IsFiniteSet(QueueHolders(i)) /\ Cardinality(P) = Cardinality(QueueHolders(i))
  BY <1>4, <1>6, FS_Bijection, FS_SameCardinalityBij DEF ExistsBijection
<1> QED
  BY <1>2, <1>4, <1>5, <1>7

(* What is counted are the holders.                                        *)
LEMMA HoldersCount ==
  ASSUME Inv, NEW i \in Ids
  PROVE  /\ flow[i].ref = Cardinality(Holders(i)) /\ (flow[i].used <=> flow[i].ref > 0)
         /\ flow[i].ref \in 0 .. 4 + MaxQueue
<1> USE DEF Inv
<1>1. MaxQueue \in Nat
  BY OffloadAssumption
<1>2. CASE ~flow[i].used
  <2>1. flow[i] = NoFlow
    BY <1>2 DEF Sited
  <2>2. \A u \in Thread : cur[u].flow # i
    BY <1>2, FlowTypes DEF Sited, Serves
  <2>3. QueueHolders(i) = {}
    <3>1. SUFFICES ASSUME NEW h \in QueueHolders(i) PROVE FALSE
      OBVIOUS
    <3>2. PICK u \in Thread, n \in 1 .. MaxQueue + 1 : h = <<"queue", u, n>>
      BY DEF QueueHolders
    <3>3. n <= Len(queue[u]) /\ queue[u][n].flow = i
      BY <3>2 DEF QueueHolders
    <3>4. Len(queue[u]) \in Nat
      BY <3>2 DEF Typed
    <3>5. n \in 1 .. Len(queue[u])
      BY <1>1, <3>2, <3>3, <3>4
    <3> QED
      BY <1>2, <3>2, <3>3, <3>5, FlowTypes DEF Sited, Serves
  <2>4. Holders(i) = {}
    BY <1>2, <2>1, <2>2, <2>3 DEF Holders, QueueHolders, NoFlow
  <2> QED
    BY <1>1, <1>2, <2>1, <2>4, FS_EmptySet DEF NoFlow
<1>3. CASE flow[i].used
  <2> DEFINE t == Server(i)
             q == QueueHolders(i)
             qc == q \cup (IF cur[t].flow = i THEN {<<"cur", t, 0>>} ELSE {})
             qct == qc \cup (IF ~flow[i].dead THEN {<<"table", 0, 0>>} ELSE {})
             all == qct \cup (IF Marked(i) THEN {<<"mark", 0, 0>>} ELSE {})
  <2>1. t \in Thread
    BY <1>3, OffloadAssumption DEF Server, Sited
  <2>2. \A u \in Thread : cur[u].flow = i => u = t
    BY FlowTypes DEF Sited, Serves
  <2>3. Holders(i) = all
    <3>1. {h \in {"cur"} \X Thread \X {0} : cur[h[2]].flow = i}
          = IF cur[t].flow = i THEN {<<"cur", t, 0>>} ELSE {}
      BY <2>1, <2>2
    <3>2. (\E u \in Thread : cur[u].flow = i /\ cur[u].pc \in {"del", "drop"})
          <=> (cur[t].flow = i /\ cur[t].pc \in {"del", "drop"})
      BY <2>1, <2>2
    <3> QED
      BY <1>3, <3>1, <3>2 DEF Holders, QueueHolders, Marked
  <2>4. \A h \in q : h[1] = "queue"
    BY DEF QueueHolders
  <2>5. IsFiniteSet(q) /\ Cardinality(q) = NumIn(queue[t], i)
        /\ NumIn(queue[t], i) \in 0 .. MaxQueue + 1
    BY <1>3, QueueHoldersCount
  <2> HIDE DEF q
  <2>6. IsFiniteSet(qc) /\ Cardinality(qc) = Cardinality(q) + One(cur[t].flow = i)
    <3>1. <<"cur", t, 0>> \notin q
      BY <2>4
    <3> QED
      BY <2>5, <3>1, AddOne
  <2>7. \A h \in qc : h[1] \in {"queue", "cur"}
    BY <2>4
  <2> HIDE DEF qc
  <2>8. IsFiniteSet(qct) /\ Cardinality(qct) = Cardinality(qc) + One(~flow[i].dead)
    <3>1. <<"table", 0, 0>> \notin qc
      BY <2>7
    <3> QED
      BY <2>6, <3>1, AddOne
  <2>9. \A h \in qct : h[1] \in {"queue", "cur", "table"}
    BY <2>7
  <2> HIDE DEF qct
  <2>10. IsFiniteSet(all) /\ Cardinality(all) = Cardinality(qct) + One(Marked(i))
    <3>1. <<"mark", 0, 0>> \notin qct
      BY <2>9
    <3>2. Marked(i) \in BOOLEAN
      BY DEF Marked
    <3> QED
      BY <2>8, <3>1, <3>2, AddOne
  <2> HIDE DEF all
  <2>11. flow[i].ref = One(~flow[i].dead) + NumIn(queue[t], i) + One(cur[t].flow = i) + One(Marked(i))
    BY <1>3 DEF Counted
  <2>12. One(~flow[i].dead) \in 0 .. 1 /\ One(cur[t].flow = i) \in 0 .. 1 /\ One(Marked(i)) \in 0 .. 1
    BY DEF One
  <2>13. flow[i].ref = Cardinality(all) /\ flow[i].ref \in 0 .. 4 + MaxQueue
    BY <1>1, <2>5, <2>6, <2>8, <2>10, <2>11, <2>12
  <2>14. flow[i].ref > 0
    BY <1>3 DEF Held
  <2> QED
    BY <1>3, <2>3, <2>13, <2>14
<1> QED
  BY <1>2, <1>3

(* References are counted exactly, whatever the PMD threads, revalidators  *)
(* and offload threads do with a flow between its addition and its removal *)
(* (dp_netdev_flow_ref, dp_netdev_flow_unref): a flow is freed with the    *)
(* last of its holders and no sooner.  The types come with it.             *)
THEOREM References == Spec => []RefsExact
<1>1. Inv => RefsExact
  <2>1. SUFFICES ASSUME Inv PROVE RefsExact
    OBVIOUS
  <2>2. \A i \in Ids : flow[i].ref = Cardinality(Holders(i)) /\ (flow[i].used <=> flow[i].ref > 0)
    BY <2>1, HoldersCount
  <2>3. ASSUME NEW i \in Ids
        PROVE  flow[i].ref \in 0 .. 3 + Cardinality(Thread) * (MaxQueue + 1)
    <3>1. MaxQueue + 1 \in Nat /\ Cardinality(Thread) \in Nat /\ IsFiniteSet(Thread)
      BY OffloadAssumption, FS_CardinalityType
    <3>2. CASE Thread = {}
      <4>1. ~flow[i].used
        BY <2>1, <3>2, OffloadAssumption DEF Inv, Sited
      <4>2. flow[i].ref = 0
        BY <2>1, <4>1 DEF Inv, Sited, NoFlow
      <4> QED
        BY <3>1, <3>2, <4>2, FS_EmptySet
    <3>3. CASE Thread # {}
      <4>1. Cardinality(Thread) >= 1
        BY <3>1, <3>3, FS_EmptySet
      <4>2. \A n, c \in Nat : n >= 1 => n * c >= c /\ n * c \in Nat
        OBVIOUS
      <4>3. flow[i].ref \in 0 .. 4 + MaxQueue
        BY <2>1, HoldersCount
      <4>4. Cardinality(Thread) * (MaxQueue + 1) \in Nat
            /\ Cardinality(Thread) * (MaxQueue + 1) >= MaxQueue + 1
        BY <3>1, <4>1, <4>2
      <4> QED
        BY <3>1, <4>3, <4>4, OffloadAssumption
    <3> QED
      BY <3>2, <3>3
  <2>4. \A i \in Ids : flow[i].mark \in Mark \cup {NoMark}
    BY <2>1 DEF Inv, Typed, FlowType, MarkOrNone
  <2>5. /\ byMega \in [Mega -> Mark \cup {NoMark}] /\ hw \in [Mega -> Mark \cup {NoMark}]
        /\ pool \subseteq Mark /\ polled \subseteq Port /\ api \subseteq mapped
    BY <2>1 DEF Inv, Typed, MarkOrNone
  <2> QED
    BY <2>2, <2>3, <2>4, <2>5 DEF RefsExact, TypeOK
<1> QED
  BY <1>1, Invariance, PTL

(* A mark is free, or of one megaflow, or in the hands of one thread, and  *)
(* flows, megaflows and rules agree about it (mark_to_flow_associate,      *)
(* mark_to_flow_disassociate and dp_netdev_flow_offload_put, run by as     *)
(* many offload threads as there are).                                     *)
THEOREM Marks == Spec => []MarksOwned
<1>1. Inv => MarksOwned
  <2>1. SUFFICES ASSUME Inv PROVE MarksOwned
    OBVIOUS
  <2> USE DEF Inv
  <2>2. ASSUME NEW k \in Mark
        PROVE  Cardinality({m \in Mega : byMega[m] = k}) + Cardinality({t \in Thread : InHand(t) = k})
                 + (IF k \in pool THEN 1 ELSE 0) = 1
    <3> DEFINE M == {m \in Mega : byMega[m] = k}
               T == {t \in Thread : InHand(t) = k}
    <3>1. k # NoMark
      BY OffloadAssumption
    <3>2. \A x, y \in M : x = y
      BY <2>1, <3>1 DEF OnePlace
    <3>3. \A x, y \in T : x = y
      BY <2>1, <3>1 DEF OnePlace
    <3>4. /\ k \in pool => M = {} /\ T = {}
          /\ M # {} => T = {}
          /\ k \in pool \/ M # {} \/ T # {}
      BY <2>1, <3>1 DEF OnePlace
    <3> HIDE DEF M, T
    <3>5. Cardinality(M) = One(M # {}) /\ Cardinality(T) = One(T # {})
      BY <3>2, <3>3, AtMostOne
    <3>6. Cardinality(M) + Cardinality(T) + (IF k \in pool THEN 1 ELSE 0) = 1
      BY <3>4, <3>5 DEF One
    <3> QED
      BY <3>6 DEF M, T
  <2>3. ASSUME NEW m \in Mega, byMega[m] # NoMark
        PROVE  \/ \E i \in Ids : flow[i].mega = m /\ flow[i].mark # NoMark
               \/ \E t \in Thread : At(t, "del") \/ At(t, "drop")
    <3>1. ThreadOf[m] \in Thread
      BY OffloadAssumption
    <3> QED
      BY <2>1, <2>3, <3>1 DEF MarksAgree, At
  <2> QED
    BY <2>1, <2>2, <2>3 DEF MarksOwned, MarksAgree, Rules
<1> QED
  BY <1>1, Invariance, PTL

(* Nothing is left in the hardware of a netdev whose flow API is gone, and *)
(* nothing comes back behind the flush (do_del_port, dp_netdev_offload_    *)
(* flush, dp_offload_flush and the two barriers).                          *)
THEOREM GonePort == Spec => []GonePortClean
<1>1. Inv => GonePortClean
  BY DEF Inv, Rules, GonePortClean
<1> QED
  BY <1>1, Invariance, PTL
=============================================================================
