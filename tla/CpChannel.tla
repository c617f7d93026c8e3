----------------------------- MODULE CpChannel -----------------------------
(***************************************************************************)
(* What a ring between a control plane thread and the datapath promises: a *)
(* queue.  What is put is got once and in order, but for the end of what   *)
(* is put while Capacity items wait: that may be gone.  OvsCp has two of   *)
(* them, one in each direction.                                            *)
(***************************************************************************)
EXTENDS SequencesExt

CONSTANTS
  Item,       \* what may be put
  Capacity,   \* items that may wait without loss
  Round       \* bound: the most items of one put

VARIABLES
  waiting,    \* put and not got yet
  got         \* everything got, in order

Init == waiting = <<>> /\ got = <<>>

(* Put s; at least the part for which there is room stays.                 *)
Put(s) ==
  /\ \E k \in 0 .. Len(s) :
       /\ k = Len(s) \/ Len(waiting) + k >= Capacity
       /\ waiting' = waiting \o SubSeq(s, 1, k)
  /\ UNCHANGED got

(* Get the first n.                                                        *)
Get(n) ==
  /\ waiting' = SubSeq(waiting, n + 1, Len(waiting))
  /\ got' = got \o SubSeq(waiting, 1, n)

Next ==
  \/ \E s \in BoundedSeq(Item, Round) : Put(s)
  \/ \E n \in 1 .. Len(waiting) : Get(n)

Spec == Init /\ [][Next]_<<waiting, got>>
=============================================================================
