----------------------------- MODULE PathDelay -----------------------------
(***************************************************************************)
(* The arithmetic on delays: how two clock readings become an entry of     *)
(* all_paths_delay_list, and which entry get_min_delay_path_id returns.    *)
(* No state.  The 64-bit width, the offset and the initial entry are       *)
(* constants, so that TLC can use small ones and the proofs cover all.     *)
(***************************************************************************)
EXTENDS PathPorts

CONSTANTS
  MOD,              \* 2^64: the delays are uint64_t
  OFFSET,           \* the 1000000000 (1 s) added to every difference
  UNMEASURED        \* 0xFFFFFFFF: the entry of a path never measured

ASSUME PathDelayAssumption ==
  /\ MOD \in Nat /\ OFFSET \in Nat /\ UNMEASURED \in Nat
  /\ OFFSET < UNMEASURED /\ UNMEASURED < MOD

Delays == 0 .. (MOD - 1)

(* A uint64_t result: wraps modulo MOD.                                    *)
Wrap(x) == x % MOD

(* receiver_ts - sender_ts + 1 s, in uint64_t.  Mutant first: the clocks   *)
(* subtracted the wrong way round.                                         *)
DelaySwapped(diff) == Wrap(OFFSET - diff)

DelayOf(diff) == Wrap(diff + OFFSET)

(* p is what the scan of get_min_delay_path_id ends with: the first of the *)
(* paths with the least entry.                                             *)
IsFirstMin(d, p) ==
  \A q \in Paths : d[p] <= d[q] /\ (q < p => d[p] < d[q])

FirstMin(d) == CHOOSE p \in Paths : IsFirstMin(d, p)
=============================================================================
