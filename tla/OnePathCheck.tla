---------------------------- MODULE OnePathCheck ----------------------------
(***************************************************************************)
(* The along-path check, one_path_check of repath_cp/src/hopa_cp.c, over   *)
(* the record *cur_path_info.  lcore_stats takes the record from malloc    *)
(* and only this function writes to it, so most of its fields keep what    *)
(* the memory happened to hold: here, any value, chosen in CheckInit.      *)
(***************************************************************************)
EXTENDS Integers

CONSTANTS
  MOD,          \* 2^64: the fields are uint64_t
  Thres(_, _)   \* thres_dt for min_dt and max_dt: min + R * (max - min) as
                \* line 358 computes it, in double and back to uint64_t

VARIABLES
  info,     \* the fields of cur_path_info that nothing writes
  max_dt,
  min_dt,
  traps,    \* whether an integer division by zero ends the process (x86-64)
            \* or gives 0 (aarch64)
  said,     \* what the latest call returned, "none" before the first
  delay,    \* ghost: one-way delay of the latest data packet, any before one
  before    \* ghost: the delays of the data packets before that one

checkVars == <<info, max_dt, min_dt, traps, said, delay, before>>

Word == 0 .. (MOD - 1)
Wrap(x) == x % MOD

(* rising: all three of last_1_dt_grad, last_2_dt_grad, last_3_dt_grad are *)
(* positive, the one question asked of them (line 364).                    *)
Info == [cur_dt : Word, last_1_dt : Word, last_3_dt : Word,
         cur_ts : Word, last_ts : Word, rising : BOOLEAN]

Answers == {"repath", "stay", "trap"}

-----------------------------------------------------------------------------
(* max_dt and min_dt with cur_dt taken into account.                       *)
WiderMax == IF info.cur_dt > max_dt THEN info.cur_dt ELSE max_dt
WiderMin == IF info.cur_dt < min_dt THEN info.cur_dt ELSE min_dt

delta_t == Wrap(info.cur_ts - info.last_ts)

Quotient(x, y) == IF y = 0 THEN 0 ELSE x \div y

(* The verdict on a record with these bounds.                              *)
Verdict(min, max) ==
  LET range == Wrap(Thres(min, max) - min)
      cur_dt_grad == Quotient(Wrap(info.cur_dt - info.last_1_dt), delta_t)
      b2 == Wrap(2 * info.last_3_dt) >= range
      b4 == cur_dt_grad >= Quotient(range, Wrap(2 * delta_t))
      is_force_repath == info.cur_dt >= Thres(min, max)
  IN  IF traps /\ Wrap(2 * delta_t) = 0 THEN "trap"
      ELSE IF (b2 /\ info.rising) \/ b4 \/ is_force_repath THEN "repath"
      ELSE "stay"

CheckInit ==
  /\ info \in Info
  /\ max_dt \in Word /\ min_dt \in Word
  /\ traps \in BOOLEAN
  /\ said = "none"
  /\ delay \in Word /\ before = {}

(* A data packet that took d: hopa_dp_ts_pkt_progress calls the check with *)
(* the argument 1, so that nothing of the packet reaches it.               *)
Check(d) ==
  /\ said # "trap"
  /\ max_dt' = WiderMax
  /\ min_dt' = WiderMin
  /\ said' = Verdict(min_dt', max_dt')
  /\ delay' = d
  /\ before' = IF said = "none" THEN {} ELSE before \cup {delay}
  /\ UNCHANGED <<info, traps>>

CheckNext == \E d \in Word : Check(d)

CheckSpec == CheckInit /\ [][CheckNext]_checkVars

-----------------------------------------------------------------------------
(* Types of the record, whatever malloc returned.                          *)
RecordOK ==
  /\ info \in Info
  /\ max_dt \in Word /\ min_dt \in Word
  /\ traps \in BOOLEAN
  /\ said \in Answers \cup {"none"}
  /\ delay \in Word /\ before \subseteq Word

(* After the first call the bounds enclose the current delay.              *)
Bracket == said # "none" => min_dt <= info.cur_dt /\ info.cur_dt <= max_dt

(* The latest answer is the verdict on the record as it is now.            *)
SaidIsVerdict == said # "none" => said = Verdict(min_dt, max_dt)

(* The inductive invariant: all of the above at once.                      *)
CheckInv == RecordOK /\ Bracket /\ SaidIsVerdict

(* The check gives the same answer for every data packet of a process:     *)
(* what it says is decided by the memory malloc returned, not by the       *)
(* packets.  RepathCp takes this for granted.                              *)
VerdictNeverChanges == [][said # "none" => said' = said]_checkVars

(* What repath_cp/README.md:12-18 describes: the delay of the data packets *)
(* is counted and the hard switch is examined, which line 368 gives when   *)
(* the delay reaches min + R * (max - min).  A packet slower than all the  *)
(* packets before it, and as slow as the max_dt of the record, reaches     *)
(* that whatever R <= 1 is: the check has to ask for another path.         *)
SlowestPacketSwitches ==
  before # {} /\ (\A d \in before : d < delay) /\ delay >= max_dt
    => said = "repath"
=============================================================================
