----------------------------- MODULE RasParams -----------------------------
(***************************************************************************)
(* The arithmetic of the RAS (race-averse scheduling) class:               *)
(* how the number of page writes a task was caught at (wcounts) and its    *)
(* cgroup decide its weight and its time slice.                            *)
(*                                                                         *)
(* Source: kernel/sched/ras.c (calc_ras_weight and the slice assignment    *)
(* repeated in enqueue_task_ras, task_tick_ras and get_rr_interval_ras)    *)
(* and include/linux/sched.h (the RAS_* constants).                        *)
(***************************************************************************)
EXTENDS Naturals

CONSTANTS RAS_FG_TIMESLICE,   \* 50 * HZ / 1000: 5 jiffies at the board's HZ = 100
          RAS_BG_TIMESLICE,   \* 30 * HZ / 1000: 3 jiffies
          RAS_INC_TIME,       \* 10 * HZ / 1000: 1 jiffy per unit of weight
          UINT_MAX            \* largest value of the unsigned int time_slice

\* The C macros divide in integers, so a low HZ can make them 0. A zero
\* base slice would make "--time_slice" wrap: the class needs HZ >= 34.
ASSUME SliceConstants ==
  /\ RAS_FG_TIMESLICE \in Nat /\ RAS_BG_TIMESLICE \in Nat
  /\ RAS_INC_TIME \in Nat /\ UINT_MAX \in Nat
  /\ 1 <= RAS_BG_TIMESLICE
  /\ RAS_BG_TIMESLICE <= RAS_FG_TIMESLICE
  /\ RAS_FG_TIMESLICE + 10 * RAS_INC_TIME < UINT_MAX

\* The cgroup paths that the class tells apart; every other path is "other".
FgGroup == "/"
BgGroup == "/bg_non_interactive"
OtherGroup == "other"
GroupPaths == {FgGroup, BgGroup, OtherGroup}

\* ras.c: calc_ras_weight. Doubling thresholds from 2^4 to 2^13.
calc_ras_weight(wcounts) ==
  CASE wcounts < 16   -> 10
    [] wcounts >= 16   /\ wcounts < 32   -> 9
    [] wcounts >= 32   /\ wcounts < 64   -> 8
    [] wcounts >= 64   /\ wcounts < 128  -> 7
    [] wcounts >= 128  /\ wcounts < 256  -> 6
    [] wcounts >= 256  /\ wcounts < 512  -> 5
    [] wcounts >= 512  /\ wcounts < 1024 -> 4
    [] wcounts >= 1024 /\ wcounts < 2048 -> 3
    [] wcounts >= 2048 /\ wcounts < 4096 -> 2
    [] wcounts >= 4096 /\ wcounts < 8192 -> 1
    [] OTHER -> 0

\* The slice a task of cgroup gp gets: the base of its group plus the weight.
ras_time_slice(gp, wcounts) ==
  (IF gp = FgGroup THEN RAS_FG_TIMESLICE ELSE RAS_BG_TIMESLICE)
    + calc_ras_weight(wcounts) * RAS_INC_TIME

\* The longest slice any task can be given.
MaxSlice == RAS_FG_TIMESLICE + 10 * RAS_INC_TIME

=============================================================================
