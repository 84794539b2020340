------------------------------ MODULE LoadAvg -------------------------------
(***************************************************************************)
(* The global load average of kernel/sched/core.c: every CPU folds the     *)
(* change of its active count into calc_load_tasks at its first tick after *)
(* calc_load_update; one that stops its tick (CONFIG_NO_HZ) folds it into  *)
(* one of two idle counters instead; Window ticks later whoever keeps the  *)
(* time folds the old idle counter and updates avenrun.                    *)
(*                                                                         *)
(* The code is the same for one CPU and for several.  cpu holds the part   *)
(* of each struct rq, load the global variables; late is how far a CPU's   *)
(* tick is behind jiffies; opened and sample are history variables.        *)
(***************************************************************************)
EXTENDS Integers, FiniteSets, FiniteSetsExt, Functions

CONSTANTS CPUs,
          LOAD_FREQ, Window,      \* 5*HZ+1 and the literal 10, in ticks
          FSHIFT, Exps,           \* 11 and {EXP_1, EXP_5, EXP_15}
          MaxTasks, MaxLate,      \* most active tasks; most ticks a CPU lags behind
          MaxSleep,               \* most ticks that pass at once while every CPU sleeps
          MaxJiffies, MaxChanges  \* bounds on the time and on the tasks' moves

ASSUME LoadConstants ==
  /\ IsFiniteSet(CPUs) /\ CPUs # {}
  /\ Window \in Nat /\ LOAD_FREQ \in Nat /\ MaxLate < Window /\ Window < LOAD_FREQ
  /\ 0 < FSHIFT
  /\ Exps \subseteq 1 .. (2 ^ FSHIFT - 1)

VARIABLES jiffies,
          cpu,       \* nr_running, nr_uninterruptible, calc_load_active,
                     \* calc_load_update, nohz (the tick is stopped), late
          load,      \* calc_load_tasks, calc_load_update, calc_load_idle[2],
                     \* calc_load_idx, avenrun
          opened,    \* each CPU's contribution when the window opened, or since then
          sample,    \* the count last used for avenrun, and what it should have been
          changes
vars == <<jiffies, cpu, load, opened, sample, changes>>

FIXED_1 == 2 ^ FSHIFT
SumOver(f(_)) == SumFunction([c \in CPUs |-> f(c)])

\* nr_running() and nr_uninterruptible(); one CPU's nr_uninterruptible may be
\* below zero.
nr_running == SumOver(LAMBDA c : cpu[c].nr_running)
nr_uninterruptible == Max({0, SumOver(LAMBDA c : cpu[c].nr_uninterruptible)})

-----------------------------------------------------------------------------
(* The average. *)

\* a1 = a0 * e + a * (1 - e), rounded.
calc_load(a0, exp, active) ==
  (a0 * exp + active * (FIXED_1 - exp) + 2 ^ (FSHIFT - 1)) \div FIXED_1

\* Mutant of fixed_power_int: the result is multiplied by the square.
fixed_power_int_late(x, frac_bits, n) ==
  LET times(a, b) == (a * b + 2 ^ (frac_bits - 1)) \div 2 ^ frac_bits
      loop[k \in 0 .. n] ==
        IF k = 0 THEN [x |-> x, result |-> 2 ^ frac_bits]
        ELSE LET s == loop[k - 1]
                 bit == (n \div 2 ^ (k - 1)) % 2
             IN  [x |-> times(s.x, s.x),
                  result |-> IF bit = 1 THEN times(s.result, times(s.x, s.x)) ELSE s.result]
      bits == CHOOSE b \in 0 .. n : 2 ^ b > n
  IN  loop[bits].result

\* x^n in fixed point, from the low bit of n to the high one.
fixed_power_int(x, frac_bits, n) ==
  LET times(a, b) == (a * b + 2 ^ (frac_bits - 1)) \div 2 ^ frac_bits
      loop[k \in 0 .. n] ==
        IF k = 0 THEN [x |-> x, result |-> 2 ^ frac_bits]
        ELSE LET s == loop[k - 1]
                 bit == (n \div 2 ^ (k - 1)) % 2
             IN  [x |-> times(s.x, s.x),
                  result |-> IF bit = 1 THEN times(s.result, s.x) ELSE s.result]
      bits == CHOOSE b \in 0 .. n : 2 ^ b > n
  IN  loop[bits].result

calc_load_n(a0, exp, active, n) == calc_load(a0, fixed_power_int(exp, FSHIFT, n), active)

-----------------------------------------------------------------------------
(* Folding.  L is a value of load, c one of cpu[_], j one of jiffies. *)

calc_load_fold_active(c) == c.nr_running + c.nr_uninterruptible - c.calc_load_active

calc_load_read_idx(L) == L.calc_load_idx

\* Mutant of calc_load_write_idx: old and new idle load in one counter.
calc_load_write_idx_one(L) == L.calc_load_idx

calc_load_write_idx(L) ==
  IF jiffies < L.calc_load_update THEN L.calc_load_idx ELSE 1 - L.calc_load_idx

calc_load_fold_idle(L) ==
  LET r == calc_load_read_idx(L)
  IN  [L EXCEPT !.calc_load_tasks = @ + L.calc_load_idle[r], !.calc_load_idle[r] = 0]

\* "active > 0 ? active * FIXED_1 : 0"
active_of(L) == Max({L.calc_load_tasks, 0}) * FIXED_1

\* The catch-up after several windows of sleep, and the flip of the index.
calc_global_nohz(L, j) ==
  LET delta == j - L.calc_load_update - Window
      n == 1 + delta \div LOAD_FREQ
      S == IF delta < 0 THEN L
           ELSE [L EXCEPT !.calc_load_update = @ + n * LOAD_FREQ,
                          !.avenrun = [e \in Exps |-> calc_load_n(@[e], e, active_of(L), n)]]
  IN  [S EXCEPT !.calc_load_idx = 1 - @]

calc_global_load(L, j) ==
  IF j < L.calc_load_update + Window THEN L
  ELSE LET S == calc_load_fold_idle(L)
       IN  calc_global_nohz([S EXCEPT !.calc_load_update = @ + LOAD_FREQ,
                                      !.avenrun = [e \in Exps |-> calc_load(@[e], e, active_of(S))]], j)

\* The state of c and of load after c's own accounting at its tick.
calc_load_account_active(c, L, j) ==
  IF j < c.calc_load_update THEN [cpu |-> c, load |-> L]
  ELSE LET delta == calc_load_fold_active(c)
       IN  [cpu |-> [c EXCEPT !.calc_load_active = @ + delta, !.calc_load_update = @ + LOAD_FREQ],
            load |-> [L EXCEPT !.calc_load_tasks = @ + delta]]

-----------------------------------------------------------------------------
(* The history.  Until a window opens, opened follows calc_load_active;    *)
(* then a CPU's entry changes only when the CPU accounts for itself.       *)

Reopen(ticking) ==
  opened' = IF load'.calc_load_update # load.calc_load_update \/ jiffies' < load.calc_load_update
            THEN [c \in CPUs |-> cpu'[c].calc_load_active]
            ELSE [c \in CPUs |-> IF c \in ticking /\ cpu[c].calc_load_update <= jiffies'
                                  THEN cpu'[c].calc_load_active ELSE opened[c]]

\* L is load after the global part of a step, before a CPU's own.
Sampled(L) ==
  sample' = IF L.calc_load_update = load.calc_load_update THEN sample
            ELSE [used |-> calc_load_fold_idle(load).calc_load_tasks,
                  due |-> SumOver(LAMBDA c : opened[c])]

-----------------------------------------------------------------------------
(* The callers: ticks, interrupts, the idle loop. *)

\* The tick of the CPU that keeps the time: do_timer(), then update_cpu_load_active().
timekeeper_tick(c) ==
  /\ ~cpu[c].nohz /\ cpu[c].late = 0 /\ jiffies < MaxJiffies
  /\ \A d \in CPUs \ {c} : cpu[d].late < MaxLate
  /\ LET L == calc_global_load(load, jiffies + 1)
         own == calc_load_account_active(cpu[c], L, jiffies + 1)
     IN  /\ load' = own.load
         /\ cpu' = [d \in CPUs |-> CASE d = c -> own.cpu
                                     [] d # c /\ cpu[d].nohz -> cpu[d]
                                     [] OTHER -> [cpu[d] EXCEPT !.late = @ + 1]]
         /\ Sampled(L)
  /\ jiffies' = jiffies + 1 /\ Reopen({c})
  /\ UNCHANGED changes

\* update_cpu_load_active() on another CPU, for the ticks it is behind.
late_tick(c) ==
  /\ cpu[c].late > 0
  /\ LET own == calc_load_account_active(cpu[c], load, jiffies)
     IN  /\ load' = own.load
         /\ cpu' = [cpu EXCEPT ![c] = [own.cpu EXCEPT !.late = 0]]
  /\ UNCHANGED jiffies /\ Reopen({c})
  /\ UNCHANGED <<sample, changes>>

\* An interrupt when every CPU's tick is stopped brings jiffies up to date.
idle_interrupt(ticks) ==
  /\ \A c \in CPUs : cpu[c].nohz
  /\ jiffies + ticks <= MaxJiffies
  /\ load' = calc_global_load(load, jiffies + ticks)
  /\ jiffies' = jiffies + ticks
  /\ Sampled(load')
  /\ UNCHANGED cpu /\ Reopen({})
  /\ UNCHANGED changes

\* Mutant of calc_load_enter_idle: the delta is not taken out of the CPU.
calc_load_enter_idle_again(c) ==
  /\ ~cpu[c].nohz /\ cpu[c].nr_running = 0
  /\ LET delta == calc_load_fold_active(cpu[c])
     IN  /\ load' = [load EXCEPT !.calc_load_idle[calc_load_write_idx(load)] = @ + delta]
         /\ cpu' = [cpu EXCEPT ![c].nohz = TRUE, ![c].late = 0]
  /\ UNCHANGED jiffies /\ Reopen({})
  /\ UNCHANGED <<sample, changes>>

\* The idle loop stops the tick.
calc_load_enter_idle(c) ==
  /\ ~cpu[c].nohz /\ cpu[c].nr_running = 0
  /\ LET delta == calc_load_fold_active(cpu[c])
     IN  /\ load' = [load EXCEPT !.calc_load_idle[calc_load_write_idx(load)] = @ + delta]
         /\ cpu' = [cpu EXCEPT ![c].calc_load_active = @ + delta, ![c].nohz = TRUE, ![c].late = 0]
  /\ UNCHANGED jiffies /\ Reopen({})
  /\ UNCHANGED <<sample, changes>>

\* Mutant of calc_load_exit_idle: the CPU's own time is pushed, not synchronised.
calc_load_exit_idle_pushes(c) ==
  /\ cpu[c].nohz /\ cpu[c].nr_running > 0
  /\ cpu' = [cpu EXCEPT ![c].nohz = FALSE, ![c].calc_load_update = @ + LOAD_FREQ]
  /\ UNCHANGED <<jiffies, load, opened, sample, changes>>

\* The idle loop ends and starts the tick.
calc_load_exit_idle(c) ==
  /\ cpu[c].nohz /\ cpu[c].nr_running > 0
  /\ LET next == load.calc_load_update
     IN  cpu' = [cpu EXCEPT ![c].nohz = FALSE,
                            ![c].calc_load_update =
                               IF jiffies < @ THEN @
                               ELSE IF jiffies < next + Window THEN next + LOAD_FREQ ELSE next]
  /\ UNCHANGED <<jiffies, load, opened, sample, changes>>

\* activate_task() on c, of a task that slept or is new.
activate_task(c, uninterruptible) ==
  /\ changes < MaxChanges
  /\ IF uninterruptible THEN nr_uninterruptible > 0 ELSE nr_running + nr_uninterruptible < MaxTasks
  /\ cpu' = [cpu EXCEPT ![c].nr_running = @ + 1,
                        ![c].nr_uninterruptible = IF uninterruptible THEN @ - 1 ELSE @]
  /\ changes' = changes + 1
  /\ UNCHANGED <<jiffies, load, opened, sample>>

deactivate_task(c, uninterruptible) ==
  /\ changes < MaxChanges
  /\ ~cpu[c].nohz /\ cpu[c].nr_running > 0
  /\ cpu' = [cpu EXCEPT ![c].nr_running = @ - 1,
                        ![c].nr_uninterruptible = IF uninterruptible THEN @ + 1 ELSE @]
  /\ changes' = changes + 1
  /\ UNCHANGED <<jiffies, load, opened, sample>>

-----------------------------------------------------------------------------

Init ==
  /\ jiffies = 0
  /\ cpu = [c \in CPUs |-> [nr_running |-> 0, nr_uninterruptible |-> 0, calc_load_active |-> 0,
                            calc_load_update |-> LOAD_FREQ, nohz |-> FALSE, late |-> 0]]
  /\ load = [calc_load_tasks |-> 0, calc_load_update |-> LOAD_FREQ,
             calc_load_idle |-> [i \in 0 .. 1 |-> 0], calc_load_idx |-> 0,
             avenrun |-> [e \in Exps |-> 0]]
  /\ opened = [c \in CPUs |-> 0]
  /\ sample = [used |-> 0, due |-> 0]
  /\ changes = 0

Next ==
  \/ \E c \in CPUs :
       \/ timekeeper_tick(c) \/ late_tick(c)
       \/ calc_load_enter_idle(c) \/ calc_load_exit_idle(c)
       \/ \E uninterruptible \in BOOLEAN :
            activate_task(c, uninterruptible) \/ deactivate_task(c, uninterruptible)
  \/ \E ticks \in 1 .. MaxSleep : idle_interrupt(ticks)

Spec == Init /\ [][Next]_vars

-----------------------------------------------------------------------------
(* Properties. *)

TypeOK ==
  /\ jiffies \in Nat /\ changes \in 0 .. MaxChanges
  /\ load.calc_load_idx \in 0 .. 1 /\ load.calc_load_update \in Nat
  /\ \A e \in Exps : load.avenrun[e] \in 0 .. (Cardinality(CPUs) * MaxTasks * FIXED_1)
  /\ \A c \in CPUs : /\ cpu[c].nr_running \in Nat /\ cpu[c].calc_load_active \in Int
                     /\ cpu[c].nohz \in BOOLEAN /\ cpu[c].late \in 0 .. MaxLate

\* No delta is lost or counted twice, whichever of the three counters it is in,
\* and whenever CPUs stop and start their ticks.
DeltasKept ==
  load.calc_load_tasks + load.calc_load_idle[0] + load.calc_load_idle[1]
    = SumOver(LAMBDA c : cpu[c].calc_load_active)

\* What a CPU folds by going idle in a window counts for the next one: the count
\* used at the end of a window is the one of its beginning, with the samples taken
\* in it.
WindowsSeparate == sample.used = sample.due

\* A CPU is never further behind than the window after the next one.
OneWindowSkipped ==
  \A c \in CPUs : cpu[c].calc_load_update <= load.calc_load_update + LOAD_FREQ

\* A catch-up of n windows comes to what n updates would have come to, but for
\* rounding, with the average and the count of any reachable state.
CatchUpAgrees ==
  LET active == active_of(load)
      steps(e) == LET avg[k \in 0 .. 12] ==
                        IF k = 0 THEN load.avenrun[e] ELSE calc_load(avg[k - 1], e, active)
                  IN  avg
  IN  /\ TypeOK
      /\ \A e \in Exps : LET avg == steps(e)
                         IN  \A n \in 1 .. 12 :
                               calc_load_n(load.avenrun[e], e, active, n) - avg[n] \in -n .. n
====
