------------------------------ MODULE CpuTime -------------------------------
(***************************************************************************)
(* Who is charged for the time of one CPU (kernel/sched/core.c and         *)
(* update_curr_ras of ras.c): ticks go to a task and to a field of the     *)
(* CPU's and the accounting groups' statistics, the clock's time to the    *)
(* task's sum_exec_runtime and its groups' cpuusage, and task_times and    *)
(* thread_group_times make one report of both.                             *)
(*                                                                         *)
(* The clock goes in units of 1/TICK_NSEC of a tick.  ran is the time      *)
(* since curr's exec_start.  The statistics of group RootCa are those of   *)
(* the CPU (kernel_cpustat).  The tasks are the threads of one process.    *)
(***************************************************************************)
EXTENDS Integers, FiniteSets, FiniteSetsExt, Functions

CONSTANTS Tasks, Idle, Groups, RootCa, NoGroup,
          TICK_NSEC,
          CPUTIME_MAX,           \* the largest cputime_t
          Setups,                \* accounting groups, and the tasks' groups, at the start
          Contexts,              \* where a tick can hit, beside user mode
          MaxJiffies, MaxOps     \* bounds on the time and on the calls

ASSUME TimeConstants ==
  /\ IsFiniteSet(Tasks) /\ IsFiniteSet(Groups) /\ RootCa \in Groups
  /\ Idle \notin Tasks /\ NoGroup \notin Groups
  /\ TICK_NSEC \in Nat \ {0} /\ MaxJiffies \in Nat
  /\ CPUTIME_MAX \in Nat /\ CPUTIME_MAX > MaxJiffies
  /\ Contexts \subseteq {"kernel", "guest", "softirq", "irq"}

VARIABLES jiffies, phase,  \* ticks, and the part of the next one that is over
          curr, ran,
          task,            \* nice, in_iowait, and ca, the accounting group
          tree,            \* parent of each accounting group
          acct,            \* per task: utime, stime, gtime, sum_exec_runtime; per group:
                           \* cpustat and cpuusage
          missed,          \* ticks not accounted for since the tick was stopped, or -1
          prev,            \* prev_utime and prev_stime of each task and of the process
          reader,          \* a caller of task_times between its reads and its writes
          raced,           \* history: tasks for which another call came between them
          clocked,         \* history: the clock's time not spent in the idle task
          discarded,       \* history: the root's cpuusage thrown away by writes
          ops
vars == <<jiffies, phase, curr, ran, task, tree, acct, missed, prev, reader, raced,
          clocked, discarded, ops>>

Fields == {"user", "nice", "system", "softirq", "irq", "idle", "iowait", "guest", "guest_nice"}
Live == {g \in Groups : g = RootCa \/ tree[g] # NoGroup}
Process == "process"           \* signal_struct, beside the tasks in prev
NoReader == <<>>

\* At the start the accounting groups form a tree, which the tasks are in.
ASSUME SetupsFormed ==
  /\ Process \notin Tasks
  /\ \A s \in Setups :
       LET live == {g \in Groups : g = RootCa \/ s.tree[g] # NoGroup}
       IN  /\ s.tree \in [Groups -> live \cup {NoGroup}] /\ s.tree[RootCa] = NoGroup
           /\ s.ca \in [Tasks -> live]
           /\ \E depth \in [Groups -> 0 .. Cardinality(Groups)] :
                \A g \in live \ {RootCa} : depth[s.tree[g]] < depth[g]

SumOver(f(_), S) == SumFunction([x \in S |-> f(x)])

nr_iowait == Cardinality({t \in Tasks : task[t].in_iowait})

\* task_ca() and parent_ca(): the groups of a task, up to the root.
CaPath(t) == LET path[x \in Live] == IF x = RootCa THEN {x} ELSE {x} \cup path[tree[x]]
             IN  path[IF t = Idle THEN RootCa ELSE task[t].ca]
TASK_NICE(t) == t # Idle /\ task[t].nice

-----------------------------------------------------------------------------
(* Ticks.  A is a value of acct. *)

task_group_account_field(A, t, index) ==
  LET path == CaPath(t)
  IN  [A EXCEPT !.cpustat = [g \in Groups |-> [f \in Fields |->
                               IF g \in path /\ f = index THEN @[g][f] + 1 ELSE @[g][f]]]]

account_user_time(A, t) ==
  task_group_account_field([A EXCEPT !.utime[t] = @ + 1], t,
                           IF TASK_NICE(t) THEN "nice" ELSE "user")

\* Guest time is part of the user time, in the CPU's statistics only.
account_guest_time(A, t) ==
  LET user == IF TASK_NICE(t) THEN "nice" ELSE "user"
      guest == IF TASK_NICE(t) THEN "guest_nice" ELSE "guest"
      U == [A EXCEPT !.utime[t] = @ + 1, !.gtime[t] = @ + 1, !.cpustat[RootCa][user] = @ + 1]
  IN  [U EXCEPT !.cpustat[RootCa][guest] = @ + 1]

\* Mutant of account_system_time: guest time counts as system time as well.
account_system_time_guest(A, t, context) ==
  LET G == IF context = "guest" THEN account_guest_time(A, t) ELSE A
  IN  task_group_account_field([G EXCEPT !.stime[t] = @ + 1], t, "system")

\* account_system_time() and __account_system_time()
account_system_time(A, t, context) ==
  IF context = "guest" THEN account_guest_time(A, t)
  ELSE task_group_account_field([A EXCEPT !.stime[t] = @ + 1], t,
                                IF context = "kernel" THEN "system" ELSE context)

account_idle_time(A, ticks) ==
  [A EXCEPT !.cpustat[RootCa][IF nr_iowait > 0 THEN "iowait" ELSE "idle"] = @ + ticks]

account_process_tick(A, user_tick, context) ==
  IF user_tick THEN account_user_time(A, curr)
  ELSE IF curr # Idle \/ context # "kernel" THEN account_system_time(A, curr, context)
  ELSE account_idle_time(A, 1)

-----------------------------------------------------------------------------
(* The clock.  The classes charge alike; the idle class charges nothing. *)

cpuacct_charge(A, t, cputime) ==
  LET path == CaPath(t)
  IN  [A EXCEPT !.cpuusage = [g \in Groups |-> IF g \in path THEN @[g] + cputime ELSE @[g]]]

\* update_curr_ras() when curr's exec_start was ran units ago.
update_curr(A, delta_exec) ==
  IF curr = Idle THEN A
  ELSE cpuacct_charge([A EXCEPT !.sum_exec_runtime[curr] = @ + delta_exec], curr, delta_exec)

\* task_sched_runtime() with do_task_delta_exec()
task_sched_runtime(t) == acct.sum_exec_runtime[t] + (IF t = curr THEN ran ELSE 0)

clock ==
  /\ missed < 0 /\ phase < TICK_NSEC - 1 /\ jiffies < MaxJiffies
  /\ phase' = phase + 1 /\ ran' = ran + 1
  /\ clocked' = IF curr = Idle THEN clocked ELSE clocked + 1
  /\ UNCHANGED <<jiffies, curr, task, tree, acct, missed, prev, reader, raced, discarded, ops>>

\* The tick is accounted for, then scheduler_tick() charges the clock's time.
tick(user_tick, context) ==
  /\ missed < 0 /\ phase = TICK_NSEC - 1 /\ jiffies < MaxJiffies
  /\ user_tick => curr # Idle /\ context = "kernel"
  /\ context = "guest" => curr # Idle
  /\ acct' = update_curr(account_process_tick(acct, user_tick, context), ran + 1)
  /\ jiffies' = jiffies + 1 /\ phase' = 0 /\ ran' = 0
  /\ clocked' = IF curr = Idle THEN clocked ELSE clocked + 1
  /\ UNCHANGED <<curr, task, tree, missed, prev, reader, raced, discarded, ops>>

\* Mutant of schedule: the task that is left is not charged.
schedule_uncharged(next) ==
  /\ missed < 0 /\ next # curr
  /\ curr' = next /\ ran' = 0 /\ acct' = acct
  /\ UNCHANGED <<jiffies, phase, task, tree, missed, prev, reader, raced, clocked, discarded, ops>>

\* put_prev_task() charges the task that is left, pick_next_task() starts the next.
schedule(next) ==
  /\ missed < 0 /\ next # curr
  /\ curr' = next /\ ran' = 0 /\ acct' = update_curr(acct, ran)
  /\ UNCHANGED <<jiffies, phase, task, tree, missed, prev, reader, raced, clocked, discarded, ops>>

-----------------------------------------------------------------------------
(* Idle without ticks. *)

nohz_stop ==
  /\ curr = Idle /\ missed < 0
  /\ missed' = 0
  /\ UNCHANGED <<jiffies, phase, curr, ran, task, tree, acct, prev, reader, raced, clocked,
                 discarded, ops>>

nohz_pass ==
  /\ missed >= 0 /\ jiffies < MaxJiffies
  /\ jiffies' = jiffies + 1 /\ missed' = missed + 1
  /\ UNCHANGED <<phase, curr, ran, task, tree, acct, prev, reader, raced, clocked, discarded, ops>>

account_idle_ticks(ticks) == account_idle_time(acct, ticks)

nohz_restart ==
  /\ missed >= 0
  /\ acct' = account_idle_ticks(missed) /\ missed' = -1
  /\ UNCHANGED <<jiffies, phase, curr, ran, task, tree, prev, reader, raced, clocked, discarded, ops>>

-----------------------------------------------------------------------------
(* Reports.  Differences of cputime_t wrap. *)

\* Mutant of scale_utime: the sampled time is taken as it is.
scale_utime_sampled(utime, rtime, total) == utime

scale_utime(utime, rtime, total) == (rtime * utime) \div total

\* Mutant of times_of: the user time is not compared with the previous one.
times_of_fresh(p, r) ==
  LET total == r.utime + r.stime
      utime == IF total > 0 THEN scale_utime(r.utime, r.rtime, total) ELSE r.rtime
  IN  [prev_utime |-> utime,
       prev_stime |-> Max({p.prev_stime, (r.rtime - utime) % (CPUTIME_MAX + 1)})]

\* The new previous values, from the old ones p and a reading r.
times_of(p, r) ==
  LET total == r.utime + r.stime
      utime == IF total > 0 THEN scale_utime(r.utime, r.rtime, total) ELSE r.rtime
      u == Max({p.prev_utime, utime})
  IN  [prev_utime |-> u,
       prev_stime |-> Max({p.prev_stime, (r.rtime - u) % (CPUTIME_MAX + 1)})]

nsecs_to_cputime(ns) == ns \div TICK_NSEC

\* The reading of a task takes sum_exec_runtime, that of the process (external:
\* thread_group_cputime) what the running thread has yet to be charged as well.
Reading(who) ==
  IF who = Process
  THEN [utime |-> SumOver(LAMBDA t : acct.utime[t], Tasks),
        stime |-> SumOver(LAMBDA t : acct.stime[t], Tasks),
        rtime |-> nsecs_to_cputime(SumOver(task_sched_runtime, Tasks))]
  ELSE [utime |-> acct.utime[who], stime |-> acct.stime[who],
        rtime |-> nsecs_to_cputime(acct.sum_exec_runtime[who])]

Op == ops < MaxOps /\ ops' = ops + 1

\* Called with siglock held, so that no two calls overlap.
thread_group_times ==
  /\ Op
  /\ prev' = [prev EXCEPT ![Process] = times_of(@, Reading(Process))]
  /\ UNCHANGED <<jiffies, phase, curr, ran, task, tree, acct, missed, reader, raced, clocked, discarded>>

\* Called with no lock: a caller may be preempted after it has read the times.
task_times(t) ==
  /\ Op
  /\ prev' = [prev EXCEPT ![t] = times_of(@, Reading(t))]
  /\ raced' = IF reader # NoReader /\ reader[1] = t THEN raced \cup {t} ELSE raced
  /\ UNCHANGED <<jiffies, phase, curr, ran, task, tree, acct, missed, reader, clocked, discarded>>

task_times_preempted(t) ==
  /\ Op /\ reader = NoReader
  /\ reader' = <<t, Reading(t), prev[t]>>
  /\ UNCHANGED <<jiffies, phase, curr, ran, task, tree, acct, missed, prev, raced, clocked, discarded>>

\* It may have read the previous values before it was preempted or read them now.
task_times_resumed ==
  /\ reader # NoReader
  /\ \E p \in {reader[3], prev[reader[1]]} :
       prev' = [prev EXCEPT ![reader[1]] = times_of(p, reader[2])]
  /\ reader' = NoReader
  /\ UNCHANGED <<jiffies, phase, curr, ran, task, tree, acct, missed, raced, clocked, discarded, ops>>

-----------------------------------------------------------------------------
(* Calls that change what is charged where. *)

Zero == [f \in Fields |-> 0]

\* io_schedule(): curr waits for I/O while next runs ...
io_schedule(next) ==
  /\ Op /\ curr # Idle /\ ~task[curr].in_iowait /\ missed < 0 /\ next # curr
  /\ task' = [task EXCEPT ![curr].in_iowait = TRUE]
  /\ curr' = next /\ ran' = 0 /\ acct' = update_curr(acct, ran)
  /\ UNCHANGED <<jiffies, phase, tree, missed, prev, reader, raced, clocked, discarded>>

\* ... until it is back in io_schedule().
io_schedule_return ==
  /\ curr # Idle /\ task[curr].in_iowait
  /\ task' = [task EXCEPT ![curr].in_iowait = FALSE]
  /\ UNCHANGED <<jiffies, phase, curr, ran, tree, acct, missed, prev, reader, raced, clocked,
                 discarded, ops>>

set_user_nice(t) ==
  /\ Op
  /\ task' = [task EXCEPT ![t].nice = ~@]
  /\ UNCHANGED <<jiffies, phase, curr, ran, tree, acct, missed, prev, reader, raced, clocked, discarded>>

\* The cgroup core moves a task; what it has run so far is charged later, to the
\* new group.
cpuacct_attach(t, g) ==
  /\ Op /\ g \in Live /\ g # task[t].ca
  /\ task' = [task EXCEPT ![t].ca = g]
  /\ UNCHANGED <<jiffies, phase, curr, ran, tree, acct, missed, prev, reader, raced, clocked, discarded>>

cpuacct_create(g, parent) ==
  /\ Op /\ g \notin Live /\ parent \in Live
  /\ tree' = [tree EXCEPT ![g] = parent]
  /\ acct' = [acct EXCEPT !.cpustat[g] = Zero, !.cpuusage[g] = 0]
  /\ UNCHANGED <<jiffies, phase, curr, ran, task, missed, prev, reader, raced, clocked, discarded>>

\* Only a group without tasks and children.
cpuacct_destroy(g) ==
  /\ Op /\ g \in Live \ {RootCa}
  /\ \A x \in Groups : tree[x] # g
  /\ \A t \in Tasks : task[t].ca # g
  /\ tree' = [tree EXCEPT ![g] = NoGroup]
  /\ UNCHANGED <<jiffies, phase, curr, ran, task, acct, missed, prev, reader, raced, clocked, discarded>>

\* A write of 0 to cpuacct.usage.
cpuusage_write(g) ==
  /\ Op /\ g \in Live
  /\ acct' = [acct EXCEPT !.cpuusage[g] = 0]
  /\ discarded' = IF g = RootCa THEN discarded + acct.cpuusage[g] ELSE discarded
  /\ UNCHANGED <<jiffies, phase, curr, ran, task, tree, missed, prev, reader, raced, clocked>>

\* cpuacct_stats_show()
cpuacct_stats_show(g) ==
  LET s == acct.cpustat[g]
  IN  [user |-> s.user + s.nice, system |-> s.system + s.irq + s.softirq]

-----------------------------------------------------------------------------

Init ==
  /\ jiffies = 0 /\ phase = 0 /\ curr = Idle /\ ran = 0
  /\ \E s \in Setups :
       /\ tree = s.tree
       /\ task = [t \in Tasks |-> [nice |-> FALSE, in_iowait |-> FALSE, ca |-> s.ca[t]]]
  /\ acct = LET none == [t \in Tasks \cup {Idle} |-> 0]
            IN  [utime |-> none, stime |-> none, gtime |-> none, sum_exec_runtime |-> none,
                 cpustat |-> [g \in Groups |-> Zero], cpuusage |-> [g \in Groups |-> 0]]
  /\ missed = -1
  /\ prev = [x \in Tasks \cup {Process} |-> [prev_utime |-> 0, prev_stime |-> 0]]
  /\ reader = NoReader /\ raced = {} /\ clocked = 0 /\ discarded = 0 /\ ops = 0

Next ==
  \/ clock \/ nohz_stop \/ nohz_pass \/ nohz_restart
  \/ \E user_tick \in BOOLEAN, context \in Contexts : tick(user_tick, context)
  \/ \E next \in Tasks \cup {Idle} : schedule(next) \/ io_schedule(next)
  \/ io_schedule_return
  \/ thread_group_times \/ task_times_resumed
  \/ \E t \in Tasks : \/ task_times(t) \/ task_times_preempted(t) \/ set_user_nice(t)
                      \/ \E g \in Groups : cpuacct_attach(t, g)
  \/ \E g \in Groups : \/ cpuacct_destroy(g) \/ cpuusage_write(g)
                       \/ \E parent \in Groups : cpuacct_create(g, parent)

Spec == Init /\ [][Next]_vars

-----------------------------------------------------------------------------
(* Properties. *)

TypeOK ==
  /\ jiffies \in 0 .. MaxJiffies /\ phase \in 0 .. (TICK_NSEC - 1) /\ ran \in Nat
  /\ curr \in Tasks \cup {Idle} /\ missed \in -1 .. MaxJiffies
  /\ \A x \in DOMAIN prev : prev[x].prev_utime \in 0 .. CPUTIME_MAX
                            /\ prev[x].prev_stime \in 0 .. CPUTIME_MAX
  /\ \A g \in Groups, f \in Fields : acct.cpustat[g][f] \in Nat
  /\ \A t \in Tasks : task[t].ca \in Live

\* A group's report covers those of its children, wherever the tasks move.
GroupsCoverChildren ==
  \A g \in Live, f \in {"user", "system"} :
    cpuacct_stats_show(g)[f]
      >= SumOver(LAMBDA x : IF tree[x] = g THEN cpuacct_stats_show(x)[f] ELSE 0, Groups)

\* Every tick is in one field of the CPU's statistics, in the right kind, and in
\* the times of one task and of all its groups: nothing is counted twice or
\* dropped, with the tick running or stopped, in whatever context it hits.
TicksAccounted ==
  LET s == acct.cpustat[RootCa]
      total(times) == SumOver(LAMBDA t : times[t], Tasks \cup {Idle})
  IN  /\ TypeOK /\ GroupsCoverChildren
      /\ s.user + s.nice = total(acct.utime)
      /\ s.system + s.irq + s.softirq = total(acct.stime)
      /\ s.guest + s.guest_nice = total(acct.gtime)
      /\ s.user + s.nice + s.system + s.irq + s.softirq + s.idle + s.iowait
           = jiffies - Max({missed, 0})

\* The clock's time is charged once: what the tasks report, and what the root
\* group was charged and not reset, is the time the CPU was not idle.
RuntimeChargedOnce ==
  /\ SumOver(task_sched_runtime, Tasks) = clocked
  /\ acct.cpuusage[RootCa] + discarded = SumOver(LAMBDA t : acct.sum_exec_runtime[t], Tasks)

\* Reported times never exceed the time that was run (the difference in times_of
\* does not wrap): for a process always, for a task as long as no two callers of
\* task_times overlapped.
TimesSane ==
  \A x \in (Tasks \cup {Process}) \ raced :
    LET rtime == Reading(x).rtime
    IN  prev[x].prev_utime <= rtime /\ prev[x].prev_stime <= rtime

\* Nor, under the same condition, do they ever go back, however the ticks hit.
TimesMonotone ==
  [][\A x \in DOMAIN prev \ raced : /\ prev'[x].prev_utime >= prev[x].prev_utime
                                    /\ prev'[x].prev_stime >= prev[x].prev_stime]_vars
====
