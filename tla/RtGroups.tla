------------------------------ MODULE RtGroups ------------------------------
(***************************************************************************)
(* Real-time group scheduling on one CPU (kernel/sched/rt.c and the task   *)
(* group part of core.c, CONFIG_RT_GROUP_SCHED): the tree of run queues,   *)
(* their throttling and its timers, and the admission of bandwidth.        *)
(*                                                                         *)
(* An entity is a task or a group other than Root; the entity of a group   *)
(* is queued on its parent's rt_rq.  rt holds the rt_rq and rt_bandwidth   *)
(* of every group as functions of the group.  On one CPU rt_rq->rt_runtime *)
(* is always its group's.  A task outside the class has prio MAX_RT_PRIO;  *)
(* Other is whatever else runs when no real-time task does.  One section   *)
(* of rq->lock, or of rt_constraints_mutex, is one step.                   *)
(***************************************************************************)
EXTENDS Integers, Sequences, FiniteSets, SequencesExt, FiniteSetsExt

CONSTANTS Tasks, Groups, Root, Other, NoGroup,
          MAX_RT_PRIO,
          Periods, Runtimes,     \* values written to the files and sysctls
          RoundRobin,            \* whether tasks are made SCHED_RR
          Setups,                \* configurations a run starts from
          RUNTIME_INF,           \* no limit, larger than any period
          MaxOps,                \* bound on calls that change parameters
          MaxTime                \* bound on the time a boosted group runs up

ASSUME RtConstants ==
  /\ IsFiniteSet(Tasks) /\ IsFiniteSet(Groups) /\ Root \in Groups
  /\ Tasks \cap Groups = {} /\ Other \notin Tasks \cup Groups /\ NoGroup \notin Groups
  /\ MAX_RT_PRIO \in Nat /\ MaxOps \in Nat /\ MaxTime \in Nat /\ RUNTIME_INF \in Nat
  /\ RoundRobin \subseteq BOOLEAN
  /\ \A p \in Periods : p \in Nat /\ 0 < p /\ p < RUNTIME_INF
  /\ \A r \in Runtimes : r \in Nat /\ r <= RUNTIME_INF

VARIABLES tree,      \* parent of each linked group; groups still allocated
          task,      \* per task: prio, normal_prio, pi, rr, on_rq, tg
          rt,        \* the rt_rq and rt_bandwidth of each group, and need_resched
          curr,      \* rq->curr
          delta,     \* time since curr's exec_start
          sysctl,    \* sched_rt_period_us, sched_rt_runtime_us, and a write in progress
          ops        \* parameter changes left
vars == <<tree, task, rt, curr, delta, sysctl, ops>>

RtPrios == 1 .. (MAX_RT_PRIO - 1)
Prios == 1 .. MAX_RT_PRIO
Entities == Tasks \cup (Groups \ {Root})
Linked == {g \in Groups : g = Root \/ tree.parent[g] # NoGroup}
Children(g) == {c \in Groups : tree.parent[c] = g}

\* for_each_sched_rt_entity: the group of a task, that group's parent, ... , Root.
RqPath(g) ==
  LET path[x \in Linked] == IF x = Root THEN <<Root>> ELSE <<x>> \o path[tree.parent[x]]
  IN  path[g]
SePath(T, e) ==
  IF e \in Groups THEN Front(RqPath(e)) ELSE <<e>> \o Front(RqPath(T[e].tg))
rt_rq_of_se(T, e) == IF e \in Groups THEN tree.parent[e] ELSE T[e].tg

-----------------------------------------------------------------------------
(* Entities on run queues.  R is a value of rt, T one of task. *)

is_rt(T, t) == t \in Tasks /\ T[t].prio < MAX_RT_PRIO
curr_prio(T) == IF curr = Other THEN MAX_RT_PRIO ELSE T[curr].prio
rt_se_prio(R, T, e) == IF e \in Groups THEN R.highest_prio[e] ELSE T[e].prio
rt_rq_throttled(R, g) == R.rt_throttled[g] /\ R.rt_nr_boosted[g] = 0
rt_se_boosted(R, T, e) ==
  IF e \in Groups THEN R.rt_nr_boosted[e] > 0 ELSE T[e].prio # T[e].normal_prio
on_rt_rq(R, T, e) == \E p \in Prios : Contains(R.queue[rt_rq_of_se(T, e)][p], e)
sched_find_first_bit(bitmap) == Min(bitmap \cup {MAX_RT_PRIO})

rt_bandwidth_enabled == sysctl.runtime # RUNTIME_INF
start_rt_bandwidth(R, g) ==
  IF rt_bandwidth_enabled /\ R.rt_runtime[g] # RUNTIME_INF
  THEN [R EXCEPT !.timer[g] = TRUE] ELSE R

\* with inc_rt_prio() and inc_rt_group()
inc_rt_tasks(R, T, e, g) ==
  LET b == IF rt_se_boosted(R, T, e) THEN 1 ELSE 0
  IN  start_rt_bandwidth(
        [R EXCEPT !.rt_nr_running[g] = @ + 1,
                  !.highest_prio[g] = Min({@, rt_se_prio(R, T, e)}),
                  !.rt_nr_boosted[g] = @ + b], g)

dec_rt_tasks(R, T, e, g) ==
  LET b == IF rt_se_boosted(R, T, e) THEN 1 ELSE 0
      prio == rt_se_prio(R, T, e)
  IN  [R EXCEPT !.rt_nr_running[g] = @ - 1,
                !.highest_prio[g] =
                   IF R.rt_nr_running[g] = 1 THEN MAX_RT_PRIO
                   ELSE IF prio = @ THEN sched_find_first_bit(R.bitmap[g]) ELSE @,
                !.rt_nr_boosted[g] = @ - b]

\* __enqueue_rt_entity()
enqueue_one(R, T, e, head) ==
  LET g == rt_rq_of_se(T, e)
      prio == rt_se_prio(R, T, e)
  IN  IF e \in Groups /\ (rt_rq_throttled(R, e) \/ R.rt_nr_running[e] = 0) THEN R
      ELSE inc_rt_tasks([R EXCEPT !.queue[g][prio] = IF head THEN <<e>> \o @ ELSE Append(@, e),
                                  !.bitmap[g] = @ \cup {prio}], T, e, g)

\* __dequeue_rt_entity()
dequeue_one(R, T, e) ==
  LET g == rt_rq_of_se(T, e)
      prio == rt_se_prio(R, T, e)
      q == [p \in Prios |-> SelectSeq(R.queue[g][p], LAMBDA x : x # e)]
  IN  dec_rt_tasks([R EXCEPT !.queue[g] = q,
                             !.bitmap[g] = IF q[prio] = <<>> THEN @ \ {prio} ELSE @], T, e, g)

\* Mutant of dequeue_rt_stack: bottom up.
dequeue_rt_stack_bottom_up(R, T, e) ==
  FoldLeft(LAMBDA S, x : IF on_rt_rq(S, T, x) THEN dequeue_one(S, T, x) ELSE S,
           R, SePath(T, e))

dequeue_rt_stack(R, T, e) ==
  FoldLeft(LAMBDA S, x : IF on_rt_rq(S, T, x) THEN dequeue_one(S, T, x) ELSE S,
           R, Reverse(SePath(T, e)))

enqueue_rt_entity(R, T, e, head) ==
  FoldLeft(LAMBDA S, x : enqueue_one(S, T, x, head), dequeue_rt_stack(R, T, e), SePath(T, e))

dequeue_rt_entity(R, T, e) ==
  FoldLeft(LAMBDA S, x : IF x \in Groups /\ S.rt_nr_running[x] > 0
                         THEN enqueue_one(S, T, x, FALSE) ELSE S,
           dequeue_rt_stack(R, T, e), SePath(T, e))

requeue_task_rt(R, T, t) ==
  FoldLeft(LAMBDA S, e :
             IF ~on_rt_rq(S, T, e) THEN S
             ELSE [S EXCEPT !.queue[rt_rq_of_se(T, e)][rt_se_prio(S, T, e)] =
                              Append(SelectSeq(@, LAMBDA x : x # e), e)],
           R, SePath(T, t))

-----------------------------------------------------------------------------
(* Throttling. *)

\* Mutant of sched_rt_rq_enqueue: no reschedule for what is queued again.
sched_rt_rq_enqueue_quiet(R, T, g) ==
  IF R.rt_nr_running[g] = 0 \/ g = Root \/ on_rt_rq(R, T, g) THEN R
  ELSE enqueue_rt_entity(R, T, g, FALSE)

sched_rt_rq_enqueue(R, T, g) ==
  IF R.rt_nr_running[g] = 0 THEN R
  ELSE LET S == IF g # Root /\ ~on_rt_rq(R, T, g) THEN enqueue_rt_entity(R, T, g, FALSE) ELSE R
       IN  [S EXCEPT !.resched = @ \/ S.highest_prio[g] < curr_prio(T)]

sched_rt_rq_dequeue(R, T, g) ==
  IF g # Root /\ on_rt_rq(R, T, g) THEN dequeue_rt_entity(R, T, g) ELSE R

\* sched_rt_runtime_exceeded(), and resched_task() when it says so.
sched_rt_runtime_exceeded(R, T, g) ==
  CASE R.rt_throttled[g] -> [R EXCEPT !.resched = @ \/ rt_rq_throttled(R, g)]
    [] ~R.rt_throttled[g] /\ R.rt_runtime[g] < R.rt_period[g]
                          /\ R.rt_time[g] > R.rt_runtime[g] ->
         LET S == IF R.rt_runtime[g] # 0 THEN [R EXCEPT !.rt_throttled[g] = TRUE]
                  ELSE [R EXCEPT !.rt_time[g] = 0]
         IN  IF rt_rq_throttled(S, g)
             THEN [sched_rt_rq_dequeue(S, T, g) EXCEPT !.resched = TRUE] ELSE S
    [] OTHER -> R

\* update_curr_rt(): the time is charged to the group of curr and its ancestors.
update_curr_rt(R, T) ==
  IF ~is_rt(T, curr) \/ ~rt_bandwidth_enabled THEN R
  ELSE FoldLeft(LAMBDA S, g :
                  IF S.rt_runtime[g] = RUNTIME_INF THEN S
                  ELSE sched_rt_runtime_exceeded([S EXCEPT !.rt_time[g] = @ + delta], T, g),
                R, RqPath(T[curr].tg))

enqueue_task_rt(R, T, t, head) == enqueue_rt_entity(R, T, t, head)
dequeue_task_rt(R, T, t) == dequeue_rt_entity(update_curr_rt(R, T), T, t)

\* Mutant of do_sched_rt_period_timer: the timer is let go while there is time to pay back.
do_sched_rt_period_timer_forgets(R, T, g, overrun) ==
  LET time == R.rt_time[g] - Min({R.rt_time[g], overrun * R.rt_runtime[g]})
      unthrottle == R.rt_throttled[g] /\ time < R.rt_runtime[g]
      S == [R EXCEPT !.rt_time[g] = time, !.rt_throttled[g] = @ /\ ~unthrottle]
      U == IF unthrottle THEN sched_rt_rq_enqueue(S, T, g) ELSE S
  IN  [U EXCEPT !.timer[g] = R.rt_nr_running[g] > 0 /\ ~R.rt_throttled[g]]

\* do_sched_rt_period_timer() and what sched_rt_period_timer() makes of it.
do_sched_rt_period_timer(R, T, g, overrun) ==
  LET charged == R.rt_time[g] > 0
      time == R.rt_time[g] - Min({R.rt_time[g], overrun * R.rt_runtime[g]})
      unthrottle == charged /\ R.rt_throttled[g] /\ time < R.rt_runtime[g]
      requeue == ~charged /\ R.rt_nr_running[g] > 0 /\ ~rt_rq_throttled(R, g)
      S == [R EXCEPT !.rt_time[g] = time, !.rt_throttled[g] = @ /\ ~unthrottle]
      idle == \/ time = 0 /\ R.rt_nr_running[g] = 0
              \/ /\ ~S.rt_throttled[g]
                 /\ ~rt_bandwidth_enabled \/ R.rt_runtime[g] = RUNTIME_INF
      U == IF unthrottle \/ requeue THEN sched_rt_rq_enqueue(S, T, g) ELSE S
  IN  [U EXCEPT !.timer[g] = ~idle]

sched_rt_period_timer(g, overrun) ==
  /\ rt.timer[g]
  /\ rt' = do_sched_rt_period_timer(rt, task, g, overrun)
  /\ UNCHANGED <<tree, task, curr, delta, sysctl, ops>>

-----------------------------------------------------------------------------
(* The class operations core.c calls. *)

\* pick_next_rt_entity() from rt_rq g down; a group where it would find nothing
\* (BUG_ON) is left standing.
pick_next_rt_entity(R, g) ==
  LET first(x) == LET idx == sched_find_first_bit(R.bitmap[x])
                  IN  IF idx >= MAX_RT_PRIO \/ R.queue[x][idx] = <<>> THEN x
                      ELSE Head(R.queue[x][idx])
      descend[x \in Groups] == LET e == first(x)
                               IN  IF e \in Groups \ {x} THEN descend[e] ELSE e
  IN  descend[g]

\* Mutant of pick_next_task_rt: the root's throttling is not looked at.
pick_next_task_rt_throttled(R) ==
  IF R.rt_nr_running[Root] = 0 THEN Other ELSE pick_next_rt_entity(R, Root)

pick_next_task_rt(R) ==
  IF R.rt_nr_running[Root] = 0 \/ rt_rq_throttled(R, Root) THEN Other
  ELSE pick_next_rt_entity(R, Root)

\* A task of another class runs when there is none of this one.
pick_next_task(R, T) ==
  LET next == pick_next_task_rt(R)
  IN  IF next # Other THEN {next}
      ELSE {Other} \cup {t \in Tasks : T[t].on_rq /\ ~is_rt(T, t)}

Switch(R, T) ==
  /\ curr' \in pick_next_task(R, T)
  /\ rt' = [R EXCEPT !.resched = FALSE]
  /\ task' = T /\ delta' = 0

\* The other classes reschedule for reasons of their own.
preempt_schedule ==
  /\ rt.resched \/ ~is_rt(task, curr)
  /\ Switch(update_curr_rt(rt, task), task)
  /\ UNCHANGED <<tree, sysctl, ops>>

schedule_sleep ==
  /\ curr # Other /\ ~rt.resched
  /\ Switch(IF is_rt(task, curr) THEN dequeue_task_rt(rt, task, curr) ELSE rt,
            [task EXCEPT ![curr].on_rq = FALSE])
  /\ UNCHANGED <<tree, sysctl, ops>>

sched_yield ==
  /\ is_rt(task, curr) /\ ~rt.resched
  /\ Switch(update_curr_rt(requeue_task_rt(rt, task, curr), task), task)
  /\ UNCHANGED <<tree, sysctl, ops>>

\* check_preempt_curr_rt, also for a current task of a lower class.
try_to_wake_up(t) ==
  /\ ~task[t].on_rq
  /\ task' = [task EXCEPT ![t].on_rq = TRUE]
  /\ rt' = IF ~is_rt(task, t) THEN rt
           ELSE [enqueue_task_rt(rt, task', t, FALSE)
                   EXCEPT !.resched = @ \/ task[t].prio < curr_prio(task)]
  /\ UNCHANGED <<tree, curr, delta, sysctl, ops>>

\* A pending reschedule is served at once (CONFIG_PREEMPT): no time passes before.
clock ==
  /\ is_rt(task, curr) /\ delta = 0 /\ ~rt.resched
  /\ \A g \in Groups : rt.rt_time[g] < MaxTime
  /\ delta' = 1
  /\ UNCHANGED <<tree, task, rt, curr, sysctl, ops>>

\* task_tick_rt(): whether a round-robin slice is used up is a choice here.
task_tick_rt(expired) ==
  /\ is_rt(task, curr) /\ delta = 1 /\ ~rt.resched
  /\ LET R == update_curr_rt(rt, task)
         others == \E e \in ToSet(SePath(task, curr)) :
                     /\ on_rt_rq(R, task, e)
                     /\ \E p \in Prios : LET q == R.queue[rt_rq_of_se(task, e)][p]
                                         IN  Contains(q, e) /\ Len(q) > 1
     IN  rt' = IF task[curr].rr /\ expired /\ others
               THEN [requeue_task_rt(R, task, curr) EXCEPT !.resched = TRUE] ELSE R
  /\ delta' = 0
  /\ UNCHANGED <<tree, task, curr, sysctl, ops>>

-----------------------------------------------------------------------------
(* Changes of a task's parameters: off its list, changed, back on it. *)

\* ... by a system call of a task that runs.
Op == ops > 0 /\ ops' = ops - 1 /\ ~rt.resched

\* check_class_changed() with prio_changed_rt, switched_to_rt and, for a running
\* task that leaves the class, switched_to_fair (external).
check_class_changed(t, new) ==
  /\ new.on_rq /\ task[t].prio # new.prio
  /\ IF curr = t THEN task[t].prio < new.prio ELSE new.prio < curr_prio(task)

Requeue(t, new, head, resched) ==
  LET queued == task[t].on_rq /\ is_rt(task, t)
      R == IF queued THEN dequeue_task_rt(rt, task, t) ELSE rt
      T == [task EXCEPT ![t] = new]
      S == IF new.on_rq /\ is_rt(T, t) THEN enqueue_task_rt(R, T, t, head) ELSE R
  IN  /\ task' = T /\ rt' = [S EXCEPT !.resched = @ \/ resched]
      /\ delta' = IF queued THEN 0 ELSE delta
      /\ UNCHANGED <<tree, curr, sysctl>>

\* __sched_setscheduler(): user says that the caller's rights are checked.
sched_setscheduler(t, normal_prio, rr, user) ==
  /\ Op
  /\ rt_bandwidth_enabled /\ user /\ normal_prio < MAX_RT_PRIO => rt.rt_runtime[task[t].tg] # 0
  /\ LET new == [task[t] EXCEPT !.normal_prio = normal_prio, !.rr = rr,
                                !.prio = Min({task[t].pi, normal_prio})]
     IN  Requeue(t, new, FALSE, check_class_changed(t, new))

\* The prio of t's top waiter becomes pi (MAX_RT_PRIO: no real-time waiter).
rt_mutex_setprio(t, pi) ==
  /\ Op /\ pi # task[t].pi
  /\ LET new == [task[t] EXCEPT !.pi = pi, !.prio = Min({pi, task[t].normal_prio})]
     IN  IF new.prio = task[t].prio
         THEN task' = [task EXCEPT ![t] = new] /\ UNCHANGED <<tree, rt, curr, delta, sysctl>>
         ELSE Requeue(t, new, task[t].prio < new.prio, check_class_changed(t, new))

sched_rt_can_attach(t, g) == is_rt(task, t) => rt.rt_runtime[g] # 0
sched_move_task(t, g) == Requeue(t, [task[t] EXCEPT !.tg = g], FALSE, FALSE)

\* cpu_cgroup_can_attach() and cpu_cgroup_attach()
cpu_cgroup_attach(t, g) ==
  /\ Op /\ g \in Linked /\ g # task[t].tg
  /\ sched_rt_can_attach(t, g)
  /\ sched_move_task(t, g)

\* An exiting task goes to the root group, unasked.
cpu_cgroup_exit(t) ==
  /\ Op /\ t = curr /\ task[t].tg # Root
  /\ sched_move_task(t, Root)

-----------------------------------------------------------------------------
(* Groups and their bandwidth. *)

\* The rt_rq and the bandwidth of a new group: no runtime, the default period.
alloc_rt_sched_group(R, g) ==
  [R EXCEPT !.rt_runtime[g] = 0, !.rt_period[g] = sysctl.def_period,
            !.rt_time[g] = 0, !.rt_throttled[g] = FALSE, !.timer[g] = FALSE]
free_rt_sched_group(R, g) ==
  [R EXCEPT !.timer[g] = FALSE, !.rt_throttled[g] = FALSE, !.rt_time[g] = 0]

sched_create_group(g, parent) ==
  /\ tree' = [parent |-> [tree.parent EXCEPT ![g] = parent], alloc |-> tree.alloc \cup {g}]
  /\ rt' = alloc_rt_sched_group(rt, g)
sched_destroy_group(g) == tree' = [tree EXCEPT !.parent[g] = NoGroup] /\ rt' = rt

\* When memory runs out nothing changes.
cpu_cgroup_create(g, parent) ==
  /\ Op /\ g \notin tree.alloc /\ parent \in Linked
  /\ sched_create_group(g, parent)
  /\ UNCHANGED <<task, curr, delta, sysctl>>

\* The cgroup core destroys only groups without tasks and without children.
cpu_cgroup_destroy(g) ==
  /\ Op /\ g \in Linked \ {Root}
  /\ Children(g) = {} /\ \A t \in Tasks : task[t].tg # g
  /\ sched_destroy_group(g)
  /\ UNCHANGED <<task, curr, delta, sysctl>>

\* After a grace period the group is freed and its timer cancelled.
free_sched_group_rcu(g) ==
  /\ g \in tree.alloc \ Linked
  /\ tree' = [tree EXCEPT !.alloc = @ \ {g}]
  /\ rt' = free_rt_sched_group(rt, g)
  /\ UNCHANGED <<task, curr, delta, sysctl, ops>>

to_ratio(period, runtime) ==
  IF runtime = RUNTIME_INF THEN 2 ^ 20 ELSE (runtime * 2 ^ 20) \div period

\* tg_has_rt_tasks(): task_rq(p)->rt is the root's rt_rq, whatever group p is in.
tg_has_rt_tasks(g) == g = Root /\ \E t \in Tasks : is_rt(task, t)

\* d: the group to be changed, and its new period and runtime.
Period(g, d) == IF g = d.tg THEN d.rt_period ELSE rt.rt_period[g]
Runtime(g, d) == IF g = d.tg THEN d.rt_runtime ELSE rt.rt_runtime[g]

tg_rt_schedulable(g, d) ==
  LET ratio(x) == to_ratio(Period(x, d), Runtime(x, d))
  IN  /\ Runtime(g, d) <= Period(g, d) \/ Runtime(g, d) = RUNTIME_INF
      /\ ~(rt_bandwidth_enabled /\ Runtime(g, d) = 0 /\ tg_has_rt_tasks(g))
      /\ ratio(g) <= to_ratio(sysctl.period, sysctl.runtime)
      /\ MapThenSumSet(ratio, Children(g)) <= ratio(g)

\* walk_tg_tree_from() the root, until down says no.
walk_tg_tree(down) == \A g \in Linked : down[g]
rt_schedulable(d) == walk_tg_tree([g \in Linked |-> tg_rt_schedulable(g, d)])

tg_set_rt_bandwidth(g, period, runtime) ==
  /\ Op /\ g \in Linked
  /\ rt_schedulable([tg |-> g, rt_period |-> period, rt_runtime |-> runtime])
  /\ rt' = [rt EXCEPT !.rt_period[g] = period, !.rt_runtime[g] = runtime]
  /\ sysctl' = [sysctl EXCEPT !.raced = @ \/ sysctl.old # <<>>]
  /\ UNCHANGED <<tree, task, curr, delta>>

\* The period (the runtime) is read before the mutex is taken, here with it.
sched_group_set_rt_runtime(g, runtime) == tg_set_rt_bandwidth(g, rt.rt_period[g], runtime)
sched_group_set_rt_period(g, period) == tg_set_rt_bandwidth(g, period, rt.rt_runtime[g])

\* Mutant of sched_rt_handler_write: a write during another one, with no mutex.
sched_rt_handler_write_unlocked(period, runtime) ==
  /\ Op
  /\ sysctl' = [sysctl EXCEPT !.period = period, !.runtime = runtime,
                              !.old = <<sysctl.period, sysctl.runtime>>]
  /\ UNCHANGED <<tree, task, rt, curr, delta>>

\* sched_rt_handler(): proc_dointvec puts the new value in place ...
sched_rt_handler_write(period, runtime) ==
  /\ Op /\ sysctl.old = <<>>
  /\ period = sysctl.period \/ runtime = sysctl.runtime
  /\ sysctl' = [sysctl EXCEPT !.period = period, !.runtime = runtime,
                              !.old = <<sysctl.period, sysctl.runtime>>]
  /\ UNCHANGED <<tree, task, rt, curr, delta>>

sched_rt_global_constraints ==
  /\ sysctl.runtime <= sysctl.period \/ sysctl.runtime = RUNTIME_INF
  /\ rt_schedulable([tg |-> NoGroup, rt_period |-> 0, rt_runtime |-> 0])

\* ... which stays or is taken back.
sched_rt_handler_check ==
  /\ sysctl.old # <<>>
  /\ sysctl' = IF sched_rt_global_constraints
               THEN [sysctl EXCEPT !.old = <<>>, !.def_period = sysctl.period]
               ELSE [sysctl EXCEPT !.old = <<>>, !.period = sysctl.old[1], !.runtime = sysctl.old[2]]
  /\ UNCHANGED <<tree, task, rt, curr, delta, ops>>

-----------------------------------------------------------------------------

\* A setup names the tree, the bandwidths and, per task, its group and policy.
Init ==
  \E s \in Setups :
    /\ tree = [parent |-> s.parent, alloc |-> {g \in Groups : g = Root \/ s.parent[g] # NoGroup}]
    /\ task = [t \in Tasks |-> [prio |-> s.prio[t], normal_prio |-> s.prio[t], pi |-> MAX_RT_PRIO,
                                rr |-> s.rr, on_rq |-> FALSE, tg |-> s.tg[t]]]
    /\ rt = [queue |-> [g \in Groups |-> [p \in Prios |-> <<>>]],
             bitmap |-> [g \in Groups |-> {}],
             rt_nr_running |-> [g \in Groups |-> 0], rt_nr_boosted |-> [g \in Groups |-> 0],
             highest_prio |-> [g \in Groups |-> MAX_RT_PRIO],
             rt_time |-> [g \in Groups |-> 0], rt_throttled |-> [g \in Groups |-> FALSE],
             rt_runtime |-> s.runtime, rt_period |-> [g \in Groups |-> s.period],
             timer |-> [g \in Groups |-> FALSE], resched |-> FALSE]
    /\ sysctl = [period |-> s.period, runtime |-> s.runtime[Root], def_period |-> s.period,
                 old |-> <<>>, raced |-> FALSE]
    /\ curr = Other /\ delta = 0 /\ ops = MaxOps

Timers == \E g \in tree.alloc, overrun \in 1 .. 2 : sched_rt_period_timer(g, overrun)
Scheduling ==
  \/ preempt_schedule \/ schedule_sleep \/ sched_yield \/ clock
  \/ \E t \in Tasks : try_to_wake_up(t)
  \/ \E expired \in BOOLEAN : task_tick_rt(expired)
Parameters ==
  \E t \in Tasks :
    \/ \E p \in Prios, rr \in RoundRobin, user \in BOOLEAN :
         sched_setscheduler(t, p, rr, user)
    \/ \E pi \in Prios : rt_mutex_setprio(t, pi)
    \/ \E g \in Groups : cpu_cgroup_attach(t, g)
    \/ cpu_cgroup_exit(t)
Bandwidth ==
  \/ \E g \in Groups : \/ cpu_cgroup_destroy(g) \/ free_sched_group_rcu(g)
                       \/ \E parent \in Groups : cpu_cgroup_create(g, parent)
                       \/ \E r \in Runtimes : sched_group_set_rt_runtime(g, r)
                       \/ \E p \in Periods : sched_group_set_rt_period(g, p)
  \/ \E p \in Periods, r \in Runtimes : sched_rt_handler_write(p, r)
  \/ sched_rt_handler_check

Next == Timers \/ Scheduling \/ Parameters \/ Bandwidth

Spec == Init /\ [][Next]_vars

-----------------------------------------------------------------------------
(* Properties. *)

TypeOK ==
  /\ curr \in Tasks \cup {Other} /\ delta \in 0 .. 1
  /\ \A t \in Tasks : /\ task[t].prio \in Prios /\ task[t].normal_prio \in Prios
                      /\ task[t].tg \in Linked
  /\ \A g \in Groups : /\ rt.rt_time[g] \in Nat /\ rt.rt_nr_running[g] \in Nat
                       /\ rt.rt_nr_boosted[g] \in Nat /\ rt.highest_prio[g] \in Prios
                       /\ rt.queue[g] \in [Prios -> Seq(Entities)]

\* Every rt_rq counts what is queued on it, and every entity is queued where it
\* belongs: a task when it is runnable, a group when it has something runnable and
\* is not throttled, on the list of its present prio and nowhere else.
EntitiesMatch ==
  TypeOK /\ \A g \in Linked :
    LET on(p) == ToSet(rt.queue[g][p])
        members == {e \in Entities : (e \in Tasks \/ e \in Linked) /\ rt_rq_of_se(task, e) = g}
        due == {e \in members : IF e \in Tasks THEN task[e].on_rq /\ is_rt(task, e)
                                ELSE rt.rt_nr_running[e] > 0 /\ ~rt_rq_throttled(rt, e)}
    IN  /\ \A p \in Prios : /\ on(p) = {e \in due : rt_se_prio(rt, task, e) = p}
                            /\ Len(rt.queue[g][p]) = Cardinality(on(p))
                            /\ p \in rt.bitmap[g] <=> on(p) # {}
        /\ rt.rt_nr_running[g] = Cardinality(due)
        /\ rt.rt_nr_boosted[g] = Cardinality({e \in due : rt_se_boosted(rt, task, e)})
        /\ rt.highest_prio[g] = sched_find_first_bit(rt.bitmap[g])

Runnable ==
  {t \in Tasks : /\ task[t].on_rq /\ is_rt(task, t)
                 /\ \A g \in ToSet(RqPath(task[t].tg)) : ~rt_rq_throttled(rt, g)}

\* The walk down the groups ends at a task (no BUG_ON on the way), and it is one
\* of the best priority among all that are not held by a throttled group.
PicksBest ==
  LET next == pick_next_task_rt(rt)
  IN  IF Runnable = {} THEN next = Other
      ELSE next \in Runnable /\ \A t \in Runnable : task[next].prio <= task[t].prio

\* A throttled group, and one with something queued, has its timer going: the
\* timer is started on an enqueue only, and stops itself when it finds nothing to
\* do.  It holds as long as no runtime is infinite (see the README).
TimerRuns ==
  \A g \in Groups : rt.rt_throttled[g] \/ rt.rt_nr_running[g] > 0 => rt.timer[g]

\* Nobody is overlooked when a timer ends a throttling, at whatever level.
Settled ==
  LET next == pick_next_task_rt(rt)
  IN  rt.resched \/ next = Other \/ task[next].prio >= curr_prio(task)
UnthrottlePreempts ==
  [][(\E g \in Linked : rt.rt_throttled[g] /\ ~rt'.rt_throttled[g]) /\ Settled => Settled']_vars

\* The children of a group never have more bandwidth than the group, whatever
\* groups come and go and whoever writes the files.
ChildrenFit ==
  LET ratio(x) == to_ratio(rt.rt_period[x], rt.rt_runtime[x])
  IN  \A g \in Linked : MapThenSumSet(ratio, Children(g)) <= ratio(g)

\* No group has more than the global setting, unless a write to a group came
\* between a sysctl's new value and its rejection: the two have separate mutexes.
GlobalFits ==
  \/ sysctl.raced \/ sysctl.old # <<>>
  \/ \A g \in Linked : to_ratio(rt.rt_period[g], rt.rt_runtime[g])
                          <= to_ratio(sysctl.period, sysctl.runtime)

\* Bandwidth is handed out once.
BandwidthFits == ChildrenFit /\ GlobalFits
====
