------------------------------ MODULE RasSched ------------------------------
(***************************************************************************)
(* One CPU's scheduler (the goldfish kernel is built without CONFIG_SMP    *)
(* and with CONFIG_PREEMPT): kernel/sched/core.c driving the RT, RAS and   *)
(* fair classes.  RAS (ras.c) is modelled in full but for its time         *)
(* accounting; RT (rt.c) with its per-priority lists in the root group     *)
(* and without bandwidth throttling; the fair class is not part of the     *)
(* repository and appears as a set from which any member may be picked.    *)
(*                                                                         *)
(* task[p] holds the fields of struct task_struct the scheduler uses, rq   *)
(* the run lists and counters of struct rq, curr is rq->curr and           *)
(* need_resched the TIF_NEED_RESCHED flag of curr.  An action is what one  *)
(* critical section of rq->lock does.                                      *)
(***************************************************************************)
EXTENDS RasParams, Integers, Sequences, FiniteSets

CONSTANTS Tasks,         \* the task_structs that may exist
          Idle,          \* the idle task, never on a run list
          InitProc,      \* pid 1: the kernel panics if it exits
          Workers,       \* workqueue threads (PF_WQ_WORKER)
          Policies,      \* the policies sched_setscheduler is called with
          RtPriorities,  \* the sched_priority values used for FIFO and RR
          MAX_RT_PRIO,   \* prio values below it are real time (100 in Linux)
          MAX_PRIO,      \* one more than the largest prio (140 in Linux)
          DEFAULT_PRIO,  \* NICE_TO_PRIO(0)
          NicePrios,     \* the static_prio values set_user_nice is called with
          BoostPrios,    \* the prio of rt_mutex waiters
          ResetFlags,    \* values of the SCHED_RESET_ON_FORK flag
          Groups,        \* the cgroups tasks are moved to
          WCounts,       \* the values wcounts takes after the start
          Polled,        \* the tasks sched_rr_get_interval is called for
          RR_TIMESLICE   \* slice of a SCHED_RR task

AllPolicies == {"NORMAL", "BATCH", "IDLE", "FIFO", "RR", "RAS"}
rt_policy(pol) == pol \in {"FIFO", "RR"}

ASSUME TaskConstants ==
  /\ IsFiniteSet(Tasks) /\ Idle \notin Tasks
  /\ InitProc \in Tasks /\ Workers \subseteq Tasks /\ Polled \subseteq Tasks
  /\ Policies \subseteq AllPolicies
  /\ ResetFlags \subseteq BOOLEAN
  /\ Groups \subseteq GroupPaths
  /\ WCounts \subseteq Nat
  /\ RR_TIMESLICE \in 1 .. UINT_MAX

ASSUME PrioConstants ==
  /\ MAX_RT_PRIO \in Nat /\ MAX_PRIO \in Nat /\ DEFAULT_PRIO \in Nat
  /\ 1 <= MAX_RT_PRIO /\ MAX_RT_PRIO <= DEFAULT_PRIO /\ DEFAULT_PRIO < MAX_PRIO
  /\ RtPriorities \subseteq 1 .. (MAX_RT_PRIO - 1)
  /\ NicePrios \subseteq MAX_RT_PRIO .. (MAX_PRIO - 1)
  /\ BoostPrios \subseteq 0 .. (MAX_PRIO - 1)

VARIABLES task, rq, curr, need_resched
vars == <<task, rq, curr, need_resched>>

\* A task_struct.  state: "running" is TASK_RUNNING, "sleeping" any state of
\* TASK_NORMAL, "dead" a free task_struct.  new: forked, not yet given to
\* wake_up_new_task.  pi: prio of the top rt_mutex waiter, MAX_PRIO if none.
TaskRecord ==
  [state : {"running", "sleeping", "dead"}, on_rq : BOOLEAN, new : BOOLEAN,
   policy : AllPolicies, sched_class : {"rt", "ras", "fair"},
   rt_priority : 0 .. (MAX_RT_PRIO - 1), static_prio : MAX_RT_PRIO .. (MAX_PRIO - 1),
   prio : 0 .. (MAX_PRIO - 1), pi : 0 .. MAX_PRIO, reset_on_fork : BOOLEAN,
   group : GroupPaths, wcounts : Nat,
   time_slice : 0 .. UINT_MAX, rr_slice : 0 .. UINT_MAX]

RunQueue ==
  [rt : [0 .. (MAX_RT_PRIO - 1) -> Seq(Tasks)], ras : Seq(Tasks),
   ras_nr_running : Int, nr_running : Int]

\* Every variable stays in its C type; counters are not assumed non-negative.
TypeOK ==
  /\ task \in [Tasks -> TaskRecord]
  /\ rq \in RunQueue
  /\ curr \in Tasks \cup {Idle}
  /\ need_resched \in BOOLEAN

-----------------------------------------------------------------------------
(* struct list_head, as a sequence from the list's first to last entry. *)

OnList(q, p) == \E i \in 1 .. Len(q) : q[i] = p
list_add(q, p) == <<p>> \o q
list_add_tail(q, p) == Append(q, p)

\* list_del_init of an entry that is on the list.
list_del(q, p) ==
  LET at == CHOOSE i \in 1 .. Len(q) : q[i] = p
  IN  [j \in 1 .. (Len(q) - 1) |-> IF j < at THEN q[j] ELSE q[j + 1]]

list_move_tail(q, p) == list_add_tail(list_del(q, p), p)

-----------------------------------------------------------------------------
(* Priorities (core.c). *)

\* normal_prio(): the priority without rt_mutex inheritance.
normal_prio(t) ==
  IF rt_policy(t.policy) THEN MAX_RT_PRIO - 1 - t.rt_priority ELSE t.static_prio

\* rt_mutex_getprio() (kernel/rtmutex.c): the better of it and the top waiter.
rt_mutex_getprio(t) ==
  IF t.pi < normal_prio(t) THEN t.pi ELSE normal_prio(t)

\* effective_prio(): a task at a real-time prio keeps it.
effective_prio(t) == IF t.prio < MAX_RT_PRIO THEN t.prio ELSE normal_prio(t)

\* Mutant of class_of: a real-time prio decides before the policy.
class_of_prio_first(policy, prio) ==
  IF prio < MAX_RT_PRIO THEN "rt" ELSE IF policy = "RAS" THEN "ras" ELSE "fair"

\* The class __setscheduler and rt_mutex_setprio put a task in.
class_of(policy, prio) ==
  IF policy = "RAS" THEN "ras" ELSE IF prio < MAX_RT_PRIO THEN "rt" ELSE "fair"

-----------------------------------------------------------------------------
(* The class operations on run lists and counters.  r is a run queue, t the  *)
(* record of task p at the time of the call.                                 *)

\* Mutant of enqueue_task_ras: list_add for list_add_tail.
enqueue_task_ras_at_head(r, p, head) ==
  [r EXCEPT !.ras = list_add(@, p), !.ras_nr_running = @ + 1, !.nr_running = @ + 1]

enqueue_task_ras(r, p, head) ==
  [r EXCEPT !.ras = IF head THEN list_add(@, p) ELSE list_add_tail(@, p),
            !.ras_nr_running = @ + 1, !.nr_running = @ + 1]

dequeue_task_ras(r, p) ==
  IF OnList(r.ras, p)
  THEN [r EXCEPT !.ras = list_del(@, p),
                 !.ras_nr_running = @ - 1, !.nr_running = @ - 1]
  ELSE [r EXCEPT !.nr_running = @ - 1]

enqueue_task_rt(r, p, prio, head) ==
  [r EXCEPT !.rt[prio] = IF head THEN list_add(@, p) ELSE list_add_tail(@, p),
            !.nr_running = @ + 1]

dequeue_task_rt(r, p, prio) ==
  [r EXCEPT !.rt[prio] = IF OnList(@, p) THEN list_del(@, p) ELSE @,
            !.nr_running = @ - 1]

enqueue_task(r, p, t, head) ==
  CASE t.sched_class = "ras" -> enqueue_task_ras(r, p, head)
    [] t.sched_class = "rt"  -> enqueue_task_rt(r, p, t.prio, head)
    [] t.sched_class = "fair" -> [r EXCEPT !.nr_running = @ + 1]

dequeue_task(r, p, t) ==
  CASE t.sched_class = "ras" -> dequeue_task_ras(r, p)
    [] t.sched_class = "rt"  -> dequeue_task_rt(r, p, t.prio)
    [] t.sched_class = "fair" -> [r EXCEPT !.nr_running = @ - 1]

\* What enqueue_task_ras does to the task: a fresh time slice.
refill(t) == [t EXCEPT !.time_slice = ras_time_slice(t.group, t.wcounts)]
enqueued(t) == IF t.sched_class = "ras" THEN refill(t) ELSE t

put_prev_task_ras(r, p) ==
  IF OnList(r.ras, p) THEN [r EXCEPT !.ras = list_move_tail(@, p)] ELSE r

\* put_prev_task of prev's class; only RAS touches its list on one CPU.
put_prev_task(r, p) ==
  IF p # Idle /\ task[p].sched_class = "ras" THEN put_prev_task_ras(r, p) ELSE r

\* yield_task of the current task's class; yield_task_fair is external.
yield_task(r, p) ==
  CASE task[p].sched_class = "ras" -> put_prev_task_ras(r, p)
    [] task[p].sched_class = "rt" ->
         [r EXCEPT !.rt[task[p].prio] =
                     IF OnList(@, p) THEN list_move_tail(@, p) ELSE @]
    [] OTHER -> r

\* The fair class's own queue (cfs_rq) holds its runnable tasks.
fair_tasks(T) == {p \in Tasks : T[p].on_rq /\ T[p].sched_class = "fair"}

pick_next_task_rt(r) ==
  {p \in Tasks : \E i \in DOMAIN r.rt :
      /\ r.rt[i] # <<>> /\ p = Head(r.rt[i])
      /\ \A j \in DOMAIN r.rt : j < i => r.rt[j] = <<>>}

pick_next_task_ras(r) == IF r.ras_nr_running = 0 THEN {} ELSE {Head(r.ras)}

\* pick_next_task(): the tasks that may be picked, one but for the fair class.
\* The shortcut on nr_running comes first, then the classes in order.
pick_next_task(r, T) ==
  CASE r.nr_running = Cardinality(fair_tasks(T)) /\ fair_tasks(T) # {} -> fair_tasks(T)
    [] OTHER ->
       IF pick_next_task_rt(r) # {} THEN pick_next_task_rt(r)
       ELSE IF pick_next_task_ras(r) # {} THEN pick_next_task_ras(r)
       ELSE IF fair_tasks(T) # {} THEN fair_tasks(T)
       ELSE {Idle}

-----------------------------------------------------------------------------
(* Preemption.  A set-valued operator gives the values need_resched may take. *)

ClassRank == [rt |-> 1, ras |-> 2, fair |-> 3, idle |-> 4]
curr_class(T) == IF curr = Idle THEN "idle" ELSE T[curr].sched_class
curr_prio(T) == IF curr = Idle THEN MAX_PRIO ELSE T[curr].prio

\* Mutant of higher_class: the loop over the classes meets curr's class first.
higher_class_swapped(c, d) == ClassRank[d] < ClassRank[c]

\* for_each_class finds class c before class d.
higher_class(c, d) == ClassRank[c] < ClassRank[d]

check_preempt_curr_rt(T, p) == T[p].prio < curr_prio(T)
check_preempt_curr_ras(T, p) ==
  calc_ras_weight(T[p].wcounts) > calc_ras_weight(T[curr].wcounts)

\* check_preempt_curr(); check_preempt_wakeup of the fair class is external and
\* may or may not reschedule.
check_preempt_curr(T, p) ==
  CASE T[p].sched_class # curr_class(T) ->
         {need_resched \/ higher_class(T[p].sched_class, curr_class(T))}
    [] T[p].sched_class = "rt" /\ curr_class(T) = "rt" ->
         {need_resched \/ check_preempt_curr_rt(T, p)}
    [] T[p].sched_class = "ras" /\ curr_class(T) = "ras" ->
         {need_resched \/ check_preempt_curr_ras(T, p)}
    [] OTHER -> {need_resched, TRUE}

switched_to_rt(T, p) == curr # p /\ T[p].prio < curr_prio(T)
switched_to_ras(p) == curr # p

\* switched_to of the class p, which is on the run queue, has moved to.
\* switched_to_fair is external: it reschedules p if p is running and else
\* checks preemption.
switched_to(T, p) ==
  CASE T[p].sched_class = "rt"  -> {need_resched \/ switched_to_rt(T, p)}
    [] T[p].sched_class = "ras" -> {need_resched \/ switched_to_ras(p)}
    [] OTHER -> IF curr = p THEN {TRUE} ELSE check_preempt_curr(T, p)

\* Mutant of prio_changed_rt: reschedules on a raise instead of a drop of prio.
prio_changed_rt_on_raise(T, p, oldprio) ==
  IF curr = p THEN oldprio > T[p].prio ELSE T[p].prio < curr_prio(T)

prio_changed_rt(T, p, oldprio) ==
  IF curr = p THEN oldprio < T[p].prio ELSE T[p].prio < curr_prio(T)

\* prio_changed of the class of p, which is on the run queue.  prio_changed_ras
\* is empty; prio_changed_fair is external.
prio_changed(T, p, oldprio) ==
  CASE T[p].sched_class = "rt"  -> {need_resched \/ prio_changed_rt(T, p, oldprio)}
    [] T[p].sched_class = "ras" -> {need_resched}
    [] OTHER -> IF curr = p THEN {need_resched \/ oldprio < T[p].prio}
                ELSE check_preempt_curr(T, p)

\* check_class_changed(), from the records before (task) to those after (T).
\* Every class ignores a task that is not on the run queue.
check_class_changed(T, p) ==
  CASE ~T[p].on_rq -> {need_resched}
    [] T[p].on_rq /\ task[p].sched_class # T[p].sched_class -> switched_to(T, p)
    [] T[p].on_rq /\ task[p].sched_class = T[p].sched_class
                  /\ task[p].prio # T[p].prio -> prio_changed(T, p, task[p].prio)
    [] OTHER -> {need_resched}

-----------------------------------------------------------------------------
(* The rq->lock critical sections. *)

Alive(p) == task[p].state # "dead"

\* A task that makes a system call: preemption is off only inside the locks, so
\* a pending reschedule is served before the task enters the kernel again.
InSyscall == curr # Idle /\ ~need_resched /\ task[curr].state = "running"

\* Mutant of Requeue: the task is changed before it is taken off its list.
Requeue_changed_first(p, t, head) ==
  /\ task' = [task EXCEPT ![p] = IF t.on_rq THEN enqueued(t) ELSE t]
  /\ rq' = IF t.on_rq THEN enqueue_task(dequeue_task(rq, p, t), p, t, head) ELSE rq
  /\ UNCHANGED curr

\* A new record t for p, which is taken off its run list before the change and
\* put back after it: the pattern of set_user_nice, __sched_setscheduler,
\* rt_mutex_setprio and sched_move_task.  put_prev_task, called in between when
\* p runs, finds p off the list and does nothing.
Requeue(p, t, head) ==
  /\ task' = [task EXCEPT ![p] = IF t.on_rq THEN enqueued(t) ELSE t]
  /\ rq' = IF t.on_rq
           THEN enqueue_task(dequeue_task(rq, p, task[p]), p, t, head)
           ELSE rq
  /\ UNCHANGED curr

\* Real-time lists of groups other than the root are outside this module.
InRootIfRt(t) == t.sched_class = "rt" => t.group = FgGroup

\* set_current_state(TASK_INTERRUPTIBLE) ahead of schedule(): a wakeup or a
\* preemption may come in between.
set_current_state ==
  /\ InSyscall
  /\ task' = [task EXCEPT ![curr].state = "sleeping"]
  /\ UNCHANGED <<rq, curr, need_resched>>

\* Mutants of try_to_wake_up: ttwu_remote refills the slice; p->state is not tested.
try_to_wake_up_refills(p) ==
  /\ task[p].state = "sleeping"
  /\ LET t == [task[p] EXCEPT !.state = "running", !.on_rq = TRUE]
         T == [task EXCEPT ![p] = enqueued(t)]
     IN  /\ task' = T
         /\ rq' = IF task[p].on_rq THEN rq ELSE enqueue_task(rq, p, t, FALSE)
         /\ need_resched' \in check_preempt_curr(T, p)
  /\ UNCHANGED curr
try_to_wake_up_any_state(p) ==
  /\ LET t == [task[p] EXCEPT !.state = "running", !.on_rq = TRUE]
         T == [task EXCEPT ![p] = IF task[p].on_rq THEN t ELSE enqueued(t)]
     IN  /\ task' = T
         /\ rq' = IF task[p].on_rq THEN rq ELSE enqueue_task(rq, p, t, FALSE)
         /\ need_resched' \in check_preempt_curr(T, p)
  /\ UNCHANGED curr

\* try_to_wake_up(): a task that is still on the run queue (ttwu_remote) is only
\* made running again, any other is activated.
try_to_wake_up(p) ==
  /\ task[p].state = "sleeping"
  /\ LET t == [task[p] EXCEPT !.state = "running", !.on_rq = TRUE]
         T == [task EXCEPT ![p] = IF task[p].on_rq THEN t ELSE enqueued(t)]
     IN  /\ task' = T
         /\ rq' = IF task[p].on_rq THEN rq ELSE enqueue_task(rq, p, t, FALSE)
         /\ need_resched' \in check_preempt_curr(T, p)
  /\ UNCHANGED curr

\* sched_fork(): what the child record becomes, from a copy of the parent's.
forked(t) ==
  LET c == [t EXCEPT !.on_rq = FALSE, !.new = TRUE, !.state = "running",
                     !.pi = MAX_PRIO, !.prio = normal_prio(t)]
      reset == [c EXCEPT
                  !.policy = IF rt_policy(@) THEN "NORMAL" ELSE @,
                  !.rt_priority = IF rt_policy(t.policy) THEN 0 ELSE @,
                  !.static_prio = IF rt_policy(t.policy) \/ @ < DEFAULT_PRIO
                                  THEN DEFAULT_PRIO ELSE @,
                  !.reset_on_fork = FALSE]
      d == IF t.reset_on_fork THEN [reset EXCEPT !.prio = reset.static_prio] ELSE c
  IN  [d EXCEPT !.sched_class = IF d.prio < MAX_RT_PRIO THEN @ ELSE "fair"]

sched_fork(c) ==
  /\ InSyscall
  /\ ~Alive(c)
  /\ task' = [task EXCEPT ![c] = forked(task[curr])]
  /\ UNCHANGED <<rq, curr, need_resched>>

wake_up_new_task(p) ==
  /\ Alive(p) /\ task[p].new
  /\ LET t == [task[p] EXCEPT !.on_rq = TRUE, !.new = FALSE]
         T == [task EXCEPT ![p] = enqueued(t)]
     IN  /\ task' = T
         /\ rq' = enqueue_task(rq, p, t, FALSE)
         /\ need_resched' \in check_preempt_curr(T, p)
  /\ UNCHANGED curr

\* Mutants of task_tick_ras: no fresh slice; no reschedule.
task_tick_ras_no_refill ==
  /\ task' = [task EXCEPT ![curr].time_slice =
                 IF @ = 0 THEN UINT_MAX ELSE @ - 1]
  /\ IF task[curr].time_slice = 1 /\ Len(rq.ras) > 1
     THEN rq' = put_prev_task_ras(rq, curr) /\ need_resched' = TRUE
     ELSE UNCHANGED <<rq, need_resched>>
task_tick_ras_no_resched ==
  /\ task' = [task EXCEPT ![curr] = IF @.time_slice = 1 THEN refill(@)
                                    ELSE [@ EXCEPT !.time_slice = @ - 1]]
  /\ UNCHANGED <<rq, need_resched>>

\* task_tick_ras(): an unsigned decrement; at 0 a fresh slice and, if another
\* task is on the list, the tail of the list and a reschedule.
task_tick_ras ==
  LET t == task[curr]
      left == IF t.time_slice = 0 THEN UINT_MAX ELSE t.time_slice - 1
  IN  IF left # 0
      THEN /\ task' = [task EXCEPT ![curr].time_slice = left]
           /\ UNCHANGED <<rq, need_resched>>
      ELSE /\ task' = [task EXCEPT ![curr] = refill(t)]
           /\ IF Len(rq.ras) > 1
              THEN /\ rq' = put_prev_task_ras(rq, curr)
                   /\ need_resched' = TRUE
              ELSE UNCHANGED <<rq, need_resched>>

\* task_tick_rt(): only SCHED_RR tasks have a slice.
task_tick_rt ==
  LET t == task[curr]
      left == IF t.rr_slice = 0 THEN UINT_MAX ELSE t.rr_slice - 1
  IN  /\ t.policy = "RR"
      /\ IF left # 0
         THEN /\ task' = [task EXCEPT ![curr].rr_slice = left]
              /\ UNCHANGED <<rq, need_resched>>
         ELSE /\ task' = [task EXCEPT ![curr].rr_slice = RR_TIMESLICE]
              /\ IF Len(rq.rt[t.prio]) > 1
                 THEN /\ rq' = yield_task(rq, curr)
                      /\ need_resched' = TRUE
                 ELSE UNCHANGED <<rq, need_resched>>

\* scheduler_tick(): the tick of the current task's class.  task_tick_fair is
\* external and may reschedule; task_tick_idle and a FIFO tick change nothing.
scheduler_tick ==
  /\ curr # Idle
  /\ \/ task[curr].sched_class = "ras" /\ task_tick_ras
     \/ task[curr].sched_class = "rt" /\ task_tick_rt
     \/ /\ task[curr].sched_class = "fair"
        /\ need_resched' = TRUE
        /\ UNCHANGED <<task, rq>>
  /\ UNCHANGED curr

\* The tail of __schedule(): put_prev_task, pick_next_task, clear the flag and
\* switch, from the run queue r and the tasks T left by its first part.
switch_to_next(r, T) ==
  LET q == put_prev_task(r, curr) IN
  /\ task' = T
  /\ rq' = q
  /\ curr' \in pick_next_task(q, T)
  /\ need_resched' = FALSE

\* __schedule() entered by preemption (PREEMPT_ACTIVE), by the idle loop, or by
\* a task that is TASK_RUNNING: prev stays on the run queue whatever its state.
preempt_schedule ==
  /\ need_resched
  /\ switch_to_next(rq, task)

\* Mutant of schedule_sleep: prev->state is not tested.
schedule_sleep_unconditional ==
  /\ curr # Idle
  /\ switch_to_next(dequeue_task(rq, curr, task[curr]),
                    [task EXCEPT ![curr].on_rq = FALSE])

\* schedule() of a task that has set its state to sleep: it leaves the run queue.
schedule_sleep ==
  /\ curr # Idle /\ task[curr].state = "sleeping"
  /\ switch_to_next(dequeue_task(rq, curr, task[curr]),
                    [task EXCEPT ![curr].on_rq = FALSE])

\* The same for a workqueue thread for which wq_worker_sleeping names another
\* sleeping worker w: try_to_wake_up_local(w) before the switch.
schedule_worker(w) ==
  /\ curr \in Workers /\ task[curr].state = "sleeping"
  /\ w \in Workers \ {curr} /\ task[w].state = "sleeping"
  /\ LET t == [task[w] EXCEPT !.state = "running", !.on_rq = TRUE]
         T == [task EXCEPT ![curr].on_rq = FALSE,
                           ![w] = IF task[w].on_rq THEN t ELSE enqueued(t)]
         r == dequeue_task(rq, curr, task[curr])
     IN  switch_to_next(IF task[w].on_rq THEN r ELSE enqueue_task(r, w, t, FALSE), T)

\* schedule() that finds a signal pending: the task stays and runs on.
schedule_signal ==
  /\ curr # Idle /\ task[curr].state = "sleeping"
  /\ switch_to_next(rq, [task EXCEPT ![curr].state = "running"])

\* A task as init_task.h sets it up, asleep in the root group.
InitTask ==
  [state |-> "sleeping", on_rq |-> FALSE, new |-> FALSE, policy |-> "NORMAL",
   sched_class |-> "fair", rt_priority |-> 0, static_prio |-> DEFAULT_PRIO,
   prio |-> DEFAULT_PRIO, pi |-> MAX_PRIO, reset_on_fork |-> FALSE,
   group |-> FgGroup, wcounts |-> 0,
   time_slice |-> RAS_BG_TIMESLICE, rr_slice |-> RR_TIMESLICE]

\* do_exit(): TASK_DEAD and schedule() with preemption off; the task_struct is
\* free once finish_task_switch has dropped it.
do_exit ==
  /\ InSyscall /\ curr # InitProc
  /\ switch_to_next(dequeue_task(rq, curr, task[curr]),
                    [task EXCEPT ![curr] = [InitTask EXCEPT !.state = "dead"]])

\* sched_yield(): the class's yield_task, then schedule().
sched_yield ==
  /\ InSyscall
  /\ switch_to_next(yield_task(rq, curr), task)

\* sched_setscheduler() and, with p's own policy, sched_setparam(), past their
\* argument and permission checks.
sched_setscheduler(p, policy, rtprio, reset) ==
  /\ InSyscall /\ Alive(p)
  /\ rt_policy(policy) <=> rtprio # 0
  \* not a call that changes nothing
  /\ ~(policy = task[p].policy /\ (~rt_policy(policy) \/ rtprio = task[p].rt_priority))
  \* no real-time task in a group without real-time runtime
  /\ rt_policy(policy) => task[p].group = FgGroup
  /\ LET c == [task[p] EXCEPT !.policy = policy, !.rt_priority = rtprio,
                              !.reset_on_fork = reset]
         d == [c EXCEPT !.prio = rt_mutex_getprio(c)]
         t == [d EXCEPT !.sched_class = class_of(policy, d.prio)]
     IN  /\ InRootIfRt(t)
         /\ Requeue(p, t, FALSE)
         /\ need_resched' \in check_class_changed([task EXCEPT ![p] = t], p)

\* set_user_nice(): for a real-time policy only static_prio changes.
set_user_nice(p, static_prio) ==
  /\ InSyscall /\ Alive(p)
  /\ task[p].static_prio # static_prio
  /\ IF rt_policy(task[p].policy)
     THEN /\ task' = [task EXCEPT ![p].static_prio = static_prio]
          /\ UNCHANGED <<rq, curr, need_resched>>
     ELSE LET c == [task[p] EXCEPT !.static_prio = static_prio]
              t == [c EXCEPT !.prio = effective_prio(c)]
          IN  /\ Requeue(p, t, FALSE)
              /\ need_resched' = (need_resched \/
                   (t.on_rq /\ (t.prio < task[p].prio \/
                                (t.prio > task[p].prio /\ curr = p))))

\* rt_mutex_setprio(), reached when p's top rt_mutex waiter becomes one of prio
\* pi (MAX_PRIO: none) and the prio p should have differs from the one it has.
rt_mutex_setprio(p, pi) ==
  /\ curr # Idle /\ Alive(p) /\ task[p].pi # pi
  /\ LET c == [task[p] EXCEPT !.pi = pi]
         prio == rt_mutex_getprio(c)
         t == [c EXCEPT !.prio = prio, !.sched_class = class_of(c.policy, prio)]
     IN  IF prio = task[p].prio
         THEN /\ task' = [task EXCEPT ![p] = c]
              /\ UNCHANGED <<rq, curr, need_resched>>
         ELSE /\ InRootIfRt(t)
              /\ Requeue(p, t, task[p].prio < prio)
              /\ need_resched' \in check_class_changed([task EXCEPT ![p] = t], p)

\* A write to a cgroup's tasks file: cpu_cgroup_can_attach refuses a real-time
\* prio in a group without real-time runtime, then sched_move_task.
sched_move_task(p, group) ==
  /\ InSyscall /\ Alive(p)
  /\ task[p].group # group
  /\ task[p].prio < MAX_RT_PRIO => group = FgGroup
  /\ Requeue(p, [task[p] EXCEPT !.group = group], FALSE)
  /\ UNCHANGED need_resched

\* sched_rr_get_interval(): get_rr_interval_ras computes its answer in the task.
sched_rr_get_interval(p) ==
  /\ InSyscall /\ Alive(p)
  /\ task[p].sched_class = "ras"
  /\ task' = [task EXCEPT ![p] = refill(task[p])]
  /\ UNCHANGED <<rq, curr, need_resched>>

\* wcounts changes without rq->lock: sys_set_wcounts, or write faults of a
\* traced task (see PageTrace).
set_wcounts(p, w) ==
  /\ InSyscall /\ Alive(p)
  /\ task[p].wcounts # w
  /\ task' = [task EXCEPT ![p].wcounts = w]
  /\ UNCHANGED <<rq, curr, need_resched>>

-----------------------------------------------------------------------------
\* The machine is idle and every task sleeps.
Init ==
  /\ task = [p \in Tasks |-> InitTask]
  /\ rq = [rt |-> [i \in 0 .. (MAX_RT_PRIO - 1) |-> <<>>], ras |-> <<>>,
           ras_nr_running |-> 0, nr_running |-> 0]
  /\ curr = Idle
  /\ need_resched = FALSE

Wakeups == \E p \in Tasks : try_to_wake_up(p) \/ wake_up_new_task(p)
Scheduling ==
  \/ set_current_state \/ preempt_schedule \/ schedule_sleep \/ schedule_signal
  \/ \E w \in Workers : schedule_worker(w)
Lifecycle == do_exit \/ \E c \in Tasks : sched_fork(c)
Parameters ==
  \E p \in Tasks :
    \/ \E pol \in Policies, r \in RtPriorities \cup {0}, f \in ResetFlags :
         sched_setscheduler(p, pol, r, f)
    \/ \E n \in NicePrios : set_user_nice(p, n)
    \/ \E pi \in BoostPrios \cup {MAX_PRIO} : rt_mutex_setprio(p, pi)
    \/ \E g \in Groups : sched_move_task(p, g)
    \/ \E w \in WCounts : set_wcounts(p, w)
Polling == \E p \in Polled : sched_rr_get_interval(p)

Next ==
  Wakeups \/ Scheduling \/ Lifecycle \/ scheduler_tick \/ sched_yield \/ Parameters \/ Polling

Spec == Init /\ [][Next]_vars

-----------------------------------------------------------------------------
(* Safety. *)

\* A list holds no task twice.
NoDuplicates(q) == \A i, j \in 1 .. Len(q) : q[i] = q[j] => i = j

\* The run lists agree with the tasks: the RAS list holds exactly the runnable
\* RAS tasks and the RT list of a priority exactly the runnable RT tasks of that
\* prio, each once, whatever changed the class, the prio or the group of a task
\* while it was queued (core.c's dequeue/change/enqueue sequences).
ListsMatchTasks ==
  /\ NoDuplicates(rq.ras)
  /\ \A p \in Tasks :
       OnList(rq.ras, p) <=> task[p].on_rq /\ task[p].sched_class = "ras"
  /\ \A i \in 0 .. (MAX_RT_PRIO - 1) :
       /\ NoDuplicates(rq.rt[i])
       /\ \A p \in Tasks : OnList(rq.rt[i], p) <=>
            task[p].on_rq /\ task[p].sched_class = "rt" /\ task[p].prio = i

Runnable == {p \in Tasks : task[p].on_rq}

\* ras_nr_running and nr_running count what is queued: pick_next_task_ras takes
\* the first list entry on the word of ras_nr_running alone, and pick_next_task
\* skips the real-time and RAS classes on the word of nr_running.
CountersMatchLists ==
  /\ rq.ras_nr_running = Len(rq.ras)
  /\ rq.nr_running = Cardinality(Runnable)

\* A RAS task that can be ticked has a slice between 1 and the largest slice, so
\* the unsigned "--time_slice" of task_tick_ras never wraps to UINT_MAX.
SliceInRange ==
  \A p \in Tasks : task[p].on_rq /\ task[p].sched_class = "ras" =>
    1 <= task[p].time_slice /\ task[p].time_slice <= MaxSlice

\* No lost wakeup: a task whose state is TASK_RUNNING is on the run queue (or
\* about to be put there by wake_up_new_task), and the running task is on it,
\* although the state is set, the task preempted and woken in any order.
NoLostWakeup ==
  /\ \A p \in Tasks : task[p].state = "running" /\ ~task[p].new => task[p].on_rq
  /\ curr # Idle => task[curr].on_rq

\* A fair or idle CPU never overlooks a RAS or RT task: if one is runnable while
\* curr is of the fair or idle class, a reschedule is pending.
NoClassBelowRasOverlooked ==
  (curr = Idle \/ task[curr].sched_class = "fair") =>
    (need_resched \/ \A p \in Runnable : curr # Idle /\ task[p].sched_class = "fair")

\* Outside RAS the class of a task is the class of its effective prio: a task in
\* the fair class has no real-time prio, a task in the RT class has one.  Inside
\* RAS the policy is SCHED_RAS.
ClassFitsPrio ==
  \A p \in Tasks : Alive(p) =>
    CASE task[p].sched_class = "ras" -> task[p].policy = "RAS"
      [] task[p].sched_class = "rt" -> task[p].prio < MAX_RT_PRIO
      [] task[p].sched_class = "fair" -> task[p].prio >= MAX_RT_PRIO

\* After any sequence of calls the run queue, its lists and counters, and the tasks'
\* classes and priorities still describe the same situation.
RunQueueSound == TypeOK /\ ListsMatchTasks /\ CountersMatchLists /\ ClassFitsPrio

-----------------------------------------------------------------------------
(* What a step may not do. *)

Waiting(p) == p # curr /\ OnList(rq.ras, p)

\* The tasks that come before p on the RAS list.
Ahead(p) ==
  {rq.ras[i] : i \in {k \in 1 .. Len(rq.ras) :
                        \E j \in 1 .. Len(rq.ras) : k < j /\ rq.ras[j] = p}}

\* A call that takes p off its list and puts it back changed one of these.
SameParameters(p) ==
  /\ task'[p].policy = task[p].policy /\ task'[p].group = task[p].group
  /\ task'[p].static_prio = task[p].static_prio

\* First come, first served: nothing gets ahead of a waiting RAS task, neither a
\* woken or forked task nor one that is preempted, yields, expires or has its
\* parameters changed, as long as p itself is not requeued by such a change.
\* Only priority inheritance (ENQUEUE_HEAD in rt_mutex_setprio) may do so.
NoOvertaking ==
  [][\A p \in Tasks :
       (/\ Waiting(p) /\ Waiting(p)'
        /\ SameParameters(p)
        /\ \A q \in Tasks : task'[q].pi = task[q].pi)
       => Ahead(p)' \subseteq Ahead(p)]_vars

\* The running task is of the real-time class and no runnable task of that class has
\* a better prio, or a reschedule is pending.
RtSettled ==
  need_resched \/ \A p \in Runnable : task[p].sched_class = "rt" =>
    curr # Idle /\ task[curr].sched_class = "rt" /\ task[curr].prio <= task[p].prio

\* The running real-time task becomes a RAS task.
Demoted ==
  /\ curr # Idle /\ curr' = curr
  /\ task[curr].sched_class = "rt" /\ task'[curr].sched_class = "ras"

\* The running RAS task has inherited a real-time prio.
RasBoosted == curr # Idle /\ task[curr].sched_class = "ras" /\ task[curr].prio < MAX_RT_PRIO

\* Real-time tasks come first, in the order of their prio, also when the class or the
\* prio of the running or of a waiting task is changed by sched_setscheduler or by
\* priority inheritance.  Only RAS tasks may leave one overlooked: switched_to_ras does
\* not reschedule the running task, and a running RAS task that has inherited a
\* real-time prio stays in its class but is compared by that prio.
OnlyRasOverlooksRt == [][RtSettled /\ ~Demoted /\ ~RasBoosted => RtSettled']_vars

\* A task that reports SCHED_RAS and is not scheduled by the RAS class.
Misplaced(t) == t.state # "dead" /\ t.policy = "RAS" /\ t.sched_class # "ras"

\* Policy and class of a RAS task only ever come apart in sched_fork, which takes the
\* class from the prio: never by nice, by a cgroup move or by an inherited prio.
OnlyForkMisplaces ==
  [][\A p \in Tasks : Misplaced(task'[p]) /\ ~Misplaced(task[p]) => task'[p].new]_vars

\* A RAS task on the run queue gets a fresh slice when it has used up its own, when a
\* change of its parameters or of its inherited prio requeues it, or when its interval
\* is asked for: never by a wakeup, a yield or a preemption.
SliceKept ==
  [][\A p \in Tasks \ Polled :
       (/\ task[p].on_rq /\ task[p].sched_class = "ras"
        /\ task'[p].on_rq /\ task'[p].sched_class = "ras"
        /\ task'[p].time_slice > task[p].time_slice)
       => (p = curr /\ task[p].time_slice = 1) \/ ~SameParameters(p) \/ task'[p].pi # task[p].pi]_vars

-----------------------------------------------------------------------------
(* Liveness.  The timer interrupt keeps coming, and a pending reschedule is     *)
(* served when the interrupt or the lock section that set it ends.              *)

Fairness == WF_vars(scheduler_tick) /\ WF_vars(preempt_schedule)
FairSpec == Spec /\ Fairness

\* Round robin: a RAS task that waits gets the CPU (or stops being a runnable
\* RAS task), however the others are woken, forked or yield.
RasTaskRuns == \A p \in Tasks : Waiting(p) ~> ~Waiting(p)

\* When a fair task is runnable, one gets some of the CPU.
FairClassRuns ==
  (fair_tasks(task) # {}) ~> (fair_tasks(task) = {} \/ curr \in fair_tasks(task))

-----------------------------------------------------------------------------
(* The life of a task as TaskLifecycle describes it. *)

status ==
  [p \in Tasks |->
     IF p = curr THEN "running" ELSE IF task[p].on_rq THEN "ready"
     ELSE IF task[p].state = "dead" THEN "free"
     ELSE IF task[p].new THEN "new" ELSE "asleep"]

Life == INSTANCE TaskLifecycle WITH Tasks <- Tasks, status <- status

\* core.c moves every task through its life as TaskLifecycle allows: asleep or
\* new to ready to running, one running task at a time, and the CPU idle only
\* when nothing was ready at the last switch.
ImplementsLifecycle == Life!Spec

=============================================================================
