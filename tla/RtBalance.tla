------------------------------ MODULE RtBalance ------------------------------
(***************************************************************************)
(* How the real-time class spreads its tasks over several CPUs             *)
(* (kernel/sched/rt.c under CONFIG_SMP): wakeups choose a CPU, a CPU whose *)
(* priority falls pulls waiting tasks, a CPU with more than it can run     *)
(* pushes them away.                                                       *)
(*                                                                         *)
(* A section under one run queue's lock is one step.  double_lock_balance  *)
(* drops the lock it holds and takes the two locks in the order of their   *)
(* addresses: the steps of the other CPUs come in between.  A context is   *)
(* a CPU inside __schedule() or the wakeup of a task, which may run on any *)
(* CPU and holds the pi_lock of the task.                                  *)
(*                                                                         *)
(* Priorities are fixed, every CPU is online, and the scheduler's groups   *)
(* and throttling are those of RtGroups.                                   *)
(***************************************************************************)
EXTENDS Integers, FiniteSets, SequencesExt

CONSTANTS CPUs,           \* numbers, in the order of the run queues' addresses
          Tasks,          \* the real-time tasks
          Prio,           \* their priorities, 0 the highest
          Masks,          \* the affinity masks a task may be given
          MAX_RT_PRIO,    \* the priority of all that is not real-time
          RT_MAX_TRIES,   \* of find_lock_lowest_rq
          other           \* what a CPU runs when it runs no real-time task

ASSUME RtBalanceConstants ==
  /\ IsFiniteSet(CPUs) /\ CPUs \subseteq Nat /\ CPUs # {} /\ IsFiniteSet(Tasks)
  /\ MAX_RT_PRIO \in Nat /\ RT_MAX_TRIES \in Nat \ {0}
  /\ Prio \in [Tasks -> 0 .. (MAX_RT_PRIO - 1)]
  /\ Masks \subseteq SUBSET CPUs /\ {} \notin Masks /\ CPUs \in Masks
  /\ other \notin CPUs \cup Tasks /\ Tasks \cap CPUs = {}

VARIABLES rq,     \* per CPU: the run queue
          rd,     \* the root domain: cpupri and the overloaded CPUs
          task,   \* per task: the CPU it belongs to and its affinity
          lock,   \* per CPU: the context that holds its run queue's lock
          ctx,    \* per context: where it stands
          widened \* history: the waiting tasks whose affinity grew while they waited
vars == <<rq, rd, task, lock, ctx, widened>>

Contexts == CPUs \cup Tasks
free == other
Sys == [rq |-> rq, rd |-> rd, task |-> task]
\* The system with c's run queue become r.
On(S, c, r) == [S EXCEPT !.rq[c] = r]
Sets(S) == rq' = S.rq /\ rd' = S.rd /\ task' = S.task

TypeOK ==
  /\ \A c \in CPUs :
       /\ rq[c].queue \in Seq(Tasks) /\ rq[c].pushable \in Seq(Tasks)
       /\ rq[c].highest \in 0 .. MAX_RT_PRIO /\ rq[c].next \in 0 .. MAX_RT_PRIO
       /\ rq[c].total \in Nat /\ rq[c].migratory \in Nat /\ rq[c].overloaded \in BOOLEAN
       /\ rq[c].curr \in Tasks \cup {other} /\ rq[c].need_resched \in BOOLEAN
       /\ rd.cpupri[c] \in 0 .. MAX_RT_PRIO
       /\ lock[c] \in Contexts \cup {free}
  /\ rd.rto_mask \subseteq CPUs /\ rd.rto_count \in Nat
  /\ \A p \in Tasks : task[p].cpu \in CPUs /\ task[p].cpus_allowed \in Masks
  /\ widened \subseteq Tasks

Migratory(S, p) == Cardinality(S.task[p].cpus_allowed) > 1
CurrPrio(S, c) == IF S.rq[c].curr = other THEN MAX_RT_PRIO ELSE Prio[S.rq[c].curr]
FirstPrio(s) == IF s = <<>> THEN MAX_RT_PRIO ELSE Prio[s[1]]
OnRq(S, p) == Contains(S.rq[S.task[p].cpu].queue, p)
Waits(S, p) == OnRq(S, p) /\ S.rq[S.task[p].cpu].curr # p

\* A step of the scheduler to S.
Becomes(S) ==
  /\ Sets(S)
  /\ widened' = {p \in widened : Waits(S, p) /\ S.task[p].cpu = task[p].cpu}

\* The tasks of a priority stand in the order in which they came.
AddTail(s, p) == InsertAt(s, 1 + Cardinality({i \in DOMAIN s : Prio[s[i]] <= Prio[p]}), p)
AddHead(s, p) == InsertAt(s, 1 + Cardinality({i \in DOMAIN s : Prio[s[i]] < Prio[p]}), p)

-----------------------------------------------------------------------------
(* The run queue and what the other CPUs see of it. *)

enqueue_pushable_task(r, p) ==
  [r EXCEPT !.pushable = AddTail(RemoveFirst(@, p), p),
            !.next = IF Prio[p] < @ THEN Prio[p] ELSE @]

dequeue_pushable_task(r, p) ==
  LET left == RemoveFirst(r.pushable, p)
  IN  [r EXCEPT !.pushable = left, !.next = FirstPrio(left)]

rt_set_overload(d, c) == [d EXCEPT !.rto_mask = @ \cup {c}, !.rto_count = @ + 1]
rt_clear_overload(d, c) == [d EXCEPT !.rto_mask = @ \ {c}, !.rto_count = @ - 1]

update_rt_migration(S, c) ==
  LET over == S.rq[c].migratory > 0 /\ S.rq[c].total > 1
      Marked == On(S, c, [S.rq[c] EXCEPT !.overloaded = over])
  IN  CASE over /\ ~S.rq[c].overloaded -> [Marked EXCEPT !.rd = rt_set_overload(@, c)]
        [] ~over /\ S.rq[c].overloaded -> [Marked EXCEPT !.rd = rt_clear_overload(@, c)]
        [] OTHER -> S

\* inc_rt_migration and dec_rt_migration, by n = 1 and n = -1.
CountMigration(S, c, p, n) ==
  update_rt_migration(
    On(S, c, [S.rq[c] EXCEPT !.total = @ + n,
                             !.migratory = IF Migratory(S, p) THEN @ + n ELSE @]), c)

\* inc_rt_prio and dec_rt_prio leave the first priority of the queue; cpupri
\* is told only when it changes.
SetHighest(S, c) ==
  LET prio == FirstPrio(S.rq[c].queue)
  IN  IF prio = S.rq[c].highest THEN S
      ELSE [On(S, c, [S.rq[c] EXCEPT !.highest = prio]) EXCEPT !.rd.cpupri[c] = prio]

\* __enqueue_rt_entity and __dequeue_rt_entity: the queue becomes s, the counts
\* change by n.
Requeue(S, c, p, s, n) ==
  CountMigration(SetHighest(On(S, c, [S.rq[c] EXCEPT !.queue = s]), c), c, p, n)

enqueue_task_rt(S, c, p) ==
  LET E == Requeue(S, c, p, AddTail(S.rq[c].queue, p), 1)
  IN  IF S.rq[c].curr # p /\ Migratory(S, p)
      THEN On(E, c, enqueue_pushable_task(E.rq[c], p)) ELSE E

dequeue_task_rt(S, c, p) ==
  LET D == Requeue(S, c, p, RemoveFirst(S.rq[c].queue, p), -1)
  IN  On(D, c, dequeue_pushable_task(D.rq[c], p))

\* deactivate_task, set_task_cpu, activate_task
Migrate(S, p, src, dst) ==
  enqueue_task_rt([dequeue_task_rt(S, src, p) EXCEPT !.task[p].cpu = dst], dst, p)

resched_task(S, c) == On(S, c, [S.rq[c] EXCEPT !.need_resched = TRUE])

-----------------------------------------------------------------------------
(* Choosing a CPU. *)

\* kernel/sched/cpupri.c: of the CPUs that run less than p and that p may use,
\* those of the lowest priority (external).
cpupri_find(S, p) ==
  LET lower == {c \in S.task[p].cpus_allowed : S.rd.cpupri[c] > Prio[p]}
  IN  {c \in lower : \A d \in lower : S.rd.cpupri[d] <= S.rd.cpupri[c]}

\* The CPUs find_lowest_rq may return: the task's own if it is among the lowest,
\* or any of them, for the scheduling domains decide.  None stands for -1.
find_lowest_rq(S, p) ==
  IF ~Migratory(S, p) THEN {}
  ELSE IF S.task[p].cpu \in cpupri_find(S, p) THEN {S.task[p].cpu}
  ELSE cpupri_find(S, p)

select_task_rq_rt(S, p) ==
  LET c == S.task[p].cpu
      curr == S.rq[c].curr
  IN  IF /\ Migratory(S, p) /\ curr # other
         /\ ~Migratory(S, curr) \/ Prio[curr] <= Prio[p]
         /\ find_lowest_rq(S, p) # {}
      THEN find_lowest_rq(S, p)
      ELSE {c}

select_task_rq(S, p) ==
  LET found == select_task_rq_rt(S, p)
  IN  IF found \subseteq S.task[p].cpus_allowed THEN found ELSE S.task[p].cpus_allowed

check_preempt_equal_prio(S, c, p) ==
  IF \/ ~Migratory(S, S.rq[c].curr)
     \/ Migratory(S, p) /\ cpupri_find(S, p) # {}
     \/ cpupri_find(S, S.rq[c].curr) = {}
  THEN S
  ELSE resched_task(On(S, c, [S.rq[c] EXCEPT !.queue = AddHead(RemoveFirst(@, p), p)]), c)

check_preempt_curr(S, c, p) ==
  IF Prio[p] < CurrPrio(S, c) THEN resched_task(S, c)
  ELSE IF Prio[p] = CurrPrio(S, c) /\ ~S.rq[c].need_resched
  THEN check_preempt_equal_prio(S, c, p)
  ELSE S

task_woken_rt(S, c, p) ==
  /\ ~S.rq[c].need_resched /\ S.rq[c].pushable # <<>> /\ Migratory(S, p)
  /\ S.rq[c].curr # other
  /\ ~Migratory(S, S.rq[c].curr) \/ CurrPrio(S, c) <= Prio[p]

-----------------------------------------------------------------------------
(* Contexts and locks. *)

Idle == [pc |-> "none", rq |-> 0, task |-> other, target |-> 0, tries |-> 0]
At(x, pc) == ctx[x].pc = pc
Goto(x, r) == ctx' = [ctx EXCEPT ![x] = r]

\* double_lock_balance first drops the lock of x's own queue.
Balance(x, pc, target) ==
  /\ Goto(x, [ctx[x] EXCEPT !.pc = pc, !.target = target])
  /\ lock' = [lock EXCEPT ![ctx[x].rq] = free]

Lower(a, b) == IF a < b THEN a ELSE b

\* Mutant of FirstLock: the caller's own run queue first, whatever the order.
FirstLock_own(x) == ctx[x].rq
FirstLock(x) == Lower(ctx[x].rq, ctx[x].target)
SecondLock(x) == IF FirstLock(x) = ctx[x].rq THEN ctx[x].target ELSE ctx[x].rq

Locking(x) == ctx[x].pc \in {"pull_lock", "push_lock"}

\* double_rq_lock: the first lock.  The second is taken by the step that uses both.
double_rq_lock(x) ==
  /\ Locking(x) /\ lock[FirstLock(x)] = free
  /\ lock' = [lock EXCEPT ![FirstLock(x)] = x]
  /\ UNCHANGED <<rq, rd, task, ctx, widened>>

HasBoth(x) == Locking(x) /\ lock[FirstLock(x)] = x /\ lock[SecondLock(x)] = free

\* double_unlock_balance: x keeps the lock of its own queue only.
KeepOwn(x) == [lock EXCEPT ![ctx[x].rq] = x, ![ctx[x].target] = free]
Drop(locks, x) == [locks EXCEPT ![ctx[x].rq] = free]

-----------------------------------------------------------------------------
(* Wakeups. *)

\* try_to_wake_up: the CPU is chosen without any run queue's lock.  A task that is
\* still being switched out is waited for (on_cpu).
try_to_wake_up(p) ==
  /\ At(p, "none") /\ ~OnRq(Sys, p) /\ rq[task[p].cpu].curr # p
  /\ \E c \in select_task_rq(Sys, p) :
       /\ task' = [task EXCEPT ![p].cpu = c]
       /\ Goto(p, [Idle EXCEPT !.pc = "queue", !.rq = c])
  /\ UNCHANGED <<rq, rd, lock, widened>>

\* ttwu_queue: under the lock of the CPU it chose, the task is queued, may preempt
\* and may be pushed on at once.
ttwu_queue(p) ==
  LET c == ctx[p].rq
      S == check_preempt_curr(enqueue_task_rt(Sys, c, p), c, p)
  IN  /\ At(p, "queue") /\ lock[c] = free
      /\ Becomes(S)
      /\ IF task_woken_rt(S, c, p)
         THEN Goto(p, [ctx[p] EXCEPT !.pc = "push"]) /\ lock' = [lock EXCEPT ![c] = p]
         ELSE Goto(p, Idle) /\ UNCHANGED lock

-----------------------------------------------------------------------------
(* Push. *)

\* The end of push_rt_tasks.
LeavePush(x, S, locks) == Becomes(S) /\ lock' = Drop(locks, x) /\ Goto(x, Idle)

\* push_rt_task from its label retry on, with next_task p.
Retry(x, S, locks, p) ==
  LET c == ctx[x].rq
  IN  IF Prio[p] < CurrPrio(S, c)
      THEN LeavePush(x, resched_task(S, c), locks)
      ELSE /\ Becomes(S) /\ lock' = locks
           /\ Goto(x, [ctx[x] EXCEPT !.pc = "find", !.task = p, !.tries = 0])

\* pick_next_pushable_task, and the return of push_rt_task without it.
push_rt_task(x) ==
  LET r == rq[ctx[x].rq]
  IN  /\ At(x, "push")
      /\ IF ~r.overloaded \/ r.pushable = <<>>
         THEN LeavePush(x, Sys, lock)
         ELSE Retry(x, Sys, lock, Head(r.pushable))

\* push_rt_task when find_lock_lowest_rq returned no queue.
NoLowestRq(x, locks) ==
  LET r == rq[ctx[x].rq]
      p == ctx[x].task
  IN  IF r.pushable = <<>> \/ (task[p].cpu = ctx[x].rq /\ Head(r.pushable) = p)
      THEN LeavePush(x, Sys, locks)
      ELSE Retry(x, Sys, locks, Head(r.pushable))

\* find_lock_lowest_rq, up to the locks.
find_lock_lowest_rq(x) ==
  LET found == find_lowest_rq(Sys, ctx[x].task)
  IN  /\ At(x, "find")
      /\ \/ /\ found \subseteq {ctx[x].rq}
            /\ NoLowestRq(x, lock)
         \/ \E c \in found \ {ctx[x].rq} :
              Balance(x, "push_lock", c) /\ UNCHANGED <<rq, rd, task, widened>>

\* Mutant of Shifted: that the task may have started to run is not looked at.
Shifted_not_running(x) ==
  LET p == ctx[x].task
  IN  \/ task[p].cpu # ctx[x].rq \/ ctx[x].target \notin task[p].cpus_allowed
      \/ ~OnRq(Sys, p)

\* find_lock_lowest_rq, with the locks: the task moved, ran, slept or may not go there.
Shifted(x) ==
  LET p == ctx[x].task
  IN  \/ task[p].cpu # ctx[x].rq \/ ctx[x].target \notin task[p].cpus_allowed
      \/ rq[ctx[x].rq].curr = p \/ ~OnRq(Sys, p)

\* The rest of find_lock_lowest_rq and of push_rt_task, with both locks.
push_locked(x) ==
  LET p == ctx[x].task
      c == ctx[x].target
  IN  /\ At(x, "push_lock") /\ HasBoth(x)
      /\ CASE Shifted(x) -> NoLowestRq(x, KeepOwn(x))
           [] ~Shifted(x) /\ rq[c].highest > Prio[p] ->
                /\ Becomes(resched_task(Migrate(Sys, p, ctx[x].rq, c), c))
                /\ lock' = KeepOwn(x)
                /\ Goto(x, [ctx[x] EXCEPT !.pc = "push"])
           [] OTHER ->
                IF ctx[x].tries + 1 < RT_MAX_TRIES
                THEN /\ Becomes(Sys) /\ lock' = KeepOwn(x)
                     /\ Goto(x, [ctx[x] EXCEPT !.pc = "find", !.tries = @ + 1])
                ELSE NoLowestRq(x, KeepOwn(x))

-----------------------------------------------------------------------------
(* __schedule() and pull. *)

put_prev_task_rt(S, c) ==
  LET p == S.rq[c].curr
  IN  IF p # other /\ Contains(S.rq[c].queue, p) /\ Migratory(S, p)
      THEN On(S, c, enqueue_pushable_task(S.rq[c], p)) ELSE S

pick_next_task(S, c) ==
  LET P == put_prev_task_rt(S, c)
      next == IF P.rq[c].queue = <<>> THEN other ELSE Head(P.rq[c].queue)
      r == IF next = other THEN P.rq[c] ELSE dequeue_pushable_task(P.rq[c], next)
  IN  On(P, c, [r EXCEPT !.curr = next, !.need_resched = FALSE])

\* The end of __schedule(): rq->post_schedule says if there is something to push.
Switch(c, S) ==
  LET N == pick_next_task(S, c)
  IN  /\ Becomes(N)
      /\ lock' = [lock EXCEPT ![c] = free]
      /\ Goto(c, IF N.rq[c].pushable # <<>> THEN [Idle EXCEPT !.pc = "post", !.rq = c] ELSE Idle)

\* Mutant of pre_schedule_rt: a CPU whose priority falls does not pull.
pre_schedule_rt_never(S, c) == FALSE

\* pull_rt_task is called, and some CPU is overloaded.
pre_schedule_rt(S, c) ==
  S.rq[c].curr # other /\ S.rq[c].highest > CurrPrio(S, c) /\ S.rd.rto_count > 0

\* __schedule() up to the pull: the running task sleeps, or is to be rescheduled.
schedule(c) ==
  /\ At(c, "none") /\ lock[c] = free
  /\ \E S \in (IF rq[c].need_resched THEN {Sys} ELSE {})
              \cup (IF rq[c].curr # other THEN {dequeue_task_rt(Sys, c, rq[c].curr)} ELSE {}) :
       IF pre_schedule_rt(S, c)
       THEN /\ Becomes(S) /\ lock' = [lock EXCEPT ![c] = c]
            /\ Goto(c, [Idle EXCEPT !.pc = "pull", !.rq = c, !.target = -1])
       ELSE Switch(c, S)

\* The loop of pull_rt_task; target is the CPU it looked at last.
pull_rt_task(c) ==
  LET left == {d \in rd.rto_mask \ {c} : d > ctx[c].target}
      d == CHOOSE e \in left : \A f \in left : e <= f
  IN  /\ At(c, "pull")
      /\ IF left = {} THEN Switch(c, Sys)
         ELSE /\ IF rq[d].next >= rq[c].highest
                 THEN Goto(c, [ctx[c] EXCEPT !.target = d]) /\ UNCHANGED lock
                 ELSE Balance(c, "pull_lock", d)
              /\ UNCHANGED <<rq, rd, task, widened>>

\* The place in src's queue of the first task that does not run and may move to cpu;
\* 0 if there is none.
pick_next_highest_task_rt(src, cpu) ==
  SelectInSeq(rq[src].queue,
              LAMBDA p : rq[src].curr # p /\ cpu \in task[p].cpus_allowed /\ Migratory(Sys, p))

\* The body of the loop, with both locks.
pull_locked(c) ==
  LET src == ctx[c].target
      at == pick_next_highest_task_rt(src, c)
      p == rq[src].queue[at]
  IN  /\ At(c, "pull_lock") /\ HasBoth(c)
      /\ Becomes(IF /\ Len(rq[src].queue) > 1 /\ at # 0
                    /\ Prio[p] < rq[c].highest /\ Prio[p] >= CurrPrio(Sys, src)
                 THEN Migrate(Sys, p, src, c) ELSE Sys)
      /\ lock' = KeepOwn(c)
      /\ Goto(c, [ctx[c] EXCEPT !.pc = "pull"])

\* post_schedule, by the class of the task that runs now.
post_schedule(c) ==
  /\ At(c, "post") /\ lock[c] = free
  /\ IF rq[c].curr = other THEN Goto(c, Idle) /\ UNCHANGED lock
     ELSE Goto(c, [ctx[c] EXCEPT !.pc = "push"]) /\ lock' = [lock EXCEPT ![c] = c]
  /\ UNCHANGED <<rq, rd, task, widened>>

-----------------------------------------------------------------------------
(* Affinity. *)

\* Mutant of set_cpus_allowed_rt: the count of migratory tasks is left.
set_cpus_allowed_rt_uncounted(S, p, mask) ==
  LET c == S.task[p].cpu
  IN  IF ~Waits(S, p) THEN S
      ELSE On(S, c, IF Cardinality(mask) > 1 THEN enqueue_pushable_task(S.rq[c], p)
                    ELSE dequeue_pushable_task(S.rq[c], p))

set_cpus_allowed_rt(S, p, mask) ==
  LET c == S.task[p].cpu
      was == Migratory(S, p)
      is == Cardinality(mask) > 1
      off == IF Waits(S, p) /\ was THEN dequeue_pushable_task(S.rq[c], p) ELSE S.rq[c]
      on == IF Waits(S, p) /\ is THEN enqueue_pushable_task(off, p) ELSE off
  IN  IF ~OnRq(S, p) \/ Cardinality(mask) = Cardinality(S.task[p].cpus_allowed) THEN S
      ELSE update_rt_migration(
             On(S, c, [on EXCEPT !.migratory = CASE ~was /\ is -> @ + 1
                                                 [] was /\ ~is -> @ - 1
                                                 [] OTHER -> @]), c)

\* set_cpus_allowed_ptr, for the masks that keep a queued task where it is: the
\* others wait for the stopper thread of the CPU, which is not modelled.
set_cpus_allowed_ptr(p, mask) ==
  LET S == [set_cpus_allowed_rt(Sys, p, mask) EXCEPT !.task[p].cpus_allowed = mask]
  IN  /\ At(p, "none") /\ lock[task[p].cpu] = free
      /\ mask # task[p].cpus_allowed
      /\ OnRq(Sys, p) => task[p].cpu \in mask
      /\ Sets(S)
      /\ widened' = IF Waits(S, p) /\ ~(mask \subseteq task[p].cpus_allowed)
                    THEN widened \cup {p} ELSE widened
      /\ UNCHANGED <<lock, ctx>>

-----------------------------------------------------------------------------
Init ==
  /\ rq = [c \in CPUs |-> [queue |-> <<>>, pushable |-> <<>>, highest |-> MAX_RT_PRIO,
                           next |-> MAX_RT_PRIO, total |-> 0, migratory |-> 0,
                           overloaded |-> FALSE, curr |-> other, need_resched |-> FALSE]]
  /\ rd = [rto_mask |-> {}, rto_count |-> 0, cpupri |-> [c \in CPUs |-> MAX_RT_PRIO]]
  /\ task \in [Tasks -> [cpu : {CHOOSE c \in CPUs : \A d \in CPUs : c <= d}, cpus_allowed : {CPUs}]]
  /\ lock = [c \in CPUs |-> free]
  /\ ctx = [x \in Contexts |-> Idle]
  /\ widened = {}

Push(x) == push_rt_task(x) \/ find_lock_lowest_rq(x) \/ push_locked(x)

Next ==
  \/ \E p \in Tasks : try_to_wake_up(p) \/ ttwu_queue(p)
  \/ \E x \in Contexts : double_rq_lock(x) \/ Push(x)
  \/ \E c \in CPUs : schedule(c) \/ pull_rt_task(c) \/ pull_locked(c) \/ post_schedule(c)
  \/ \E p \in Tasks, mask \in Masks : set_cpus_allowed_ptr(p, mask)

Spec == Init /\ [][Next]_vars

-----------------------------------------------------------------------------
(* Properties. *)

\* A task runs on at most one CPU, the one it belongs to, and is queued on no other,
\* whatever find_lock_lowest_rq and pull_rt_task found before they dropped a lock; and
\* it is never queued where it may not run.
RunsAtHome ==
  /\ \A c \in CPUs : rq[c].curr # other =>
       /\ task[rq[c].curr].cpu = c
       /\ \A d \in CPUs \ {c} : ~Contains(rq[d].queue, rq[c].curr) /\ rq[d].curr # rq[c].curr
  /\ \A p \in Tasks : OnRq(Sys, p) => task[p].cpu \in task[p].cpus_allowed

\* The assertions of pick_next_pushable_task (BUG_ON), for all of the list: what can
\* be pushed are the queued tasks that do not run and may use another CPU, the first
\* of them has the priority other CPUs read before they pull.
PushableEligible ==
  \A c \in CPUs :
    /\ ToSet(rq[c].pushable) = {p \in ToSet(rq[c].queue) : rq[c].curr # p /\ Migratory(Sys, p)}
    /\ rq[c].next = FirstPrio(rq[c].pushable)

\* What other CPUs read of a run queue is true of it: its next priority, its mark as
\* overloaded in the root domain, and its priority in cpupri.
DomainKnows ==
  /\ TypeOK /\ PushableEligible
  /\ rd.rto_mask = {c \in CPUs : /\ Len(rq[c].queue) > 1
                                 /\ \E p \in ToSet(rq[c].queue) : Migratory(Sys, p)}
  /\ rd.rto_count = Cardinality(rd.rto_mask)
  /\ \A c \in CPUs : rd.cpupri[c] = FirstPrio(rq[c].queue)

\* The contexts that hold one run queue's lock and wait for another never wait for
\* each other (double_rq_lock).
NoCircularWait ==
  LET holds(x, c) == Locking(x) /\ lock[c] = x
      waits(x, c) == Locking(x) /\ lock[FirstLock(x)] = x /\ SecondLock(x) = c
  IN  ~ \E x, y \in Contexts, c, d \in CPUs :
          x # y /\ holds(x, c) /\ waits(x, d) /\ holds(y, d) /\ waits(y, c)

Quiet ==
  /\ \A x \in Contexts : ctx[x].pc = "none"
  /\ \A c \in CPUs : ~rq[c].need_resched

\* What push and pull are for: when nothing is under way, no task waits that could
\* run on a CPU that runs something less important.  Not promised to a task whose
\* affinity grew while it waited: set_cpus_allowed_rt pushes nothing.
Balanced ==
  Quiet => \A p \in Tasks \ widened : Waits(Sys, p) =>
             \A c \in task[p].cpus_allowed : CurrPrio(Sys, c) <= Prio[p]

=============================================================================
