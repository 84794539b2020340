----------------------------- MODULE WaitQueues -----------------------------
(***************************************************************************)
(* Wait queues, completions and sleep_on (kernel/sched/core.c).  A section *)
(* under the queue's spinlock, taken with interrupts off, is one step.     *)
(* Between its unlock and its next lock a waiter is in schedule_timeout(): *)
(* its state may already be back to running when it gets there, and it     *)
(* goes on when it is.                                                     *)
(*                                                                         *)
(* x is a struct completion (done, and the queue x.wait of exclusive       *)
(* waiters), q a plain wait queue head, task[t] what the waiters' tasks    *)
(* hold, calls the calls still to come: a bound, never a guard of the code.*)
(***************************************************************************)
EXTENDS Integers, Sequences, FiniteSets

CONSTANTS Tasks,        \* the tasks that wait
          Modes,        \* TASK_UNINTERRUPTIBLE, TASK_INTERRUPTIBLE, TASK_KILLABLE
          Signals,      \* the signals sent to them
          MaxCalls,     \* bound on the waits of a task
          MaxWakes,     \* bound on the calls of complete, complete_all and wake_up
          UINT_MAX      \* of the unsigned int done

ASSUME WaitConstants ==
  /\ IsFiniteSet(Tasks) /\ MaxCalls \in Nat /\ MaxWakes \in Nat
  /\ Modes \subseteq {"uninterruptible", "interruptible", "killable"}
  /\ Signals \subseteq {"signal", "kill"}
  /\ UINT_MAX \in Nat /\ UINT_MAX > 2 * (MaxWakes + Cardinality(Tasks))

VARIABLES x, q, task, calls
vars == <<x, q, task, calls>>

Waits == {"x", "q"}

TypeOK ==
  /\ x.done \in 0 .. UINT_MAX /\ x.wait \in Seq(Tasks)
  /\ q \in Seq([task : Tasks, exclusive : BOOLEAN])
  /\ \A t \in Tasks :
       /\ task[t].on \in Waits \cup {"none"} /\ task[t].running \in BOOLEAN
       /\ task[t].expired \in BOOLEAN /\ task[t].timed \in BOOLEAN
       /\ task[t].ret \in {"none", "completed", "timeout", "interrupted"}
       /\ task[t].on = "none" => task[t].running

\* list_del of the entry of t, which is on the list.
list_del(s, at) == [j \in 1 .. (Len(s) - 1) |-> IF j < at THEN s[j] ELSE s[j + 1]]
Remove(s, t) == list_del(s, CHOOSE i \in 1 .. Len(s) : s[i] = t)
RemoveEntry(s, t) == list_del(s, CHOOSE i \in 1 .. Len(s) : s[i].task = t)
OnQueue(s) == {s[i] : i \in 1 .. Len(s)}

-----------------------------------------------------------------------------
(* Wakeups. *)

\* try_to_wake_up(p, TASK_NORMAL): fails for a task that is running already.
try_to_wake_up(T, t) == ~T[t].running
Woken(T, ts) == [t \in Tasks |-> IF t \in ts THEN [T[t] EXCEPT !.running = TRUE] ELSE T[t]]

\* __wake_up_common(): the tasks it wakes.  It goes down the list until nr
\* exclusive waiters were woken; with nr = 0 the count never comes to zero.  A
\* task that is running already is passed over and not counted.
wake_up_common(T, list, nr) ==
  LET wakes(i) == try_to_wake_up(T, list[i].task)
      before(i) == {j \in 1 .. (i - 1) : list[j].exclusive /\ wakes(j)}
      reached == {i \in 1 .. Len(list) : nr <= 0 \/ Cardinality(before(i)) < nr}
  IN  {list[i].task : i \in {j \in reached : wakes(j)}}

\* The entries of a queue on which every waiter is exclusive, as x.wait is.
Exclusive(s) == [i \in 1 .. Len(s) |-> [task |-> s[i], exclusive |-> TRUE]]

\* __wake_up(q, TASK_NORMAL, nr, key), and __wake_up_sync_key, which only adds a
\* hint for the choice of a CPU.
wake_up(nr) ==
  /\ calls.wakes > 0 /\ calls' = [calls EXCEPT !.wakes = @ - 1]
  /\ task' = Woken(task, wake_up_common(task, q, nr))
  /\ UNCHANGED <<x, q>>

complete ==
  /\ calls.wakes > 0 /\ calls' = [calls EXCEPT !.wakes = @ - 1]
  /\ x' = [x EXCEPT !.done = (@ + 1) % (UINT_MAX + 1)]
  /\ task' = Woken(task, wake_up_common(task, Exclusive(x.wait), 1))
  /\ UNCHANGED q

\* Mutant of complete_all: one waiter is woken, as by complete.
complete_all_wakes_one ==
  /\ calls.wakes > 0 /\ calls' = [calls EXCEPT !.wakes = @ - 1]
  /\ x' = [x EXCEPT !.done = (@ + UINT_MAX \div 2) % (UINT_MAX + 1)]
  /\ task' = Woken(task, wake_up_common(task, Exclusive(x.wait), 1))
  /\ UNCHANGED q

complete_all ==
  /\ calls.wakes > 0 /\ calls' = [calls EXCEPT !.wakes = @ - 1]
  /\ x' = [x EXCEPT !.done = (@ + UINT_MAX \div 2) % (UINT_MAX + 1)]
  /\ task' = Woken(task, wake_up_common(task, Exclusive(x.wait), 0))
  /\ UNCHANGED q

\* signal_pending_state()
signal_pending_state(t) ==
  \/ t.mode = "interruptible" /\ t.signal # "none"
  \/ t.mode = "killable" /\ t.signal = "kill"

\* A signal wakes the tasks whose state lets it (external).
send_signal(t, s) ==
  /\ task[t].signal = "none" /\ task[t].on # "none"
  /\ LET T == [task EXCEPT ![t].signal = s]
     IN  task' = IF signal_pending_state(T[t]) THEN Woken(T, {t}) ELSE T
  /\ UNCHANGED <<x, q, calls>>

\* The timer of schedule_timeout() (external).
timer(t) ==
  /\ task[t].on # "none" /\ task[t].timed /\ ~task[t].expired
  /\ task' = Woken([task EXCEPT ![t].expired = TRUE], {t})
  /\ UNCHANGED <<x, q, calls>>

-----------------------------------------------------------------------------
(* Completions. *)

Return(t, r) ==
  task' = [task EXCEPT ![t].on = "none", ![t].running = TRUE, ![t].ret = r]

\* A task calls one of the wait functions, with its mode and with or without timeout.
Called(t, on, mode, timed) ==
  [task[t] EXCEPT !.on = on, !.mode = mode, !.timed = timed, !.expired = FALSE,
                  !.running = FALSE, !.ret = "none"]
MayCall(t) ==
  /\ task[t].on = "none" /\ calls.waits[t] > 0
  /\ calls' = [calls EXCEPT !.waits[t] = @ - 1]

\* wait_for_common() up to its first schedule_timeout.
wait_for_common(t, mode, timed) ==
  /\ MayCall(t)
  /\ IF x.done # 0
     THEN /\ x' = [x EXCEPT !.done = @ - 1]
          /\ Return(t, "completed")
     ELSE IF signal_pending_state([task[t] EXCEPT !.mode = mode])
          THEN Return(t, "interrupted") /\ UNCHANGED x
          ELSE /\ x' = [x EXCEPT !.wait = Append(@, t)]
               /\ task' = [task EXCEPT ![t] = Called(t, "x", mode, timed)]
  /\ UNCHANGED q

\* Mutant of do_wait_for_common: a timeout or a signal is looked at first.
do_wait_for_common_gives_up(t) ==
  /\ task[t].on = "x" /\ task[t].running
  /\ IF task[t].expired \/ signal_pending_state(task[t])
     THEN /\ x' = [x EXCEPT !.wait = Remove(@, t)]
          /\ Return(t, IF task[t].expired THEN "timeout" ELSE "interrupted")
     ELSE IF x.done # 0
     THEN x' = [x EXCEPT !.wait = Remove(@, t), !.done = @ - 1] /\ Return(t, "completed")
     ELSE task' = [task EXCEPT ![t].running = FALSE] /\ UNCHANGED x
  /\ UNCHANGED <<q, calls>>

\* do_wait_for_common() after schedule_timeout, until the next or the return.
do_wait_for_common(t) ==
  /\ task[t].on = "x" /\ task[t].running
  /\ IF x.done # 0
     THEN x' = [x EXCEPT !.wait = Remove(@, t), !.done = @ - 1] /\ Return(t, "completed")
     ELSE IF task[t].expired \/ signal_pending_state(task[t])
     THEN /\ x' = [x EXCEPT !.wait = Remove(@, t)]
          /\ Return(t, IF task[t].expired THEN "timeout" ELSE "interrupted")
     ELSE task' = [task EXCEPT ![t].running = FALSE] /\ UNCHANGED x
  /\ UNCHANGED <<q, calls>>

try_wait_for_completion(t) ==
  /\ MayCall(t)
  /\ IF x.done = 0 THEN Return(t, "timeout") /\ UNCHANGED x
     ELSE Return(t, "completed") /\ x' = [x EXCEPT !.done = @ - 1]
  /\ UNCHANGED q

completion_done == x.done # 0

-----------------------------------------------------------------------------
(* sleep_on and wait queue users. *)

\* sleep_on_common() up to schedule_timeout: a non-exclusive entry at the head.
\* A pending signal makes schedule() return at once.
sleep_on_common(t, mode, timed) ==
  /\ MayCall(t)
  /\ q' = <<[task |-> t, exclusive |-> FALSE]>> \o q
  /\ LET T == [task EXCEPT ![t] = Called(t, "q", mode, timed)]
     IN  task' = IF signal_pending_state(T[t]) THEN Woken(T, {t}) ELSE T
  /\ UNCHANGED x

\* prepare_to_wait_exclusive() (kernel/wait.c): an exclusive entry at the tail.
wait_exclusive(t, mode) ==
  /\ MayCall(t)
  /\ q' = Append(q, [task |-> t, exclusive |-> TRUE])
  /\ task' = [task EXCEPT ![t] = Called(t, "q", mode, TRUE)]
  /\ UNCHANGED x

\* ... and after it, whatever woke the task.
sleep_on_return(t) ==
  /\ task[t].on = "q" /\ task[t].running
  /\ q' = RemoveEntry(q, t)
  /\ Return(t, "none")
  /\ UNCHANGED <<x, calls>>

Init ==
  /\ x = [done |-> 0, wait |-> <<>>] /\ q = <<>>
  /\ task = [t \in Tasks |-> [on |-> "none", running |-> TRUE, mode |-> "uninterruptible",
                              timed |-> FALSE, expired |-> FALSE, signal |-> "none",
                              ret |-> "none"]]
  /\ calls = [wakes |-> MaxWakes, waits |-> [t \in Tasks |-> MaxCalls]]

Resume(t) == do_wait_for_common(t) \/ sleep_on_return(t)

Next ==
  \/ complete \/ complete_all \/ \E nr \in 0 .. 1 : wake_up(nr)
  \/ \E t \in Tasks :
       \/ Resume(t) \/ try_wait_for_completion(t) \/ timer(t)
       \/ \E s \in Signals : send_signal(t, s)
       \/ \E mode \in Modes, timed \in BOOLEAN : wait_for_common(t, mode, timed)
       \/ \E mode \in Modes \ {"killable"} : \/ wait_exclusive(t, mode)
                                            \/ \E timed \in BOOLEAN : sleep_on_common(t, mode, timed)

Spec == Init /\ [][Next]_vars

\* A runnable task is run, and timers fire.
FairSpec == Spec /\ \A t \in Tasks : WF_vars(Resume(t)) /\ WF_vars(timer(t))

-----------------------------------------------------------------------------
(* Properties. *)

\* The queues hold exactly the tasks that wait on them, once.
QueuesMatch ==
  /\ OnQueue(x.wait) = {t \in Tasks : task[t].on = "x"}
  /\ {e.task : e \in OnQueue(q)} = {t \in Tasks : task[t].on = "q"}
  /\ Len(x.wait) + Len(q) = Cardinality({t \in Tasks : task[t].on # "none"})

\* No completion is stranded: as many waiters are awake (woken, but not yet
\* back under the lock) as there are completions for them to take, though
\* newcomers may take a completion first, and signals and timeouts wake
\* waiters too.
EnoughAwake ==
  LET awake == Cardinality({t \in OnQueue(x.wait) : task[t].running})
  IN  /\ TypeOK /\ QueuesMatch
      /\ awake >= x.done \/ awake = Len(x.wait)

\* x implements Completion, fairness included: no wait gives up while there is a
\* completion, none is lost or taken twice, and one that is there is taken.
C == INSTANCE Completion
       WITH Waiters <- Tasks, UINT_MAX <- UINT_MAX, done <- x.done,
            status <- [t \in Tasks |-> IF task[t].on = "x" THEN "waiting"
                                       ELSE IF task[t].on = "q" \/ task[t].ret = "none" THEN "idle"
                                       ELSE task[t].ret]
ImplementsCompletion == C!Spec
====
