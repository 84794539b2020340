-------------------------- MODULE WaitQueuesProofs --------------------------
(***************************************************************************)
(* Proofs about WaitQueues: no completion is stranded, whatever the number *)
(* of waiters, calls and wakeups, and every step of the wait queues is a   *)
(* step of the abstract Completion or leaves it alone.                     *)
(***************************************************************************)
EXTENDS WaitQueues, SumProofs

-----------------------------------------------------------------------------
(* Lists.  ListOf(s, S): s lists exactly the members of S, each once.      *)

ListOf(s, S) ==
  /\ s \in Seq(Tasks)
  /\ \A i, j \in 1 .. Len(s) : s[i] = s[j] => i = j
  /\ \A i \in 1 .. Len(s) : s[i] \in S
  /\ \A v \in S : \E i \in 1 .. Len(s) : s[i] = v
  /\ Len(s) = Cardinality(S)

\* What is listed is a finite set of tasks.
LEMMA ListFinite ==
  ASSUME NEW s, NEW S, ListOf(s, S)
  PROVE  S \subseteq Tasks /\ IsFiniteSet(S) /\ OnQueue(s) = S
<1>1. S \subseteq Tasks
  BY DEF ListOf
<1>2. OnQueue(s) = S
  BY DEF ListOf, OnQueue
<1> QED BY <1>1, <1>2, WaitConstants, FS_Subset

\* list_del at the place of t takes t, and nothing else, off the list.
LEMMA ListDel ==
  ASSUME NEW s, NEW S, ListOf(s, S), NEW at \in 1 .. Len(s)
  PROVE  ListOf(list_del(s, at), S \ {s[at]})
<1> DEFINE d == list_del(s, at)
           n == Len(s)
<1>1. s \in Seq(Tasks) /\ n \in Nat /\ n - 1 \in Nat
  BY DEF ListOf
<1>2. /\ d \in Seq(Tasks) /\ Len(d) = n - 1
      /\ \A j \in 1 .. (n - 1) : d[j] = IF j < at THEN s[j] ELSE s[j + 1]
  <2> DEFINE e == [j \in 1 .. (n - 1) |-> IF j < at THEN s[j] ELSE s[j + 1]]
  <2>1. \A j \in 1 .. (n - 1) : e[j] \in Tasks
    BY <1>1
  <2>2. e \in Seq(Tasks) /\ Len(e) = n - 1
    BY <1>1, <2>1
  <2>3. d = e
    BY DEF list_del
  <2> HIDE DEF d
  <2> QED BY <2>2, <2>3
<1> HIDE DEF d
<1>3. \A i, j \in 1 .. n : s[i] = s[j] => i = j
  BY DEF ListOf
<1>4. ASSUME NEW i \in 1 .. Len(d), NEW j \in 1 .. Len(d), d[i] = d[j]
      PROVE  i = j
  BY <1>1, <1>2, <1>3, <1>4
<1>5. ASSUME NEW j \in 1 .. Len(d)
      PROVE  d[j] \in S \ {s[at]}
  <2> PICK k \in 1 .. n : k # at /\ d[j] = s[k]
    <3>1. CASE j < at
      BY <3>1, <1>1, <1>2
    <3>2. CASE ~(j < at)
      BY <3>2, <1>1, <1>2
    <3> QED BY <3>1, <3>2
  <2> QED BY <1>3 DEF ListOf
<1>6. ASSUME NEW v \in S \ {s[at]}
      PROVE  \E j \in 1 .. Len(d) : d[j] = v
  <2> PICK k \in 1 .. n : k # at /\ v = s[k]
    BY DEF ListOf
  <2>1. CASE k < at
    <3>1. k \in 1 .. (n - 1) /\ d[k] = v
      BY <2>1, <1>1, <1>2
    <3> QED BY <3>1, <1>2
  <2>2. CASE ~(k < at)
    <3>1. k - 1 \in 1 .. (n - 1) /\ d[k - 1] = v
      BY <2>2, <1>1, <1>2
    <3> QED BY <3>1, <1>2
  <2> QED BY <2>1, <2>2
<1>7. Len(d) = Cardinality(S \ {s[at]})
  <2>1. s[at] \in S /\ IsFiniteSet(S) /\ n = Cardinality(S)
    BY ListFinite DEF ListOf
  <2> QED BY <2>1, <1>2, FS_RemoveElement
<1>8. \A i, j \in 1 .. Len(d) : d[i] = d[j] => i = j
  BY <1>4
<1>9. /\ \A j \in 1 .. Len(d) : d[j] \in S \ {s[at]}
      /\ \A v \in S \ {s[at]} : \E j \in 1 .. Len(d) : d[j] = v
  BY <1>5, <1>6
<1>10. d \in Seq(Tasks)
  BY <1>2
<1>11. ListOf(d, S \ {s[at]})
  BY <1>7, <1>8, <1>9, <1>10, Zenon DEF ListOf
<1> QED BY <1>11 DEF d

\* A task that is not listed is added at the end ...
LEMMA ListAppend ==
  ASSUME NEW s, NEW S, NEW t \in Tasks, ListOf(s, S), t \notin S
  PROVE  ListOf(Append(s, t), S \cup {t})
<1> DEFINE a == Append(s, t)
           n == Len(s)
<1>1. s \in Seq(Tasks) /\ n \in Nat /\ \A i \in 1 .. n : s[i] # t
  BY DEF ListOf
<1>2. /\ a \in Seq(Tasks) /\ Len(a) = n + 1 /\ a[n + 1] = t
      /\ \A i \in 1 .. n : a[i] = s[i]
  BY <1>1
<1> HIDE DEF a
<1>3. \A i, j \in 1 .. n : s[i] = s[j] => i = j
  BY DEF ListOf
<1>4. ASSUME NEW i \in 1 .. Len(a), NEW j \in 1 .. Len(a), a[i] = a[j]
      PROVE  i = j
  BY <1>1, <1>2, <1>3, <1>4
<1>5. /\ \A i \in 1 .. Len(a) : a[i] \in S \cup {t}
      /\ \A v \in S \cup {t} : \E i \in 1 .. Len(a) : a[i] = v
  <2>1. ASSUME NEW i \in 1 .. Len(a) PROVE a[i] \in S \cup {t}
    BY <1>1, <1>2 DEF ListOf
  <2>2. ASSUME NEW v \in S PROVE \E i \in 1 .. Len(a) : a[i] = v
    <3> PICK i \in 1 .. n : v = s[i]
      BY DEF ListOf
    <3>1. i \in 1 .. Len(a) /\ v = a[i]
      BY <1>1, <1>2
    <3> QED BY <3>1
  <2>3. Len(a) \in 1 .. Len(a) /\ t = a[Len(a)]
    BY <1>1, <1>2
  <2> QED BY <2>1, <2>2, <2>3
<1>6. Len(a) = Cardinality(S \cup {t})
  <2>1. IsFiniteSet(S) /\ n = Cardinality(S)
    BY ListFinite DEF ListOf
  <2> QED BY <2>1, <1>2, FS_AddElement
<1> QED BY <1>2, <1>4, <1>5, <1>6 DEF ListOf

\* ... or at the head.
LEMMA ListPush ==
  ASSUME NEW s, NEW S, NEW t \in Tasks, ListOf(s, S), t \notin S
  PROVE  ListOf(<<t>> \o s, S \cup {t})
<1> DEFINE h == <<t>> \o s
           n == Len(s)
<1>1. s \in Seq(Tasks) /\ n \in Nat /\ \A i \in 1 .. n : s[i] # t
  BY DEF ListOf
<1>2. /\ h \in Seq(Tasks) /\ Len(h) = n + 1 /\ h[1] = t
      /\ \A i \in 1 .. n : h[i + 1] = s[i]
  BY <1>1
<1> HIDE DEF h
<1>3. \A i, j \in 1 .. n : s[i] = s[j] => i = j
  BY DEF ListOf
<1>k. ASSUME NEW k \in 1 .. Len(h)
      PROVE  k = 1 \/ (k - 1 \in 1 .. n /\ h[k] = s[k - 1])
  <2>1. k = 1 \/ k - 1 \in 1 .. n
    BY <1>1, <1>2
  <2>2. ASSUME k - 1 \in 1 .. n PROVE h[k] = s[k - 1]
    <3>1. (k - 1) + 1 = k
      BY <1>1, <1>2
    <3> QED BY <2>2, <3>1, <1>2
  <2> QED BY <2>1, <2>2
<1>4. ASSUME NEW i \in 1 .. Len(h), NEW j \in 1 .. Len(h), h[i] = h[j]
      PROVE  i = j
  <2>1. CASE i = 1 \/ j = 1
    BY <1>1, <1>2, <1>k, <1>4, <2>1
  <2>2. CASE i # 1 /\ j # 1
    <3>1. i - 1 \in 1 .. n /\ j - 1 \in 1 .. n /\ s[i - 1] = s[j - 1]
      BY <1>k, <1>4, <2>2
    <3>2. i - 1 = j - 1
      BY <1>3, <3>1
    <3> QED BY <3>2, <1>2, <1>1
  <2> QED BY <2>1, <2>2
<1>5. /\ \A i \in 1 .. Len(h) : h[i] \in S \cup {t}
      /\ \A v \in S \cup {t} : \E i \in 1 .. Len(h) : h[i] = v
  <2>1. ASSUME NEW i \in 1 .. Len(h) PROVE h[i] \in S \cup {t}
    BY <1>1, <1>2, <1>k DEF ListOf
  <2>2. ASSUME NEW v \in S PROVE \E i \in 1 .. Len(h) : h[i] = v
    <3> PICK i \in 1 .. n : v = s[i]
      BY DEF ListOf
    <3>1. i + 1 \in 1 .. Len(h) /\ v = h[i + 1]
      BY <1>1, <1>2
    <3> QED BY <3>1
  <2>3. 1 \in 1 .. Len(h) /\ t = h[1]
    BY <1>1, <1>2
  <2> QED BY <2>1, <2>2, <2>3
<1>6. Len(h) = Cardinality(S \cup {t})
  <2>1. IsFiniteSet(S) /\ n = Cardinality(S)
    BY ListFinite DEF ListOf
  <2> QED BY <2>1, <1>2, FS_AddElement
<1> QED BY <1>2, <1>4, <1>5, <1>6 DEF ListOf

-----------------------------------------------------------------------------
(* The inductive invariant.  A function T gives every task what it holds.  *)

Waiter == [on : {"x", "q", "none"}, running : BOOLEAN,
           mode : {"uninterruptible", "interruptible", "killable"},
           timed : BOOLEAN, expired : BOOLEAN, signal : {"none", "signal", "kill"},
           ret : {"none", "completed", "timeout", "interrupted"}]

On(T, o) == {t \in Tasks : T[t].on = o}
Awake(T) == {t \in On(T, "x") : T[t].running}
Names(es) == [i \in 1 .. Len(es) |-> es[i].task]

TaskOK(T) == T \in [Tasks -> Waiter] /\ \A t \in Tasks : T[t].on = "none" => T[t].running
XOK(c, T) == c \in [done : 0 .. UINT_MAX, wait : Seq(Tasks)] /\ ListOf(c.wait, On(T, "x"))
QOK(es, T) == es \in Seq([task : Tasks, exclusive : BOOLEAN]) /\ ListOf(Names(es), On(T, "q"))

\* As many waiters of the completion are awake as there are completions, or all.
Enough(n, T) == Cardinality(Awake(T)) >= n \/ Awake(T) = On(T, "x")

WInv == TaskOK(task) /\ XOK(x, task) /\ QOK(q, task) /\ Enough(x.done, task)

\* The invariant says what the run checks.
LEMMA InvEnough == WInv => EnoughAwake
<1> SUFFICES ASSUME WInv PROVE EnoughAwake
  OBVIOUS
<1> DEFINE X == On(task, "x")
           Q == On(task, "q")
<1>1. ListOf(x.wait, X) /\ ListOf(Names(q), Q)
  BY DEF WInv, XOK, QOK
<1>2. /\ X \subseteq Tasks /\ IsFiniteSet(X) /\ OnQueue(x.wait) = X
      /\ Q \subseteq Tasks /\ IsFiniteSet(Q) /\ OnQueue(Names(q)) = Q
  BY <1>1, ListFinite
<1>3. TypeOK
  BY DEF WInv, TaskOK, XOK, QOK, TypeOK, Waiter, Waits
<1>4. QueuesMatch
  <2>1. {e.task : e \in OnQueue(q)} = OnQueue(Names(q))
    <3>1. Len(Names(q)) = Len(q) /\ \A i \in 1 .. Len(q) : Names(q)[i] = q[i].task
      BY DEF WInv, QOK, Names
    <3> QED BY <3>1 DEF OnQueue
  <2>2. Len(Names(q)) = Len(q) /\ Len(q) \in Nat
    BY DEF WInv, QOK, Names
  <2>3. X \cap Q = {} /\ X \cup Q = {t \in Tasks : task[t].on # "none"}
    BY DEF On, WInv, TaskOK, Waiter
  <2>4. Cardinality(X \cup Q) = Cardinality(X) + Cardinality(Q)
    <3>1. Cardinality(X) \in Nat /\ Cardinality(Q) \in Nat
      BY <1>2, FS_CardinalityType
    <3>2. Cardinality(X \cap Q) = 0
      BY <2>3, FS_EmptySet
    <3> HIDE DEF X, Q
    <3>3. Cardinality(X \cup Q) = Cardinality(X) + Cardinality(Q) - Cardinality(X \cap Q)
      BY <1>2, FS_Union
    <3> QED BY <3>1, <3>2, <3>3
  <2>5. Len(x.wait) = Cardinality(X) /\ Len(Names(q)) = Cardinality(Q)
    BY <1>1 DEF ListOf
  <2>6. Len(x.wait) + Len(q) = Cardinality({t \in Tasks : task[t].on # "none"})
    BY <2>2, <2>3, <2>4, <2>5
  <2> QED BY <1>2, <2>1, <2>6, Zenon DEF QueuesMatch, On
<1>5. {t \in OnQueue(x.wait) : task[t].running} = Awake(task)
  BY <1>2 DEF Awake
<1>6. Cardinality(Awake(task)) >= x.done \/ Cardinality(Awake(task)) = Len(x.wait)
  BY <1>1 DEF WInv, Enough, ListOf
<1> QED BY <1>3, <1>4, <1>5, <1>6 DEF EnoughAwake

\* Initially nobody waits.
LEMMA InitInv == Init => WInv
<1> SUFFICES ASSUME Init PROVE WInv
  OBVIOUS
<1>1. TaskOK(task)
  BY DEF Init, TaskOK, Waiter
<1>2. On(task, "x") = {} /\ On(task, "q") = {} /\ Awake(task) = {}
  BY DEF Init, On, Awake
<1>3. ListOf(<<>>, {})
  BY FS_EmptySet DEF ListOf
<1>4. x.wait = <<>> /\ x.done = 0 /\ Names(q) = <<>>
  BY DEF Init, Names
<1>5. XOK(x, task)
  <2>1. x \in [done : 0 .. UINT_MAX, wait : Seq(Tasks)]
    BY WaitConstants DEF Init
  <2> QED BY <1>2, <1>3, <1>4, <2>1, Zenon DEF XOK
<1>6. QOK(q, task)
  <2>1. q \in Seq([task : Tasks, exclusive : BOOLEAN])
    BY DEF Init
  <2> QED BY <1>2, <1>3, <1>4, <2>1, Zenon DEF QOK
<1> QED BY <1>1, <1>2, <1>5, <1>6 DEF WInv, Enough

-----------------------------------------------------------------------------
(* What the steps do to the tasks. *)

\* The waiters of either queue are finitely many.
LEMMA OnFinite ==
  ASSUME NEW T, NEW o
  PROVE  /\ IsFiniteSet(On(T, o)) /\ IsFiniteSet(Awake(T))
         /\ Awake(T) \subseteq On(T, "x")
         /\ Cardinality(Awake(T)) \in Nat
<1>1. On(T, o) \subseteq Tasks /\ Awake(T) \subseteq Tasks /\ Awake(T) \subseteq On(T, "x")
  BY DEF On, Awake
<1>2. IsFiniteSet(On(T, o)) /\ IsFiniteSet(Awake(T))
  BY <1>1, WaitConstants, FS_Subset
<1> QED BY <1>1, <1>2, FS_CardinalityType

\* Who waits where stays, nobody falls asleep, and no completion is added.
LEMMA EnoughMono ==
  ASSUME NEW T, NEW U, NEW n \in Nat, NEW m \in Nat, m <= n, Enough(n, T),
         On(U, "x") = On(T, "x"), Awake(T) \subseteq Awake(U)
  PROVE  Enough(m, U)
<1>1. /\ IsFiniteSet(Awake(U)) /\ Awake(U) \subseteq On(U, "x")
      /\ Cardinality(Awake(U)) \in Nat /\ Cardinality(Awake(T)) \in Nat
  BY OnFinite
<1>2. Cardinality(Awake(T)) <= Cardinality(Awake(U))
  BY <1>1, FS_Subset
<1>3. CASE Cardinality(Awake(T)) >= n
  BY <1>1, <1>2, <1>3 DEF Enough
<1>4. CASE Awake(T) = On(T, "x")
  BY <1>1, <1>4 DEF Enough
<1> QED BY <1>3, <1>4 DEF Enough

\* A wakeup moves nobody from a queue and changes what nobody was told.
LEMMA WokenOK ==
  ASSUME NEW T, TaskOK(T), NEW ts
  PROVE  /\ TaskOK(Woken(T, ts))
         /\ \A t \in Tasks : /\ Woken(T, ts)[t].on = T[t].on
                             /\ Woken(T, ts)[t].ret = T[t].ret
                             /\ T[t].running \/ t \in ts => Woken(T, ts)[t].running
<1> DEFINE U == Woken(T, ts)
<1>1. \A t \in Tasks : U[t] = IF t \in ts THEN [T[t] EXCEPT !.running = TRUE] ELSE T[t]
  BY DEF Woken
<1>2. \A t \in Tasks : T[t] \in Waiter /\ (T[t].on = "none" => T[t].running)
  BY DEF TaskOK
<1>3. U = [t \in Tasks |-> U[t]]
  BY DEF Woken
<1> HIDE DEF U
<1>4. ASSUME NEW t \in Tasks
      PROVE  /\ U[t] \in Waiter /\ U[t].on = T[t].on /\ U[t].ret = T[t].ret
             /\ U[t].on = "none" => U[t].running
             /\ T[t].running \/ t \in ts => U[t].running
  BY <1>1, <1>2 DEF Waiter
<1>5. U \in [Tasks -> Waiter]
  BY <1>3, <1>4
<1> QED BY <1>4, <1>5 DEF TaskOK, U

\* From T to U one task is given another record: it leaves the queue it was on,
\* if any, and is on the one its record names.
Changed(T, U, t, r) ==
  /\ TaskOK(U)
  /\ On(U, r.on) = On(T, r.on) \cup {t}
  /\ \A o \in {"x", "q"} : o # r.on => On(U, o) = On(T, o) \ {t}
  /\ \A u \in Tasks : u # t => U[u] = T[u]
  /\ U[t] = r

\* Replacing one record does just that.
LEMMA OneTask ==
  ASSUME NEW T, TaskOK(T), NEW t \in Tasks, NEW r \in Waiter, r.on = "none" => r.running,
         NEW U, U = [T EXCEPT ![t] = r]
  PROVE  Changed(T, U, t, r)
<1>1. T \in [Tasks -> Waiter] /\ \A u \in Tasks : T[u].on = "none" => T[u].running
  BY DEF TaskOK
<1>2. /\ U \in [Tasks -> Waiter] /\ U[t] = r
      /\ \A u \in Tasks : u # t => U[u] = T[u]
  BY <1>1
<1>3. TaskOK(U)
  BY <1>1, <1>2 DEF TaskOK
<1>4. On(U, r.on) = On(T, r.on) \cup {t}
  BY <1>2 DEF On
<1>5. ASSUME NEW o \in {"x", "q"}, o # r.on PROVE On(U, o) = On(T, o) \ {t}
  BY <1>2, <1>5 DEF On
<1> QED BY <1>2, <1>3, <1>4, <1>5 DEF Changed

\* The record of a task whose wait returns.
Returned(t, r) == [task[t] EXCEPT !.on = "none", !.running = TRUE, !.ret = r]

\* A return puts that record in place of the task's.
LEMMA ReturnForm ==
  ASSUME TaskOK(task), NEW t \in Tasks,
         NEW r \in {"none", "completed", "timeout", "interrupted"}, Return(t, r)
  PROVE  /\ task' = [task EXCEPT ![t] = Returned(t, r)]
         /\ Returned(t, r) \in Waiter
         /\ Returned(t, r).on = "none" /\ Returned(t, r).running /\ Returned(t, r).ret = r
<1>1. task \in [Tasks -> Waiter] /\ task[t] \in Waiter
  BY DEF TaskOK
<1>2. task' = [task EXCEPT ![t] = Returned(t, r)]
  BY <1>1 DEF Return, Returned
<1> QED BY <1>1, <1>2 DEF Returned, Waiter

\* The record of a task that begins to wait.
LEMMA CalledForm ==
  ASSUME TaskOK(task), NEW t \in Tasks, NEW on \in {"x", "q"}, NEW timed \in BOOLEAN,
         NEW mode \in Modes
  PROVE  /\ Called(t, on, mode, timed) \in Waiter
         /\ Called(t, on, mode, timed).on = on
         /\ Called(t, on, mode, timed).ret = "none"
<1>1. task[t] \in Waiter
  BY DEF TaskOK
<1>2. mode \in {"uninterruptible", "interruptible", "killable"}
  BY WaitConstants
<1> QED BY <1>1, <1>2 DEF Called, Waiter

-----------------------------------------------------------------------------
(* Wakeups of the completion. *)

\* complete() wakes a sleeping waiter when there is one: the first on the list.
LEMMA WakesOne ==
  ASSUME NEW T, NEW w, ListOf(w, On(T, "x")), NEW t \in On(T, "x"), ~T[t].running
  PROVE  \E u \in On(T, "x") : ~T[u].running /\ u \in wake_up_common(T, Exclusive(w), 1)
<1> DEFINE L == Exclusive(w)
           S == {i \in 1 .. Len(w) : ~T[w[i]].running}
<1>1. w \in Seq(Tasks) /\ Len(w) \in Nat
  BY DEF ListOf
<1>2. Len(L) = Len(w) /\ \A i \in 1 .. Len(w) : L[i].task = w[i]
  BY <1>1 DEF Exclusive
<1>3. S \subseteq Nat /\ S # {}
  BY <1>1 DEF ListOf
<1>4. PICK m \in S : \A k \in S : m <= k
  BY <1>3, LeastNat
<1> HIDE DEF L
<1>5. m \in 1 .. Len(L) /\ w[m] \in On(T, "x") /\ ~T[w[m]].running /\ L[m].task = w[m]
  BY <1>1, <1>2 DEF ListOf
<1>6. {j \in 1 .. (m - 1) : L[j].exclusive /\ try_to_wake_up(T, L[j].task)} = {}
  <2> SUFFICES ASSUME NEW j \in 1 .. (m - 1) PROVE ~try_to_wake_up(T, L[j].task)
    OBVIOUS
  <2>1. j \in 1 .. Len(w) /\ ~(m <= j)
    BY <1>1, <1>2, <1>5
  <2>2. j \notin S
    BY <1>4, <2>1
  <2> QED BY <1>2, <2>1, <2>2 DEF try_to_wake_up
<1>7. Cardinality({j \in 1 .. (m - 1) : L[j].exclusive /\ try_to_wake_up(T, L[j].task)}) < 1
  <2>1. Cardinality({}) < 1
    BY FS_EmptySet
  <2> QED BY <1>6, <2>1, Zenon
<1>8. w[m] \in wake_up_common(T, L, 1)
  <2>1. try_to_wake_up(T, L[m].task)
    BY <1>5 DEF try_to_wake_up
  <2> QED BY <1>5, <1>7, <2>1 DEF wake_up_common
<1> QED BY <1>5, <1>8 DEF L

\* complete_all() wakes every sleeping waiter.
LEMMA WakesAll ==
  ASSUME NEW T, NEW w, ListOf(w, On(T, "x")), NEW t \in On(T, "x"), ~T[t].running
  PROVE  t \in wake_up_common(T, Exclusive(w), 0)
<1> DEFINE L == Exclusive(w)
<1>1. w \in Seq(Tasks) /\ Len(w) \in Nat
  BY DEF ListOf
<1>2. Len(L) = Len(w) /\ \A i \in 1 .. Len(w) : L[i].task = w[i]
  BY <1>1 DEF Exclusive
<1>3. PICK m \in 1 .. Len(w) : w[m] = t
  BY DEF ListOf
<1> HIDE DEF L
<1>4. m \in 1 .. Len(L) /\ L[m].task = t /\ try_to_wake_up(T, L[m].task)
  BY <1>2, <1>3 DEF try_to_wake_up
<1>5. t \in wake_up_common(T, L, 0)
  BY <1>4 DEF wake_up_common
<1> QED BY <1>5 DEF L

-----------------------------------------------------------------------------
(* Steps.  Each keeps the invariant and is a step of the abstract          *)
(* completion, whose status is CStatus(task).                              *)

StatusOf(r) == IF r.on = "x" THEN "waiting"
               ELSE IF r.on = "q" \/ r.ret = "none" THEN "idle" ELSE r.ret
CStatus(T) == [t \in Tasks |-> StatusOf(T[t])]

\* What the records that matter to the status give.
LEMMA StatusValue ==
  ASSUME NEW r \in Waiter
  PROVE  /\ r.on = "x" => StatusOf(r) = "waiting"
         /\ r.on = "q" => StatusOf(r) = "idle"
         /\ r.on = "none" => StatusOf(r) = IF r.ret = "none" THEN "idle" ELSE r.ret
         /\ r.on # "x" => StatusOf(r) # "waiting"
BY DEF StatusOf, Waiter

\* The status depends on the queue and on what was returned.
LEMMA StatusSame ==
  ASSUME NEW T \in [Tasks -> Waiter], NEW U \in [Tasks -> Waiter],
         \A t \in Tasks : U[t].on = T[t].on /\ U[t].ret = T[t].ret
  PROVE  CStatus(U) = CStatus(T)
<1>1. ASSUME NEW t \in Tasks PROVE StatusOf(U[t]) = StatusOf(T[t])
  BY DEF StatusOf
<1> QED BY <1>1 DEF CStatus

\* A step of the abstract completion, or none.
Abstract == C!Next \/ UNCHANGED C!cvars

\* A step that keeps who waits where and what the waits returned, puts nobody
\* to sleep and leaves the completion alone.
LEMMA KeepStep ==
  ASSUME WInv, TaskOK(task'), UNCHANGED <<x, q>>,
         \A t \in Tasks : /\ task'[t].on = task[t].on /\ task'[t].ret = task[t].ret
                          /\ task[t].running => task'[t].running
  PROVE  WInv' /\ Abstract
<1>1. ASSUME NEW o PROVE On(task', o) = On(task, o)
  <2>1. \A t \in Tasks : task'[t].on = task[t].on
    OBVIOUS
  <2> QED BY <2>1, Zenon DEF On
<1>2. Awake(task) \subseteq Awake(task')
  BY <1>1 DEF Awake, On
<1>3. x.done \in Nat /\ x.done <= x.done
  BY DEF WInv, XOK
<1>4. Enough(x.done, task')
  BY <1>1, <1>2, <1>3, EnoughMono DEF WInv
<1>5. WInv'
  BY <1>1, <1>4 DEF WInv, XOK, QOK
<1>6. UNCHANGED C!cvars
  <2>1. CStatus(task') = CStatus(task)
    BY StatusSame DEF WInv, TaskOK
  <2>2. x' = x
    OBVIOUS
  <2> QED BY <2>1, <2>2 DEF C!cvars, CStatus, StatusOf
<1> QED BY <1>5, <1>6 DEF Abstract

\* __wake_up() of the plain queue.
LEMMA WakeUpStep ==
  ASSUME WInv, NEW nr \in 0 .. 1, wake_up(nr)
  PROVE  WInv' /\ Abstract
<1>1. task' = Woken(task, wake_up_common(task, q, nr)) /\ UNCHANGED <<x, q>>
  BY DEF wake_up
<1>2. TaskOK(task)
  BY DEF WInv
<1> QED BY <1>1, <1>2, WokenOK, KeepStep

\* The timer of schedule_timeout() wakes its task.
LEMMA TimerStep ==
  ASSUME WInv, NEW t \in Tasks, timer(t)
  PROVE  WInv' /\ Abstract
<1> DEFINE r == [task[t] EXCEPT !.expired = TRUE]
           T == [task EXCEPT ![t] = r]
<1>1. TaskOK(task) /\ task[t] \in Waiter
  BY DEF WInv, TaskOK
<1>2. r \in Waiter /\ r.on = task[t].on /\ r.running = task[t].running /\ r.ret = task[t].ret
  BY <1>1 DEF Waiter
<1>3. task' = Woken(T, {t}) /\ UNCHANGED <<x, q>>
  BY <1>1 DEF timer, TaskOK
<1> HIDE DEF r
<1>4. /\ TaskOK(T) /\ T[t] = r /\ \A u \in Tasks : u # t => T[u] = task[u]
  <2>1. Changed(task, T, t, r)
    BY <1>1, <1>2, OneTask DEF TaskOK
  <2> QED BY <2>1 DEF Changed
<1> HIDE DEF T
<1> QED BY <1>2, <1>3, <1>4, WokenOK, KeepStep

\* A signal wakes its task, or only stays pending.
LEMMA SignalStep ==
  ASSUME WInv, NEW t \in Tasks, NEW s \in Signals, send_signal(t, s)
  PROVE  WInv' /\ Abstract
<1> DEFINE r == [task[t] EXCEPT !.signal = s]
           T == [task EXCEPT ![t] = r]
<1>1. TaskOK(task) /\ task[t] \in Waiter
  BY DEF WInv, TaskOK
<1>2. r \in Waiter /\ r.on = task[t].on /\ r.running = task[t].running /\ r.ret = task[t].ret
  BY <1>1, WaitConstants DEF Waiter
<1>3. (task' = Woken(T, {t}) \/ task' = T) /\ UNCHANGED <<x, q>>
  BY <1>1 DEF send_signal, TaskOK
<1> HIDE DEF r
<1>4. /\ TaskOK(T) /\ T[t] = r /\ \A u \in Tasks : u # t => T[u] = task[u]
  <2>1. Changed(task, T, t, r)
    BY <1>1, <1>2, OneTask DEF TaskOK
  <2> QED BY <2>1 DEF Changed
<1> HIDE DEF T
<1>5. CASE task' = T
  BY <1>2, <1>3, <1>4, <1>5, KeepStep
<1>6. CASE task' = Woken(T, {t})
  BY <1>2, <1>3, <1>4, <1>6, WokenOK, KeepStep
<1> QED BY <1>3, <1>5, <1>6

\* complete() and complete_all(): one waiter more is awake, or all are.
LEMMA CompleteStep ==
  ASSUME WInv, complete \/ complete_all
  PROVE  WInv' /\ Abstract
<1> DEFINE one == wake_up_common(task, Exclusive(x.wait), 1)
           all == wake_up_common(task, Exclusive(x.wait), 0)
           A == Awake(task)
           B == Awake(task')
           X == On(task, "x")
<1>1. /\ TaskOK(task) /\ ListOf(x.wait, X) /\ x.done \in Nat /\ UINT_MAX \in Nat
      /\ x \in [done : 0 .. UINT_MAX, wait : Seq(Tasks)] /\ Enough(x.done, task)
  BY WaitConstants DEF WInv, XOK
<1>2. PICK ts \in {one, all} : task' = Woken(task, ts)
  BY DEF complete, complete_all
<1>3. /\ TaskOK(task')
      /\ \A t \in Tasks : /\ task'[t].on = task[t].on /\ task'[t].ret = task[t].ret
                          /\ task[t].running \/ t \in ts => task'[t].running
  BY <1>1, <1>2, WokenOK
<1>4. \A o : On(task', o) = On(task, o)
  BY <1>3 DEF On
<1>5. A \subseteq B /\ B \subseteq X
  BY <1>3, <1>4 DEF Awake, On
<1>6. x'.done \in 0 .. UINT_MAX /\ x'.wait = x.wait /\ q' = q
      /\ x' \in [done : 0 .. UINT_MAX, wait : Seq(Tasks)]
  BY <1>1 DEF complete, complete_all
<1>7. XOK(x', task') /\ QOK(q', task')
  BY <1>1, <1>4, <1>6 DEF WInv, XOK, QOK
<1>8. CASE complete
  <2>1. task' = Woken(task, one) /\ x'.done = (x.done + 1) % (UINT_MAX + 1)
    BY <1>1, <1>8 DEF complete
  <2>2. x'.done <= x.done + 1
    BY <1>1, <2>1
  <2>5. Enough(x'.done, task')
    <3>3. CASE A = X
      BY <1>4, <1>5, <3>3 DEF Enough
    <3>4. CASE A # X
      <4>1. PICK t \in X : ~task[t].running
        BY <3>4 DEF Awake
      <4>2. PICK u \in X : ~task[u].running /\ u \in one
        BY <1>1, <4>1, WakesOne
      <4>3. task'[u].running
        BY <1>1, <2>1, <4>2, WokenOK DEF On
      <4>4. u \notin A /\ A \cup {u} \subseteq B
        BY <1>4, <1>5, <4>2, <4>3 DEF Awake
      <4>5. /\ IsFiniteSet(A) /\ IsFiniteSet(B) /\ Cardinality(A) \in Nat
            /\ Cardinality(B) \in Nat
        BY OnFinite
      <4> HIDE DEF A, B
      <4>6. Cardinality(A \cup {u}) = Cardinality(A) + 1
        BY <4>4, <4>5, FS_AddElement
      <4>7. Cardinality(A) + 1 <= Cardinality(B)
        BY <4>4, <4>5, <4>6, FS_Subset
      <4>8. Cardinality(A) >= x.done
        BY <1>1, <3>4 DEF Enough, A
      <4>9. Cardinality(B) >= x'.done
        BY <1>1, <1>6, <2>2, <4>5, <4>7, <4>8
      <4> QED BY <4>9 DEF Enough, B
    <3> QED BY <3>3, <3>4
  <2>6. C!Complete
    <3>1. CStatus(task') = CStatus(task)
      BY <1>1, <1>3, StatusSame DEF TaskOK
    <3> QED BY <2>1, <3>1 DEF C!Complete, CStatus, StatusOf
  <2> QED BY <1>3, <1>7, <2>5, <2>6 DEF WInv, Abstract, C!Next
<1>9. CASE complete_all
  <2>1. task' = Woken(task, all) /\ x'.done = (x.done + UINT_MAX \div 2) % (UINT_MAX + 1)
    BY <1>1, <1>9 DEF complete_all
  <2>2. ASSUME NEW t \in X PROVE t \in B
    <3>1. t \in Tasks
      BY DEF On
    <3>2. task[t].running \/ t \in all
      BY <1>1, WakesAll
    <3>3. task'[t].running
      BY <1>1, <2>1, <3>1, <3>2, WokenOK
    <3> QED BY <1>4, <3>3 DEF Awake
  <2>3. Enough(x'.done, task')
    BY <1>4, <1>5, <2>2 DEF Enough
  <2>4. C!CompleteAll
    <3>1. CStatus(task') = CStatus(task)
      BY <1>1, <1>3, StatusSame DEF TaskOK
    <3> QED BY <2>1, <3>1 DEF C!CompleteAll, CStatus, StatusOf
  <2> QED BY <1>3, <1>7, <2>3, <2>4 DEF WInv, Abstract, C!Next
<1> QED BY <1>8, <1>9

\* A record that is not on the completion's queue may change, and nothing that
\* counts the waiters of the completion does.
LEMMA ElsewhereSame ==
  ASSUME TaskOK(task), NEW t \in Tasks, task[t].on # "x",
         NEW r \in Waiter, r.on # "x", r.on = "none" => r.running,
         task' = [task EXCEPT ![t] = r]
  PROVE  On(task', "x") = On(task, "x") /\ Awake(task') = Awake(task)
<1>1. /\ On(task', "x") = On(task, "x") \ {t}
      /\ \A u \in Tasks : u # t => task'[u] = task[u]
  <2>1. Changed(task, task', t, r)
    BY OneTask
  <2> QED BY <2>1 DEF Changed
<1>2. t \notin On(task, "x")
  BY DEF On
<1>3. On(task', "x") = On(task, "x")
  BY <1>1, <1>2
<1> QED BY <1>1, <1>2, <1>3 DEF Awake, On

\* A wait that returns without having slept: a completion is taken, or there is
\* none and the caller gives up.
LEMMA ReturnStep ==
  ASSUME WInv, NEW t \in Tasks, task[t].on = "none", UNCHANGED q,
         \/ x.done # 0 /\ x' = [x EXCEPT !.done = @ - 1] /\ Return(t, "completed")
         \/ x.done = 0 /\ x' = x /\ (Return(t, "timeout") \/ Return(t, "interrupted"))
  PROVE  WInv' /\ Abstract
<1>1. /\ TaskOK(task) /\ x \in [done : 0 .. UINT_MAX, wait : Seq(Tasks)] /\ x.done \in Nat
      /\ UINT_MAX \in Nat
  BY WaitConstants DEF WInv, XOK
<1>2. PICK r \in {"completed", "timeout", "interrupted"} :
        /\ Return(t, r)
        /\ \/ r = "completed" /\ x.done # 0 /\ x' = [x EXCEPT !.done = @ - 1]
           \/ r # "completed" /\ x.done = 0 /\ x' = x
  OBVIOUS
<1> DEFINE w == Returned(t, r)
<1>3. /\ task' = [task EXCEPT ![t] = w] /\ w \in Waiter
      /\ w.on = "none" /\ w.running /\ w.ret = r
  BY <1>1, <1>2, ReturnForm
<1> HIDE DEF w
<1>4. /\ TaskOK(task') /\ On(task', "q") = On(task, "q") \ {t} /\ task'[t] = w
      /\ \A u \in Tasks : u # t => task'[u] = task[u]
  <2>1. Changed(task, task', t, w)
    BY <1>1, <1>3, OneTask
  <2> QED BY <1>3, <2>1 DEF Changed
<1>5. On(task', "x") = On(task, "x") /\ Awake(task') = Awake(task)
  BY <1>1, <1>3, ElsewhereSame
<1>6. On(task', "q") = On(task, "q")
  BY <1>4 DEF On
<1>7. /\ x' \in [done : 0 .. UINT_MAX, wait : Seq(Tasks)] /\ x'.wait = x.wait
      /\ x'.done \in Nat /\ x'.done <= x.done
      /\ x.done # 0 => x'.done = x.done - 1
      /\ x.done = 0 => x'.done = x.done
  BY <1>1, <1>2
<1>8. Enough(x'.done, task')
  BY <1>1, <1>5, <1>7, EnoughMono DEF WInv
<1>9. WInv'
  <2>1. XOK(x', task')
    BY <1>5, <1>7 DEF WInv, XOK
  <2>2. QOK(q', task')
    BY <1>6 DEF WInv, QOK
  <2> QED BY <1>4, <1>8, <2>1, <2>2 DEF WInv
<1>10. CStatus(task') = [CStatus(task) EXCEPT ![t] = r]
  <2>1. StatusOf(task'[t]) = r
    BY <1>2, <1>3, <1>4, StatusValue
  <2> QED BY <1>4, <2>1 DEF CStatus
<1>11. C!Take(t) \/ C!GiveUp(t)
  <2>1. CASE x.done # 0
    <3>1. r = "completed" /\ x.done > 0 /\ x'.done = x.done - 1
      BY <1>1, <1>2, <1>7, <2>1
    <3> QED BY <1>10, <3>1 DEF C!Take, CStatus, StatusOf
  <2>2. CASE x.done = 0
    <3>1. r \in {"timeout", "interrupted"} /\ x.done = 0 /\ x'.done = x.done
      BY <1>2, <1>7, <2>2
    <3> QED BY <1>10, <3>1 DEF C!GiveUp, CStatus, StatusOf
  <2> QED BY <2>1, <2>2
<1> QED BY <1>9, <1>11 DEF Abstract, C!Next

\* A wait that begins to sleep on the completion: there is none to take.
LEMMA BeginStep ==
  ASSUME WInv, NEW t \in Tasks, task[t].on = "none", x.done = 0, UNCHANGED q,
         NEW mode \in Modes, NEW timed \in BOOLEAN,
         x' = [x EXCEPT !.wait = Append(@, t)],
         task' = [task EXCEPT ![t] = Called(t, "x", mode, timed)]
  PROVE  WInv' /\ Abstract
<1> DEFINE r == Called(t, "x", mode, timed)
<1>1. /\ TaskOK(task) /\ x \in [done : 0 .. UINT_MAX, wait : Seq(Tasks)]
      /\ ListOf(x.wait, On(task, "x")) /\ UINT_MAX \in Nat
  BY WaitConstants DEF WInv, XOK
<1>2. r \in Waiter /\ r.on = "x" /\ r.ret = "none"
  BY <1>1, CalledForm
<1> HIDE DEF r
<1>3. task' = [task EXCEPT ![t] = r]
  BY DEF r
<1>4. /\ TaskOK(task') /\ task'[t] = r
      /\ On(task', "x") = On(task, "x") \cup {t} /\ On(task', "q") = On(task, "q") \ {t}
      /\ \A u \in Tasks : u # t => task'[u] = task[u]
  <2>1. Changed(task, task', t, r)
    BY <1>1, <1>2, <1>3, OneTask
  <2> QED BY <1>2, <2>1 DEF Changed
<1>5. t \notin On(task, "x") /\ On(task', "q") = On(task, "q")
  BY <1>4 DEF On
<1>6. /\ x' \in [done : 0 .. UINT_MAX, wait : Seq(Tasks)] /\ x'.done = 0
      /\ x'.wait = Append(x.wait, t)
  <2>1. Append(x.wait, t) \in Seq(Tasks)
    BY <1>1
  <2> QED BY <1>1, <2>1
<1>7. XOK(x', task')
  <2>1. ListOf(x'.wait, On(task', "x"))
    <3>1. ListOf(Append(x.wait, t), On(task, "x") \cup {t})
      BY <1>1, <1>5, ListAppend
    <3> QED BY <1>4, <1>6, <3>1
  <2> QED BY <1>6, <2>1 DEF XOK
<1>8. QOK(q', task')
  BY <1>5 DEF WInv, QOK
<1>9. Enough(x'.done, task')
  BY <1>6, OnFinite DEF Enough
<1>10. CStatus(task') = [CStatus(task) EXCEPT ![t] = "waiting"]
  <2>1. StatusOf(task'[t]) = "waiting"
    BY <1>2, <1>4, StatusValue
  <2>2. \A u \in Tasks : StatusOf(task'[u]) = IF u = t THEN "waiting" ELSE StatusOf(task[u])
    BY <1>4, <2>1
  <2> QED BY <2>2, Zenon DEF CStatus
<1>11. CStatus(task)[t] # "waiting"
  BY <1>1, StatusValue DEF CStatus, TaskOK
<1>12. C!Begin(t)
  BY <1>6, <1>10, <1>11 DEF C!Begin, CStatus, StatusOf
<1> QED BY <1>4, <1>7, <1>8, <1>9, <1>12 DEF WInv, Abstract, C!Next

\* wait_for_common() up to its first sleep.
LEMMA WaitStep ==
  ASSUME WInv, NEW t \in Tasks, NEW mode \in Modes, NEW timed \in BOOLEAN,
         wait_for_common(t, mode, timed)
  PROVE  WInv' /\ Abstract
<1>1. task[t].on = "none" /\ UNCHANGED q
  BY DEF wait_for_common, MayCall
<1>2. CASE x.done # 0
  BY <1>1, <1>2, ReturnStep DEF wait_for_common
<1>3. CASE x.done = 0 /\ signal_pending_state([task[t] EXCEPT !.mode = mode])
  BY <1>1, <1>3, ReturnStep DEF wait_for_common
<1>4. CASE x.done = 0 /\ ~signal_pending_state([task[t] EXCEPT !.mode = mode])
  BY <1>1, <1>4, BeginStep DEF wait_for_common
<1> QED BY <1>2, <1>3, <1>4

\* try_wait_for_completion().
LEMMA TryStep ==
  ASSUME WInv, NEW t \in Tasks, try_wait_for_completion(t)
  PROVE  WInv' /\ Abstract
<1>1. task[t].on = "none" /\ UNCHANGED q
  BY DEF try_wait_for_completion, MayCall
<1>2. CASE x.done # 0
  BY <1>1, <1>2, ReturnStep DEF try_wait_for_completion
<1>3. CASE x.done = 0
  BY <1>1, <1>3, ReturnStep DEF try_wait_for_completion
<1> QED BY <1>2, <1>3

\* A waiter of the completion's queue leaves it: with a completion, or without
\* one because there is none.
LEMMA LeaveStep ==
  ASSUME WInv, NEW t \in Tasks, task[t].on = "x", task[t].running, UNCHANGED q,
         NEW r \in {"completed", "timeout", "interrupted"}, Return(t, r),
         \/ /\ r = "completed" /\ x.done # 0
            /\ x' = [x EXCEPT !.wait = Remove(@, t), !.done = @ - 1]
         \/ r # "completed" /\ x.done = 0 /\ x' = [x EXCEPT !.wait = Remove(@, t)]
  PROVE  WInv' /\ Abstract
<1> DEFINE w == Returned(t, r)
           X == On(task, "x")
           A == Awake(task)
           at == CHOOSE i \in 1 .. Len(x.wait) : x.wait[i] = t
           d == list_del(x.wait, at)
<1>1. /\ TaskOK(task) /\ x \in [done : 0 .. UINT_MAX, wait : Seq(Tasks)] /\ x.done \in Nat
      /\ UINT_MAX \in Nat /\ ListOf(x.wait, X) /\ Enough(x.done, task)
  BY WaitConstants DEF WInv, XOK
<1>2. t \in X /\ t \in A
  BY DEF On, Awake
<1>3. at \in 1 .. Len(x.wait) /\ x.wait[at] = t
  <2>1. \E i \in 1 .. Len(x.wait) : x.wait[i] = t
    BY <1>1, <1>2 DEF ListOf
  <2> QED BY <2>1
<1>4. Remove(x.wait, t) = d
  BY DEF Remove
<1> HIDE DEF at
<1>5. ListOf(d, X \ {t})
  BY <1>1, <1>3, ListDel
<1> HIDE DEF d
<1>6. d \in Seq(Tasks)
  BY <1>5 DEF ListOf
<1>7. /\ task' = [task EXCEPT ![t] = w] /\ w \in Waiter
      /\ w.on = "none" /\ w.running /\ w.ret = r
  BY <1>1, ReturnForm
<1> HIDE DEF w
<1>8. /\ TaskOK(task') /\ On(task', "x") = X \ {t} /\ On(task', "q") = On(task, "q") \ {t}
      /\ task'[t] = w /\ \A u \in Tasks : u # t => task'[u] = task[u]
  <2>1. Changed(task, task', t, w)
    BY <1>1, <1>7, OneTask
  <2> QED BY <1>7, <2>1 DEF Changed
<1>9. On(task', "q") = On(task, "q") /\ Awake(task') = A \ {t}
  BY <1>8 DEF On, Awake
<1>10. /\ x' \in [done : 0 .. UINT_MAX, wait : Seq(Tasks)] /\ x'.wait = d /\ x'.done \in Nat
       /\ x.done # 0 => x'.done = x.done - 1
       /\ x.done = 0 => x'.done = x.done
  <2>1. CASE x.done # 0
    <3>1. x' = [x EXCEPT !.wait = d, !.done = @ - 1]
      BY <1>4, <2>1
    <3>2. x.done - 1 \in 0 .. UINT_MAX
      BY <1>1, <2>1
    <3>3. x'.wait = d /\ x'.done = x.done - 1
      BY <1>1, <3>1
    <3>4. x' \in [done : 0 .. UINT_MAX, wait : Seq(Tasks)]
      BY <1>1, <1>6, <3>1, <3>2
    <3> QED BY <1>1, <2>1, <3>2, <3>3, <3>4
  <2>2. CASE x.done = 0
    <3>1. x' = [x EXCEPT !.wait = d]
      BY <1>4, <2>2
    <3> QED BY <1>1, <1>6, <2>2, <3>1
  <2> QED BY <2>1, <2>2
<1>11. XOK(x', task') /\ QOK(q', task')
  BY <1>5, <1>8, <1>9, <1>10 DEF WInv, XOK, QOK
<1>12. Enough(x'.done, task')
  <2>1. IsFiniteSet(A) /\ Cardinality(A) \in Nat /\ Cardinality(Awake(task')) \in Nat
    BY OnFinite
  <2>2. Cardinality(Awake(task')) = Cardinality(A) - 1
    BY <1>2, <1>9, <2>1, FS_RemoveElement
  <2>3. CASE x.done = 0
    BY <1>10, <2>1, <2>3 DEF Enough
  <2>4. CASE x.done # 0 /\ Cardinality(A) >= x.done
    BY <1>1, <1>10, <2>1, <2>2, <2>4 DEF Enough
  <2>5. CASE A = X
    BY <1>8, <1>9, <2>5 DEF Enough
  <2> QED BY <1>1, <2>3, <2>4, <2>5 DEF Enough
<1>13. CStatus(task') = [CStatus(task) EXCEPT ![t] = r]
  <2>1. StatusOf(task'[t]) = r
    BY <1>7, <1>8, StatusValue
  <2>2. \A u \in Tasks : StatusOf(task'[u]) = IF u = t THEN r ELSE StatusOf(task[u])
    BY <1>8, <2>1
  <2> QED BY <2>2, Zenon DEF CStatus
<1>14. C!Take(t) \/ C!GiveUp(t)
  <2>1. CASE x.done # 0
    <3>1. r = "completed" /\ x.done > 0 /\ x'.done = x.done - 1
      BY <1>1, <1>10, <2>1
    <3> QED BY <1>13, <3>1 DEF C!Take, CStatus, StatusOf
  <2>2. CASE x.done = 0
    <3>1. r \in {"timeout", "interrupted"} /\ x.done = 0 /\ x'.done = x.done
      BY <1>10, <2>2
    <3> QED BY <1>13, <3>1 DEF C!GiveUp, CStatus, StatusOf
  <2> QED BY <2>1, <2>2
<1> QED BY <1>8, <1>11, <1>12, <1>14 DEF WInv, Abstract, C!Next

\* do_wait_for_common() after a wakeup: it leaves the queue or sleeps again.
LEMMA ResumeStep ==
  ASSUME WInv, NEW t \in Tasks, do_wait_for_common(t)
  PROVE  WInv' /\ Abstract
<1>1. task[t].on = "x" /\ task[t].running /\ UNCHANGED q
  BY DEF do_wait_for_common
<1>2. CASE x.done # 0
  BY <1>1, <1>2, LeaveStep DEF do_wait_for_common
<1>3. CASE x.done = 0 /\ (task[t].expired \/ signal_pending_state(task[t]))
  BY <1>1, <1>3, LeaveStep DEF do_wait_for_common
<1>4. CASE x.done = 0 /\ ~(task[t].expired \/ signal_pending_state(task[t]))
  <2> DEFINE r == [task[t] EXCEPT !.running = FALSE]
  <2>1. TaskOK(task) /\ task[t] \in Waiter
    BY DEF WInv, TaskOK
  <2>2. r \in Waiter /\ r.on = "x" /\ r.ret = task[t].ret
    BY <1>1, <2>1 DEF Waiter
  <2>3. task' = [task EXCEPT ![t] = r] /\ UNCHANGED <<x, q>>
    BY <1>4, <2>1 DEF do_wait_for_common, TaskOK
  <2> HIDE DEF r
  <2>4. Changed(task, task', t, r)
    BY <2>1, <2>2, <2>3, OneTask
  <2>5. /\ TaskOK(task') /\ On(task', "x") = On(task, "x") /\ On(task', "q") = On(task, "q")
        /\ \A u \in Tasks : task'[u].on = task[u].on /\ task'[u].ret = task[u].ret
    BY <1>1, <2>2, <2>4 DEF Changed, On
  <2>6. Enough(x.done, task')
    BY <1>4, OnFinite DEF Enough
  <2>7. WInv'
    BY <2>3, <2>5, <2>6 DEF WInv, XOK, QOK
  <2>8. CStatus(task') = CStatus(task)
    BY <2>1, <2>5, StatusSame DEF TaskOK
  <2> QED BY <2>3, <2>7, <2>8 DEF Abstract, C!cvars, CStatus, StatusOf
<1> QED BY <1>2, <1>3, <1>4

\* A task goes on or off the plain queue: the completion sees it idle.
LEMMA PlainStep ==
  ASSUME WInv, NEW t \in Tasks, task[t].on # "x", UNCHANGED x,
         NEW r \in Waiter, r.on \in {"q", "none"}, r.ret = "none", r.on = "none" => r.running,
         task' = [task EXCEPT ![t] = r], QOK(q', task')
  PROVE  WInv' /\ Abstract
<1>1. TaskOK(task) /\ x.done \in Nat /\ task[t] \in Waiter
  BY DEF WInv, XOK, TaskOK
<1>2. Changed(task, task', t, r)
  BY <1>1, OneTask
<1>3. On(task', "x") = On(task, "x") /\ Awake(task') = Awake(task)
  BY <1>1, ElsewhereSame
<1>4. Enough(x.done, task')
  BY <1>3 DEF WInv, Enough
<1>5. WInv'
  BY <1>2, <1>3, <1>4 DEF Changed, WInv, XOK
<1>6. CStatus(task') = [CStatus(task) EXCEPT ![t] = "idle"]
  <2>1. StatusOf(task'[t]) = "idle"
    BY <1>2, StatusValue DEF Changed
  <2>2. \A u \in Tasks : StatusOf(task'[u]) = IF u = t THEN "idle" ELSE StatusOf(task[u])
    BY <1>2, <2>1 DEF Changed
  <2> QED BY <2>2, Zenon DEF CStatus
<1>7. CStatus(task)[t] # "waiting"
  BY <1>1, StatusValue DEF CStatus
<1>8. C!Reset(t)
  BY <1>6, <1>7 DEF C!Reset, CStatus, StatusOf
<1> QED BY <1>5, <1>8 DEF Abstract, C!Next

\* An entry of t in front of q or behind it.
LEMMA EntryAdded ==
  ASSUME NEW es, NEW T, QOK(es, T), NEW t \in Tasks, T[t].on # "q", NEW b \in BOOLEAN,
         NEW fs, fs = <<[task |-> t, exclusive |-> b]>> \o es \/
                 fs = Append(es, [task |-> t, exclusive |-> b])
  PROVE  /\ fs \in Seq([task : Tasks, exclusive : BOOLEAN])
         /\ ListOf(Names(fs), On(T, "q") \cup {t})
<1> DEFINE e == [task |-> t, exclusive |-> b]
           E == [task : Tasks, exclusive : BOOLEAN]
           n == Len(es)
<1>1. e \in E /\ e.task = t /\ es \in Seq(E) /\ n \in Nat
  BY DEF QOK
<1>2. ListOf(Names(es), On(T, "q")) /\ t \notin On(T, "q")
  BY DEF QOK, On
<1>3. Names(es) \in Seq(Tasks) /\ Len(Names(es)) = n
      /\ \A i \in 1 .. n : Names(es)[i] = es[i].task
  <2>1. Names(es) \in Seq(Tasks)
    BY <1>2 DEF ListOf
  <2> QED BY <1>1, <2>1 DEF Names
<1> HIDE DEF e, E
<1>4. CASE fs = <<e>> \o es
  <2>1. /\ fs \in Seq(E) /\ Len(fs) = n + 1 /\ fs[1] = e
        /\ \A i \in 2 .. (n + 1) : fs[i] = es[i - 1]
    BY <1>1, <1>4
  <2>2. Names(fs) = <<t>> \o Names(es)
    <3>1. /\ Len(<<t>> \o Names(es)) = n + 1 /\ (<<t>> \o Names(es))[1] = t
          /\ \A i \in 2 .. (n + 1) : (<<t>> \o Names(es))[i] = Names(es)[i - 1]
          /\ <<t>> \o Names(es) \in Seq(Tasks)
      BY <1>1, <1>3
    <3>2. ASSUME NEW i \in 1 .. (n + 1) PROVE fs[i].task = (<<t>> \o Names(es))[i]
      <4>1. CASE i = 1
        BY <1>1, <2>1, <3>1, <4>1
      <4>2. CASE i # 1
        <5>1. i \in 2 .. (n + 1) /\ i - 1 \in 1 .. n
          BY <1>1, <4>2
        <5> QED BY <1>3, <2>1, <3>1, <5>1
      <4> QED BY <4>1, <4>2
    <3> HIDE DEF n
    <3>3. <<t>> \o Names(es) = [i \in 1 .. (n + 1) |-> (<<t>> \o Names(es))[i]]
      BY <3>1
    <3>4. Names(fs) = [i \in 1 .. (n + 1) |-> fs[i].task]
      BY <2>1 DEF Names
    <3> QED BY <3>2, <3>3, <3>4, Zenon
  <2>3. ListOf(<<t>> \o Names(es), On(T, "q") \cup {t})
    BY <1>2, ListPush
  <2> QED BY <2>1, <2>2, <2>3 DEF E
<1>5. CASE fs = Append(es, e)
  <2>1. /\ fs \in Seq(E) /\ Len(fs) = n + 1 /\ fs[n + 1] = e
        /\ \A i \in 1 .. n : fs[i] = es[i]
    BY <1>1, <1>5
  <2>2. Names(fs) = Append(Names(es), t)
    <3>1. /\ Len(Append(Names(es), t)) = n + 1 /\ Append(Names(es), t)[n + 1] = t
          /\ \A i \in 1 .. n : Append(Names(es), t)[i] = Names(es)[i]
          /\ Append(Names(es), t) \in Seq(Tasks)
      BY <1>1, <1>3
    <3>2. ASSUME NEW i \in 1 .. (n + 1) PROVE fs[i].task = Append(Names(es), t)[i]
      <4>1. CASE i = n + 1
        BY <1>1, <2>1, <3>1, <4>1
      <4>2. CASE i # n + 1
        <5>1. i \in 1 .. n
          BY <1>1, <4>2
        <5> QED BY <1>3, <2>1, <3>1, <5>1
      <4> QED BY <4>1, <4>2
    <3> HIDE DEF n
    <3>3. Append(Names(es), t) = [i \in 1 .. (n + 1) |-> Append(Names(es), t)[i]]
      <4> DEFINE a == Append(Names(es), t)
      <4>1. a \in Seq(Tasks) /\ Len(a) = n + 1
        BY <3>1
      <4> HIDE DEF a
      <4>2. a = [i \in 1 .. (n + 1) |-> a[i]]
        BY <4>1
      <4> QED BY <4>2 DEF a
    <3>4. Names(fs) = [i \in 1 .. (n + 1) |-> fs[i].task]
      BY <2>1 DEF Names
    <3> QED BY <3>2, <3>3, <3>4, Zenon
  <2>3. ListOf(Append(Names(es), t), On(T, "q") \cup {t})
    BY <1>2, ListAppend
  <2> QED BY <2>1, <2>2, <2>3 DEF E
<1> QED BY <1>4, <1>5 DEF e

\* The entry of t is taken off q.
LEMMA EntryRemoved ==
  ASSUME NEW es, NEW T, QOK(es, T), NEW t \in Tasks, T[t].on = "q"
  PROVE  /\ RemoveEntry(es, t) \in Seq([task : Tasks, exclusive : BOOLEAN])
         /\ ListOf(Names(RemoveEntry(es, t)), On(T, "q") \ {t})
<1> DEFINE E == [task : Tasks, exclusive : BOOLEAN]
           at == CHOOSE i \in 1 .. Len(es) : es[i].task = t
           d == list_del(es, at)
           n == Len(es)
           ns == Names(es)
<1>1. es \in Seq(E) /\ n \in Nat /\ ListOf(ns, On(T, "q")) /\ t \in On(T, "q")
  BY DEF QOK, On
<1>2. Len(ns) = n /\ ns \in Seq(Tasks) /\ \A i \in 1 .. n : ns[i] = es[i].task
  <2>1. ns \in Seq(Tasks)
    BY <1>1 DEF ListOf
  <2> QED BY <1>1, <2>1 DEF Names
<1>3. at \in 1 .. n /\ ns[at] = t
  <2>1. \E i \in 1 .. n : es[i].task = t
    BY <1>1, <1>2 DEF ListOf
  <2>2. at \in 1 .. n /\ es[at].task = t
    BY <2>1
  <2> HIDE DEF at
  <2> QED BY <1>2, <2>2
<1>4. RemoveEntry(es, t) = d
  BY DEF RemoveEntry
<1> HIDE DEF at, E, ns
<1>5. n - 1 \in Nat /\ \A j \in 1 .. (n - 1) : j \in 1 .. n /\ j + 1 \in 1 .. n
  BY <1>1, <1>3
<1>6. d \in Seq(E) /\ Len(d) = n - 1
      /\ \A j \in 1 .. (n - 1) : d[j] = IF j < at THEN es[j] ELSE es[j + 1]
  <2> DEFINE f == [j \in 1 .. (n - 1) |-> IF j < at THEN es[j] ELSE es[j + 1]]
  <2>1. \A j \in 1 .. (n - 1) : f[j] \in E
    BY <1>1, <1>5
  <2>2. f \in Seq(E) /\ Len(f) = n - 1
    BY <1>5, <2>1
  <2>3. d = f
    BY DEF list_del
  <2> HIDE DEF d
  <2> QED BY <2>2, <2>3
<1> HIDE DEF d
<1>7. Names(d) = list_del(ns, at)
  <2>1. ASSUME NEW j \in 1 .. (n - 1)
        PROVE  d[j].task = IF j < at THEN ns[j] ELSE ns[j + 1]
    BY <1>2, <1>5, <1>6
  <2> HIDE DEF n
  <2>2. Names(d) = [j \in 1 .. (n - 1) |-> d[j].task]
    BY <1>6 DEF Names
  <2>3. list_del(ns, at) = [j \in 1 .. (n - 1) |-> IF j < at THEN ns[j] ELSE ns[j + 1]]
    BY <1>2 DEF list_del
  <2> QED BY <2>1, <2>2, <2>3, Zenon
<1>8. ListOf(list_del(ns, at), On(T, "q") \ {ns[at]})
  BY <1>1, <1>2, <1>3, ListDel
<1>9. ListOf(Names(d), On(T, "q") \ {t})
  BY <1>3, <1>7, <1>8
<1> QED BY <1>4, <1>6, <1>9 DEF E

\* sleep_on_common() and prepare_to_wait_exclusive() put an entry on the queue.
LEMMA SleepStep ==
  ASSUME WInv, NEW t \in Tasks, NEW mode \in Modes, NEW timed \in BOOLEAN,
         sleep_on_common(t, mode, timed) \/ wait_exclusive(t, mode)
  PROVE  WInv' /\ Abstract
<1>1. TaskOK(task) /\ QOK(q, task) /\ task[t].on = "none" /\ UNCHANGED x
  BY DEF WInv, sleep_on_common, wait_exclusive, MayCall
<1>2. PICK s \in BOOLEAN, b \in BOOLEAN :
        /\ \/ q' = <<[task |-> t, exclusive |-> b]>> \o q
           \/ q' = Append(q, [task |-> t, exclusive |-> b])
        /\ LET T == [task EXCEPT ![t] = Called(t, "q", mode, s)]
           IN  task' = T \/ task' = Woken(T, {t})
  BY DEF sleep_on_common, wait_exclusive
<1> DEFINE c == Called(t, "q", mode, s)
           T == [task EXCEPT ![t] = c]
           v == [c EXCEPT !.running = TRUE]
<1>3. c \in Waiter /\ c.on = "q" /\ c.ret = "none"
  BY <1>1, CalledForm
<1>4. task' = T \/ task' = Woken(T, {t})
  BY <1>2
<1> HIDE DEF c
<1>5. v \in Waiter /\ v.on = "q" /\ v.ret = "none"
  BY <1>3 DEF Waiter
<1>6. Woken(T, {t}) = [task EXCEPT ![t] = v]
  <2>1. task \in [Tasks -> Waiter]
    BY <1>1 DEF TaskOK
  <2>2. T \in [Tasks -> Waiter] /\ T[t] = c /\ \A u \in Tasks : u # t => T[u] = task[u]
    BY <1>3, <2>1
  <2> HIDE DEF T, v
  <2>3. \A u \in Tasks : (IF u \in {t} THEN [T[u] EXCEPT !.running = TRUE] ELSE T[u])
                         = IF u = t THEN v ELSE task[u]
    BY <2>2 DEF v
  <2>4. Woken(T, {t}) = [u \in Tasks |-> IF u = t THEN v ELSE task[u]]
    BY <2>3, Zenon DEF Woken
  <2>5. [task EXCEPT ![t] = v] = [u \in Tasks |-> IF u = t THEN v ELSE task[u]]
    BY <2>1
  <2> QED BY <2>4, <2>5
<1>7. PICK r \in {c, v} : task' = [task EXCEPT ![t] = r]
  BY <1>4, <1>6
<1> HIDE DEF v
<1>8. r \in Waiter /\ r.on = "q" /\ r.ret = "none"
  BY <1>3, <1>5
<1>9. On(task', "q") = On(task, "q") \cup {t}
  <2>1. Changed(task, task', t, r)
    BY <1>1, <1>7, <1>8, OneTask
  <2> QED BY <1>8, <2>1 DEF Changed
<1>10. /\ q' \in Seq([task : Tasks, exclusive : BOOLEAN])
       /\ ListOf(Names(q'), On(task, "q") \cup {t})
  BY <1>1, <1>2, EntryAdded
<1>11. QOK(q', task')
  BY <1>9, <1>10 DEF QOK
<1> QED BY <1>1, <1>7, <1>8, <1>11, PlainStep

\* ... and the task takes it off when it goes on.
LEMMA SleepReturnStep ==
  ASSUME WInv, NEW t \in Tasks, sleep_on_return(t)
  PROVE  WInv' /\ Abstract
<1>1. /\ TaskOK(task) /\ QOK(q, task) /\ task[t].on = "q" /\ UNCHANGED x
      /\ q' = RemoveEntry(q, t) /\ Return(t, "none")
  BY DEF WInv, sleep_on_return
<1> DEFINE w == Returned(t, "none")
<1>2. /\ task' = [task EXCEPT ![t] = w] /\ w \in Waiter
      /\ w.on = "none" /\ w.running /\ w.ret = "none"
  BY <1>1, ReturnForm
<1> HIDE DEF w
<1>3. On(task', "q") = On(task, "q") \ {t}
  <2>1. Changed(task, task', t, w)
    BY <1>1, <1>2, OneTask
  <2> QED BY <1>2, <2>1 DEF Changed
<1>4. /\ q' \in Seq([task : Tasks, exclusive : BOOLEAN])
      /\ ListOf(Names(q'), On(task, "q") \ {t})
  BY <1>1, EntryRemoved
<1>5. QOK(q', task')
  BY <1>3, <1>4 DEF QOK
<1> QED BY <1>1, <1>2, <1>5, PlainStep

\* Every step.
LEMMA StepOK == WInv /\ [Next]_vars => WInv' /\ Abstract
<1> SUFFICES ASSUME WInv, [Next]_vars PROVE WInv' /\ Abstract
  OBVIOUS
<1>1. CASE UNCHANGED vars
  <2>1. TaskOK(task') /\ UNCHANGED <<x, q>> /\ task' = task
    BY <1>1 DEF vars, WInv
  <2> QED BY <2>1, KeepStep
<1>2. CASE complete \/ complete_all
  BY <1>2, CompleteStep
<1>3. CASE \E nr \in 0 .. 1 : wake_up(nr)
  BY <1>3, WakeUpStep
<1>4. ASSUME NEW t \in Tasks, Resume(t) \/ try_wait_for_completion(t) \/ timer(t)
      PROVE  WInv' /\ Abstract
  BY <1>4, ResumeStep, SleepReturnStep, TryStep, TimerStep DEF Resume
<1>5. ASSUME NEW t \in Tasks, \E s \in Signals : send_signal(t, s)
      PROVE  WInv' /\ Abstract
  BY <1>5, SignalStep
<1>6. ASSUME NEW t \in Tasks, NEW mode \in Modes, NEW timed \in BOOLEAN,
             \/ wait_for_common(t, mode, timed)
             \/ wait_exclusive(t, mode) \/ sleep_on_common(t, mode, timed)
      PROVE  WInv' /\ Abstract
  BY <1>6, WaitStep, SleepStep
<1> QED BY <1>1, <1>2, <1>3, <1>4, <1>5, <1>6, Zenon DEF Next

-----------------------------------------------------------------------------
(* Theorems. *)

\* The queues hold exactly the tasks that wait, and no completion is stranded:
\* __wake_up_common() leaves as many waiters awake as there are completions to
\* take, or all of them, for any number of waiters, calls and wakeups and with
\* signals, timeouts and newcomers in any order.
THEOREM CompletionsNotStranded == Spec => []EnoughAwake
<1>1. Init => WInv
  BY InitInv
<1>2. WInv /\ [Next]_vars => WInv'
  BY StepOK
<1>3. WInv => EnoughAwake
  BY InvEnough
<1> QED BY <1>1, <1>2, <1>3, PTL DEF Spec

\* Every step of wait_for_common, do_wait_for_common, complete, complete_all and
\* the plain wait queue is a step of Completion or leaves it alone: no wait gives
\* up while there is a completion, and none is lost or taken twice.
THEOREM CompletionSafety == Spec => C!Init /\ [][C!Next]_(C!cvars)
<1>1. Init => WInv
  BY InitInv
<1>2. WInv /\ [Next]_vars => WInv' /\ [C!Next]_(C!cvars)
  BY StepOK DEF Abstract
<1>3. Init => C!Init
  BY DEF Init, C!Init
<1> QED BY <1>1, <1>2, <1>3, PTL DEF Spec
====
