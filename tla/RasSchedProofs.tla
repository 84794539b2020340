--------------------------- MODULE RasSchedProofs ---------------------------
(***************************************************************************)
(* TLAPS proofs about RasSched, for every set of tasks and every value of  *)
(* the other constants: its inductive invariant, and what follows from it  *)
(* about whom the scheduler runs.                                          *)
(***************************************************************************)
EXTENDS RasSched, SumProofs, FiniteSetTheorems, TLAPS

(***************************************************************************)
(* Lists.  ListOf(q, S): q lists exactly the members of S, each once.      *)
(***************************************************************************)
ListOf(q, S) ==
  /\ q \in Seq(Tasks)
  /\ NoDuplicates(q)
  /\ \A x \in Tasks : OnList(q, x) <=> x \in S

\* list_del takes out one entry and keeps the others.
LEMMA ListDel ==
  ASSUME NEW q, NEW S, NEW p \in Tasks, ListOf(q, S), p \in S
  PROVE  /\ ListOf(list_del(q, p), S \ {p})
         /\ Len(list_del(q, p)) = Len(q) - 1
<1> DEFINE at == CHOOSE i \in 1 .. Len(q) : q[i] = p
           d == [j \in 1 .. (Len(q) - 1) |-> IF j < at THEN q[j] ELSE q[j + 1]]
<1>1. q \in Seq(Tasks) /\ Len(q) \in Nat
  BY DEF ListOf
<1>2. at \in 1 .. Len(q) /\ q[at] = p
  BY DEF ListOf, OnList
<1>3. d = list_del(q, p)
  BY DEF list_del
<1> HIDE DEF at
<1>4. /\ d \in Seq(Tasks) /\ Len(d) = Len(q) - 1
      /\ \A j \in 1 .. Len(d) : d[j] = IF j < at THEN q[j] ELSE q[j + 1]
  <2>1. Len(q) - 1 \in Nat
    BY <1>1, <1>2
  <2>2. \A j \in 1 .. (Len(q) - 1) : d[j] \in Tasks
    BY <1>1, <1>2
  <2> QED BY <2>1, <2>2
<1> HIDE DEF d
<1>5. NoDuplicates(d)
  <2> SUFFICES ASSUME NEW i \in 1 .. Len(d), NEW j \in 1 .. Len(d), d[i] = d[j]
               PROVE  i = j
    BY DEF NoDuplicates
  <2> QED BY <1>1, <1>2, <1>4 DEF ListOf, NoDuplicates
<1>6. ASSUME NEW x \in Tasks
      PROVE  OnList(d, x) <=> x \in S \ {p}
  <2>1. ASSUME OnList(d, x) PROVE x \in S \ {p}
    <3> PICK j \in 1 .. Len(d) : d[j] = x
      BY <2>1 DEF OnList
    <3> PICK k \in 1 .. Len(q) : k # at /\ q[k] = x
      <4>1. CASE j < at
        BY <4>1, <1>1, <1>2, <1>4
      <4>2. CASE ~(j < at)
        BY <4>2, <1>1, <1>2, <1>4
      <4> QED BY <4>1, <4>2
    <3> QED BY <1>2 DEF ListOf, OnList, NoDuplicates
  <2>2. ASSUME x \in S \ {p} PROVE OnList(d, x)
    <3> PICK k \in 1 .. Len(q) : q[k] = x
      BY <2>2 DEF ListOf, OnList
    <3>1. k # at
      BY <2>2, <1>2
    <3>2. CASE k < at
      BY <3>2, <1>1, <1>2, <1>4 DEF OnList
    <3>3. CASE k > at
      <4>1. k - 1 \in 1 .. Len(d) /\ d[k - 1] = x
        BY <3>3, <1>1, <1>2, <1>4
      <4> QED BY <4>1 DEF OnList
    <3> QED BY <3>1, <3>2, <3>3, <1>2
  <2> QED BY <2>1, <2>2
<1> QED BY <1>3, <1>4, <1>5, <1>6 DEF ListOf

\* Both ways of adding an entry that is not on the list.
LEMMA ListAdd ==
  ASSUME NEW q, NEW S, NEW p \in Tasks, ListOf(q, S), p \notin S
  PROVE  /\ ListOf(list_add(q, p), S \cup {p})
         /\ ListOf(list_add_tail(q, p), S \cup {p})
         /\ Len(list_add(q, p)) = Len(q) + 1
         /\ Len(list_add_tail(q, p)) = Len(q) + 1
<1>1. q \in Seq(Tasks) /\ Len(q) \in Nat /\ \A i \in 1 .. Len(q) : q[i] # p
  BY DEF ListOf, OnList
<1> DEFINE h == list_add(q, p)
           a == list_add_tail(q, p)
<1>2. /\ h \in Seq(Tasks) /\ Len(h) = Len(q) + 1 /\ h[1] = p
      /\ \A i \in 1 .. Len(q) : h[i + 1] = q[i]
  BY <1>1 DEF list_add
<1>3. /\ a \in Seq(Tasks) /\ Len(a) = Len(q) + 1 /\ a[Len(q) + 1] = p
      /\ \A i \in 1 .. Len(q) : a[i] = q[i]
  BY <1>1 DEF list_add_tail
<1> HIDE DEF h, a
<1>4. NoDuplicates(h)
  <2> SUFFICES ASSUME NEW i \in 1 .. Len(h), NEW j \in 1 .. Len(h), h[i] = h[j]
               PROVE  i = j
    BY DEF NoDuplicates
  <2>1. \A k \in 1 .. Len(h) : k = 1 \/ (k - 1 \in 1 .. Len(q) /\ h[k] = q[k - 1])
    BY <1>1, <1>2
  <2>2. \A k, m \in 1 .. Len(q) : q[k] = q[m] => k = m
    BY DEF ListOf, NoDuplicates
  <2>3. CASE i = 1 \/ j = 1
    BY <1>1, <1>2, <2>1, <2>3
  <2>4. CASE i # 1 /\ j # 1
    <3>1. i - 1 \in 1 .. Len(q) /\ j - 1 \in 1 .. Len(q) /\ q[i - 1] = q[j - 1]
      BY <2>1, <2>4
    <3>2. i - 1 = j - 1
      BY <2>2, <3>1
    <3> QED BY <3>2
  <2> QED BY <2>3, <2>4
<1>5. NoDuplicates(a)
  <2> SUFFICES ASSUME NEW i \in 1 .. Len(a), NEW j \in 1 .. Len(a), a[i] = a[j]
               PROVE  i = j
    BY DEF NoDuplicates
  <2> QED BY <1>1, <1>3 DEF ListOf, NoDuplicates
<1>6. ASSUME NEW x \in Tasks
      PROVE  OnList(h, x) <=> x \in S \cup {p}
  <2>1. \A k \in 1 .. Len(h) : k = 1 \/ (k - 1 \in 1 .. Len(q) /\ h[k] = q[k - 1])
    BY <1>1, <1>2
  <2>2. OnList(h, x) => x \in S \cup {p}
    BY <1>1, <1>2, <2>1 DEF ListOf, OnList
  <2>3. x \in S => OnList(h, x)
    <3> HAVE x \in S
    <3> PICK i \in 1 .. Len(q) : q[i] = x
      BY DEF ListOf, OnList
    <3>1. i + 1 \in 1 .. Len(h) /\ h[i + 1] = x
      BY <1>1, <1>2
    <3> QED BY <3>1 DEF OnList
  <2>4. OnList(h, p)
    BY <1>1, <1>2 DEF OnList
  <2> QED BY <2>2, <2>3, <2>4
<1>7. ASSUME NEW x \in Tasks
      PROVE  OnList(a, x) <=> x \in S \cup {p}
  <2>1. OnList(a, x) => x \in S \cup {p}
    BY <1>1, <1>3 DEF ListOf, OnList
  <2>2. x \in S => OnList(a, x)
    BY <1>1, <1>3 DEF ListOf, OnList
  <2>3. OnList(a, p)
    BY <1>1, <1>3 DEF OnList
  <2> QED BY <2>1, <2>2, <2>3
<1> QED BY <1>2, <1>3, <1>4, <1>5, <1>6, <1>7 DEF ListOf, h, a

\* Moving an entry to the tail keeps the members.
LEMMA ListMoveTail ==
  ASSUME NEW q, NEW S, NEW p \in Tasks, ListOf(q, S), p \in S
  PROVE  /\ ListOf(list_move_tail(q, p), S)
         /\ Len(list_move_tail(q, p)) = Len(q)
<1>1. ListOf(list_del(q, p), S \ {p}) /\ Len(list_del(q, p)) = Len(q) - 1
  BY ListDel
<1>2. /\ ListOf(list_move_tail(q, p), (S \ {p}) \cup {p})
      /\ Len(list_move_tail(q, p)) = Len(list_del(q, p)) + 1
  BY <1>1, ListAdd DEF list_move_tail
<1>3. (S \ {p}) \cup {p} = S
  OBVIOUS
<1>4. Len(q) \in Nat
  BY DEF ListOf
<1>5. Len(list_move_tail(q, p)) = Len(q)
  BY <1>1, <1>2, <1>4
<1> QED BY <1>2, <1>3, <1>5, Zenon

(***************************************************************************)
(* The run queue.  RqInv(r, T): the lists and counters of r are those that *)
(* the task records T call for.                                            *)
(***************************************************************************)
OnRq(T) == {p \in Tasks : T[p].on_rq}
RasSet(T) == {p \in Tasks : T[p].on_rq /\ T[p].sched_class = "ras"}
RtSet(T, i) == {p \in Tasks : T[p].on_rq /\ T[p].sched_class = "rt" /\ T[p].prio = i}
RtRange == 0 .. (MAX_RT_PRIO - 1)

RqInv(r, T) ==
  /\ r \in RunQueue
  /\ ListOf(r.ras, RasSet(T))
  /\ \A i \in RtRange : ListOf(r.rt[i], RtSet(T, i))
  /\ r.ras_nr_running = Len(r.ras)
  /\ r.nr_running = Cardinality(OnRq(T))

\* The class of a record of an RT task matches a list.
RtInRange(t) == t.sched_class = "rt" => t.prio < MAX_RT_PRIO

\* Only on_rq, the class and the prio of a task matter to the run queue.
LEMMA RqInvSame ==
  ASSUME NEW r, NEW T, NEW U, RqInv(r, T),
         \A x \in Tasks : /\ U[x].on_rq = T[x].on_rq
                          /\ U[x].sched_class = T[x].sched_class
                          /\ U[x].prio = T[x].prio
  PROVE  RqInv(r, U)
<1>1. OnRq(U) = OnRq(T) /\ RasSet(U) = RasSet(T)
  BY DEF OnRq, RasSet
<1>2. \A i \in RtRange : RtSet(U, i) = RtSet(T, i)
  BY DEF RtSet
<1> QED BY <1>1, <1>2 DEF RqInv

\* Putting one more task on the run queue adds one to the number of runnable tasks.
LEMMA CountAdd ==
  ASSUME NEW S, NEW p \in Tasks, S \subseteq Tasks
  PROVE  /\ Cardinality(S) \in Nat
         /\ p \notin S => Cardinality(S \cup {p}) = Cardinality(S) + 1
         /\ p \in S => Cardinality(S \ {p}) = Cardinality(S) - 1
<1>1. IsFiniteSet(S)
  BY TaskConstants, FS_Subset
<1> QED BY <1>1, FS_CardinalityType, FS_AddElement, FS_RemoveElement

\* enqueue_task puts p where its new record t says.
LEMMA EnqueueOK ==
  ASSUME NEW T \in [Tasks -> TaskRecord], NEW r, RqInv(r, T),
         NEW p \in Tasks, ~T[p].on_rq,
         NEW t \in TaskRecord, t.on_rq, RtInRange(t),
         NEW head \in BOOLEAN
  PROVE  RqInv(enqueue_task(r, p, t, head), [T EXCEPT ![p] = t])
<1> DEFINE U == [T EXCEPT ![p] = t]
<1> DEFINE e == enqueue_task(r, p, t, head)
<1>1. U[p] = t /\ \A x \in Tasks : x # p => U[x] = T[x]
  OBVIOUS
<1> HIDE DEF U, e
<1>2. OnRq(U) = OnRq(T) \cup {p} /\ p \notin OnRq(T) /\ OnRq(T) \subseteq Tasks
  BY <1>1 DEF OnRq
<1>3. Cardinality(OnRq(U)) = r.nr_running + 1
  BY <1>2, CountAdd DEF RqInv
<1>4. p \notin RasSet(T) /\ \A i \in RtRange : p \notin RtSet(T, i)
  BY DEF RasSet, RtSet
<1>5. /\ r \in RunQueue /\ r.ras \in Seq(Tasks) /\ r.rt \in [RtRange -> Seq(Tasks)]
      /\ r.ras_nr_running + 1 \in Int /\ r.nr_running + 1 \in Int
  BY DEF RqInv, RunQueue, RtRange
<1>6. t.sched_class \in {"rt", "ras", "fair"} /\ t.prio \in Nat
  BY DEF TaskRecord
<1>7. CASE t.sched_class = "ras"
  <2> DEFINE q == IF head THEN list_add(r.ras, p) ELSE list_add_tail(r.ras, p)
  <2>1. e = [r EXCEPT !.ras = q, !.ras_nr_running = @ + 1, !.nr_running = @ + 1]
    BY <1>7 DEF e, enqueue_task, enqueue_task_ras
  <2>2. ListOf(q, RasSet(T) \cup {p}) /\ Len(q) = Len(r.ras) + 1 /\ q \in Seq(Tasks)
    <3>1. ListOf(q, RasSet(T) \cup {p}) /\ Len(q) = Len(r.ras) + 1
      BY <1>4, ListAdd DEF RqInv
    <3> HIDE DEF q
    <3> QED BY <3>1 DEF ListOf
  <2> HIDE DEF q
  <2>3. /\ e \in RunQueue /\ e.ras = q /\ e.rt = r.rt
        /\ e.ras_nr_running = r.ras_nr_running + 1 /\ e.nr_running = r.nr_running + 1
    BY <1>5, <2>1, <2>2 DEF RunQueue
  <2>4. RasSet(U) = RasSet(T) \cup {p}
    BY <1>1, <1>7 DEF RasSet
  <2>5. \A i \in RtRange : RtSet(U, i) = RtSet(T, i)
    BY <1>1, <1>7 DEF RtSet
  <2>6. RqInv(e, U)
    BY <1>3, <2>2, <2>3, <2>4, <2>5 DEF RqInv
  <2> QED BY <2>6 DEF U, e
<1>8. CASE t.sched_class = "rt"
  <2> DEFINE pr == t.prio
             q == IF head THEN list_add(r.rt[pr], p) ELSE list_add_tail(r.rt[pr], p)
  <2>1. pr \in RtRange
    BY <1>6, <1>8, PrioConstants DEF RtInRange, RtRange
  <2>2. e = [r EXCEPT !.rt = [r.rt EXCEPT ![pr] = q], !.nr_running = @ + 1]
    BY <1>8 DEF e, enqueue_task, enqueue_task_rt
  <2>3. ListOf(q, RtSet(T, pr) \cup {p}) /\ q \in Seq(Tasks)
    <3>1. ListOf(q, RtSet(T, pr) \cup {p})
      BY <1>4, <2>1, ListAdd DEF RqInv
    <3> HIDE DEF q
    <3> QED BY <3>1 DEF ListOf
  <2> HIDE DEF q, pr
  <2>4. /\ e \in RunQueue /\ e.ras = r.ras /\ e.rt = [r.rt EXCEPT ![pr] = q]
        /\ e.ras_nr_running = r.ras_nr_running /\ e.nr_running = r.nr_running + 1
    BY <1>5, <2>1, <2>2, <2>3 DEF RunQueue, RtRange
  <2>5. RasSet(U) = RasSet(T)
    BY <1>1, <1>8 DEF RasSet
  <2>6. ASSUME NEW i \in RtRange PROVE ListOf(e.rt[i], RtSet(U, i))
    <3>1. CASE i = pr
      <4>1. RtSet(U, i) = RtSet(T, i) \cup {p}
        BY <1>1, <1>8, <3>1 DEF RtSet, pr
      <4>2. e.rt[i] = q
        BY <1>5, <2>4, <3>1
      <4> QED BY <2>3, <3>1, <4>1, <4>2
    <3>2. CASE i # pr
      <4>1. RtSet(U, i) = RtSet(T, i)
        BY <1>1, <1>8, <3>2 DEF RtSet, pr
      <4>2. e.rt[i] = r.rt[i]
        BY <1>5, <2>4, <3>2
      <4> QED BY <4>1, <4>2 DEF RqInv
    <3> QED BY <3>1, <3>2
  <2>7. RqInv(e, U)
    BY <1>3, <2>4, <2>5, <2>6 DEF RqInv
  <2> QED BY <2>7 DEF U, e
<1>9. CASE t.sched_class = "fair"
  <2>1. e = [r EXCEPT !.nr_running = @ + 1]
    BY <1>9 DEF e, enqueue_task
  <2>2. /\ e \in RunQueue /\ e.ras = r.ras /\ e.rt = r.rt
        /\ e.ras_nr_running = r.ras_nr_running /\ e.nr_running = r.nr_running + 1
    BY <1>5, <2>1 DEF RunQueue
  <2>3. RasSet(U) = RasSet(T) /\ \A i \in RtRange : RtSet(U, i) = RtSet(T, i)
    BY <1>1, <1>9 DEF RasSet, RtSet
  <2>4. RqInv(e, U)
    BY <1>3, <2>2, <2>3 DEF RqInv
  <2> QED BY <2>4 DEF U, e
<1> QED BY <1>6, <1>7, <1>8, <1>9

\* dequeue_task takes p, which is queued, off its list.
LEMMA DequeueOK ==
  ASSUME NEW T \in [Tasks -> TaskRecord], NEW r, RqInv(r, T),
         NEW p \in Tasks, T[p].on_rq, RtInRange(T[p]),
         NEW t \in TaskRecord, ~t.on_rq
  PROVE  RqInv(dequeue_task(r, p, T[p]), [T EXCEPT ![p] = t])
<1> DEFINE U == [T EXCEPT ![p] = t]
           e == dequeue_task(r, p, T[p])
           c == T[p].sched_class
<1>1. U[p] = t /\ \A x \in Tasks : x # p => U[x] = T[x]
  OBVIOUS
<1> HIDE DEF U, e
<1>2. OnRq(U) = OnRq(T) \ {p} /\ p \in OnRq(T) /\ OnRq(T) \subseteq Tasks
  BY <1>1 DEF OnRq
<1>3. Cardinality(OnRq(U)) = r.nr_running - 1
  BY <1>2, CountAdd DEF RqInv
<1>4. /\ r \in RunQueue /\ r.ras \in Seq(Tasks) /\ r.rt \in [RtRange -> Seq(Tasks)]
      /\ r.ras_nr_running - 1 \in Int /\ r.nr_running - 1 \in Int
  BY DEF RqInv, RunQueue, RtRange
<1>5. T[p] \in TaskRecord /\ c \in {"rt", "ras", "fair"} /\ T[p].prio \in Nat
  BY DEF TaskRecord
<1>6. CASE c = "ras"
  <2> DEFINE q == list_del(r.ras, p)
  <2>1. p \in RasSet(T)
    BY <1>6 DEF RasSet
  <2>2. OnList(r.ras, p)
    BY <2>1 DEF RqInv, ListOf
  <2>3. e = [r EXCEPT !.ras = q, !.ras_nr_running = @ - 1, !.nr_running = @ - 1]
    BY <1>6, <2>2 DEF e, dequeue_task, dequeue_task_ras
  <2>4. ListOf(q, RasSet(T) \ {p}) /\ Len(q) = Len(r.ras) - 1
    BY <2>1, ListDel DEF RqInv
  <2> HIDE DEF q
  <2>5. q \in Seq(Tasks)
    BY <2>4 DEF ListOf
  <2>6. /\ e \in RunQueue /\ e.ras = q /\ e.rt = r.rt
        /\ e.ras_nr_running = r.ras_nr_running - 1 /\ e.nr_running = r.nr_running - 1
    BY <1>4, <2>3, <2>5 DEF RunQueue
  <2>7. RasSet(U) = RasSet(T) \ {p}
    BY <1>1 DEF RasSet
  <2>8. \A i \in RtRange : RtSet(U, i) = RtSet(T, i)
    BY <1>1, <1>6 DEF RtSet
  <2>9. RqInv(e, U)
    BY <1>3, <2>4, <2>6, <2>7, <2>8 DEF RqInv
  <2> QED BY <2>9 DEF U, e
<1>7. CASE c = "rt"
  <2> DEFINE pr == T[p].prio
             q == list_del(r.rt[pr], p)
  <2>1. pr \in RtRange
    BY <1>5, <1>7, PrioConstants DEF RtInRange, RtRange
  <2>2. p \in RtSet(T, pr)
    BY <1>7 DEF RtSet
  <2>3. OnList(r.rt[pr], p)
    BY <2>1, <2>2 DEF RqInv, ListOf
  <2>4. e = [r EXCEPT !.rt = [r.rt EXCEPT ![pr] = q], !.nr_running = @ - 1]
    BY <1>7, <2>3 DEF e, dequeue_task, dequeue_task_rt
  <2>5. ListOf(q, RtSet(T, pr) \ {p})
    BY <2>1, <2>2, ListDel DEF RqInv
  <2> HIDE DEF q, pr
  <2>6. q \in Seq(Tasks)
    BY <2>5 DEF ListOf
  <2>7. /\ e \in RunQueue /\ e.ras = r.ras /\ e.rt = [r.rt EXCEPT ![pr] = q]
        /\ e.ras_nr_running = r.ras_nr_running /\ e.nr_running = r.nr_running - 1
    BY <1>4, <2>1, <2>4, <2>6 DEF RunQueue, RtRange
  <2>8. RasSet(U) = RasSet(T)
    BY <1>1, <1>7 DEF RasSet
  <2>9. ASSUME NEW i \in RtRange PROVE ListOf(e.rt[i], RtSet(U, i))
    <3>1. CASE i = pr
      <4>1. RtSet(U, i) = RtSet(T, i) \ {p}
        BY <1>1 DEF RtSet
      <4>2. e.rt[i] = q
        BY <1>4, <2>7, <3>1
      <4> QED BY <2>5, <3>1, <4>1, <4>2
    <3>2. CASE i # pr
      <4>1. RtSet(U, i) = RtSet(T, i)
        BY <1>1, <1>7, <3>2 DEF RtSet, pr
      <4>2. e.rt[i] = r.rt[i]
        BY <1>4, <2>7, <3>2
      <4> QED BY <4>1, <4>2 DEF RqInv
    <3> QED BY <3>1, <3>2
  <2>10. RqInv(e, U)
    BY <1>3, <2>7, <2>8, <2>9 DEF RqInv
  <2> QED BY <2>10 DEF U, e
<1>8. CASE c = "fair"
  <2>1. e = [r EXCEPT !.nr_running = @ - 1]
    BY <1>8 DEF e, dequeue_task
  <2>2. /\ e \in RunQueue /\ e.ras = r.ras /\ e.rt = r.rt
        /\ e.ras_nr_running = r.ras_nr_running /\ e.nr_running = r.nr_running - 1
    BY <1>4, <2>1 DEF RunQueue
  <2>3. RasSet(U) = RasSet(T) /\ \A i \in RtRange : RtSet(U, i) = RtSet(T, i)
    BY <1>1, <1>8 DEF RasSet, RtSet
  <2>4. RqInv(e, U)
    BY <1>3, <2>2, <2>3 DEF RqInv
  <2> QED BY <2>4 DEF U, e
<1> QED BY <1>5, <1>6, <1>7, <1>8

\* Moving a task to the tail of its list, if it is on it, changes no member.
LEMMA PutPrevRasOK ==
  ASSUME NEW T, NEW r, RqInv(r, T), NEW p \in Tasks
  PROVE  RqInv(put_prev_task_ras(r, p), T)
<1>1. CASE OnList(r.ras, p)
  <2> DEFINE q == list_move_tail(r.ras, p)
             e == [r EXCEPT !.ras = q]
  <2>1. p \in RasSet(T)
    BY <1>1 DEF RqInv, ListOf
  <2>2. ListOf(q, RasSet(T)) /\ Len(q) = Len(r.ras)
    BY <2>1, ListMoveTail DEF RqInv
  <2> HIDE DEF q
  <2>3. q \in Seq(Tasks)
    BY <2>2 DEF ListOf
  <2>4. /\ e \in RunQueue /\ e.ras = q /\ e.rt = r.rt
        /\ e.ras_nr_running = r.ras_nr_running /\ e.nr_running = r.nr_running
    BY <2>3 DEF RqInv, RunQueue
  <2>5. put_prev_task_ras(r, p) = e
    BY <1>1 DEF put_prev_task_ras, q
  <2> HIDE DEF e
  <2>6. RqInv(e, T)
    BY <2>2, <2>4 DEF RqInv
  <2> QED BY <2>5, <2>6
<1>2. CASE ~OnList(r.ras, p)
  BY <1>2 DEF put_prev_task_ras
<1> QED BY <1>1, <1>2

\* yield_task only rotates a list, so it keeps the run queue in order.
LEMMA YieldOK ==
  ASSUME task \in [Tasks -> TaskRecord], NEW r, RqInv(r, task), NEW p \in Tasks,
         RtInRange(task[p])
  PROVE  RqInv(yield_task(r, p), task)
<1> DEFINE c == task[p].sched_class
<1>1. CASE c = "ras"
  BY <1>1, PutPrevRasOK DEF yield_task
<1>2. CASE c = "rt"
  <2> DEFINE pr == task[p].prio
             q == IF OnList(r.rt[pr], p) THEN list_move_tail(r.rt[pr], p) ELSE r.rt[pr]
             e == [r EXCEPT !.rt = [r.rt EXCEPT ![pr] = q]]
  <2>1. pr \in RtRange
    <3>1. task[p] \in TaskRecord
      OBVIOUS
    <3> QED BY <1>2, <3>1, PrioConstants DEF RtInRange, RtRange, TaskRecord
  <2>2. ListOf(q, RtSet(task, pr))
    <3>1. CASE OnList(r.rt[pr], p)
      <4>1. p \in RtSet(task, pr)
        BY <2>1, <3>1 DEF RqInv, ListOf
      <4> QED BY <2>1, <3>1, <4>1, ListMoveTail DEF RqInv
    <3>2. CASE ~OnList(r.rt[pr], p)
      BY <2>1, <3>2 DEF RqInv
    <3> QED BY <3>1, <3>2
  <2> HIDE DEF q
  <2>3. q \in Seq(Tasks)
    BY <2>2 DEF ListOf
  <2>4. r \in RunQueue /\ r.rt \in [RtRange -> Seq(Tasks)]
    BY DEF RqInv, RunQueue, RtRange
  <2>5. yield_task(r, p) = e
    BY <1>2 DEF yield_task, q
  <2> HIDE DEF pr
  <2>6. /\ e \in RunQueue /\ e.ras = r.ras /\ e.rt = [r.rt EXCEPT ![pr] = q]
        /\ e.ras_nr_running = r.ras_nr_running /\ e.nr_running = r.nr_running
    BY <2>1, <2>3, <2>4 DEF RunQueue, RtRange
  <2> HIDE DEF e
  <2>7. ASSUME NEW i \in RtRange PROVE ListOf(e.rt[i], RtSet(task, i))
    BY <2>1, <2>2, <2>4, <2>6 DEF RqInv
  <2>8. RqInv(e, task)
    BY <2>6, <2>7 DEF RqInv
  <2> QED BY <2>5, <2>8
<1>3. CASE c \notin {"ras", "rt"}
  BY <1>3 DEF yield_task
<1> QED BY <1>1, <1>2, <1>3

(***************************************************************************)
(* Task records.  TaskFits(t) relates the fields of one record; TaskInv    *)
(* adds the slice of a queued RAS task.                                    *)
(***************************************************************************)
TaskFits(t) ==
  /\ t.sched_class = "ras" => t.policy = "RAS"
  /\ t.sched_class = "rt" => t.prio < MAX_RT_PRIO
  /\ t.sched_class = "fair" => t.prio >= MAX_RT_PRIO
  /\ rt_policy(t.policy) => t.sched_class = "rt"
  /\ t.on_rq => t.state # "dead" /\ ~t.new
  /\ t.new => t.state = "running"
  /\ t.state = "running" /\ ~t.new => t.on_rq

SliceFits(t) ==
  t.on_rq /\ t.sched_class = "ras" => 1 <= t.time_slice /\ t.time_slice <= MaxSlice

TaskInv(t) == TaskFits(t) /\ SliceFits(t)

\* Every slice the class hands out is positive and at most MaxSlice.
THEOREM SliceBounds ==
  ASSUME NEW g, NEW w \in Nat
  PROVE  /\ calc_ras_weight(w) \in 0 .. 10
         /\ ras_time_slice(g, w) \in Nat
         /\ 1 <= ras_time_slice(g, w) /\ ras_time_slice(g, w) <= MaxSlice
<1>1. calc_ras_weight(w) \in 0 .. 10
  BY DEF calc_ras_weight
<1> DEFINE x == calc_ras_weight(w) * RAS_INC_TIME
<1>2. x \in Nat /\ x <= 10 * RAS_INC_TIME
  <2>1. \A k \in 0 .. 10 : k * RAS_INC_TIME \in Nat /\ k * RAS_INC_TIME <= 10 * RAS_INC_TIME
    BY SliceConstants
  <2> QED BY <1>1, <2>1
<1> HIDE DEF x
<1> QED BY <1>1, <1>2, SliceConstants DEF ras_time_slice, MaxSlice, x

\* What enqueue_task_ras does to a record.
LEMMA EnqueuedOK ==
  ASSUME NEW t \in TaskRecord, TaskFits(t)
  PROVE  /\ enqueued(t) \in TaskRecord /\ TaskInv(enqueued(t))
         /\ enqueued(t).on_rq = t.on_rq /\ enqueued(t).prio = t.prio
         /\ enqueued(t).sched_class = t.sched_class
<1> DEFINE sl == ras_time_slice(t.group, t.wcounts)
<1>1. sl \in 0 .. UINT_MAX /\ 1 <= sl /\ sl <= MaxSlice
  <2>1. t.wcounts \in Nat
    BY DEF TaskRecord
  <2>2. sl \in Nat /\ 1 <= sl /\ sl <= MaxSlice
    BY <2>1, SliceBounds
  <2> QED BY <2>2, SliceConstants DEF MaxSlice
<1> HIDE DEF sl
<1>2. CASE t.sched_class = "ras"
  <2>1. enqueued(t) = [t EXCEPT !.time_slice = sl]
    BY <1>2 DEF enqueued, refill, sl
  <2> QED BY <1>1, <2>1 DEF TaskRecord, TaskInv, TaskFits, SliceFits
<1>3. CASE t.sched_class # "ras"
  BY <1>3 DEF enqueued, TaskInv, SliceFits
<1> QED BY <1>2, <1>3

\* refill leaves all but the slice alone and gives a slice in range.
LEMMA RefillOK ==
  ASSUME NEW t \in TaskRecord, TaskFits(t)
  PROVE  /\ refill(t) \in TaskRecord /\ TaskInv(refill(t))
         /\ refill(t).on_rq = t.on_rq /\ refill(t).prio = t.prio
         /\ refill(t).sched_class = t.sched_class
<1> DEFINE sl == ras_time_slice(t.group, t.wcounts)
<1>1. sl \in 0 .. UINT_MAX /\ 1 <= sl /\ sl <= MaxSlice
  <2>1. t.wcounts \in Nat
    BY DEF TaskRecord
  <2>2. sl \in Nat /\ 1 <= sl /\ sl <= MaxSlice
    BY <2>1, SliceBounds
  <2> QED BY <2>2, SliceConstants DEF MaxSlice
<1> HIDE DEF sl
<1>2. refill(t) = [t EXCEPT !.time_slice = sl]
  BY DEF refill, sl
<1> QED BY <1>1, <1>2 DEF TaskRecord, TaskInv, TaskFits, SliceFits

\* A task that is off the run queue before and after a change is not counted.
LEMMA RqInvOff ==
  ASSUME NEW T \in [Tasks -> TaskRecord], NEW r, RqInv(r, T),
         NEW p \in Tasks, ~T[p].on_rq, NEW t, ~t.on_rq
  PROVE  RqInv(r, [T EXCEPT ![p] = t])
<1> DEFINE U == [T EXCEPT ![p] = t]
<1>1. U[p] = t /\ \A x \in Tasks : x # p => U[x] = T[x]
  OBVIOUS
<1> HIDE DEF U
<1>2. OnRq(U) = OnRq(T) /\ RasSet(U) = RasSet(T)
  BY <1>1 DEF OnRq, RasSet
<1>3. \A i \in RtRange : RtSet(U, i) = RtSet(T, i)
  BY <1>1 DEF RtSet
<1>4. RqInv(r, U)
  BY <1>2, <1>3 DEF RqInv
<1> QED BY <1>4 DEF U

\* Activating p: its record gets a slice and its list an entry.
LEMMA ActivateOK ==
  ASSUME NEW T \in [Tasks -> TaskRecord], NEW r, RqInv(r, T),
         NEW p \in Tasks, ~T[p].on_rq,
         NEW t \in TaskRecord, t.on_rq, TaskFits(t), NEW head \in BOOLEAN
  PROVE  RqInv(enqueue_task(r, p, t, head), [T EXCEPT ![p] = enqueued(t)])
<1>1. RqInv(enqueue_task(r, p, t, head), [T EXCEPT ![p] = t])
  BY EnqueueOK DEF TaskFits, RtInRange
<1> DEFINE U == [T EXCEPT ![p] = t]
           V == [T EXCEPT ![p] = enqueued(t)]
<1>2. \A x \in Tasks : /\ V[x].on_rq = U[x].on_rq /\ V[x].prio = U[x].prio
                       /\ V[x].sched_class = U[x].sched_class
  BY EnqueuedOK
<1> HIDE DEF U, V
<1>3. RqInv(enqueue_task(r, p, t, head), V)
  BY <1>1, <1>2, RqInvSame DEF U
<1> QED BY <1>3 DEF V

\* Whatever pick_next_task picks is runnable (or the idle task).
LEMMA PickOK ==
  ASSUME NEW T \in [Tasks -> TaskRecord], NEW r, RqInv(r, T),
         NEW x \in pick_next_task(r, T)
  PROVE  x \in Tasks \cup {Idle} /\ (x # Idle => T[x].on_rq)
<1>1. \A y \in fair_tasks(T) : y \in Tasks /\ T[y].on_rq
  BY DEF fair_tasks
<1>2. ASSUME NEW y \in pick_next_task_rt(r) PROVE y \in Tasks /\ T[y].on_rq
  <2> PICK i \in DOMAIN r.rt : r.rt[i] # <<>> /\ y = Head(r.rt[i])
    BY <1>2 DEF pick_next_task_rt
  <2>1. y \in Tasks
    BY <1>2 DEF pick_next_task_rt
  <2>2. i \in RtRange
    BY DEF RqInv, RunQueue, RtRange
  <2> DEFINE q == r.rt[i]
  <2>3. ListOf(q, RtSet(T, i))
    BY <2>2 DEF RqInv
  <2>4. q \in Seq(Tasks) /\ q # <<>>
    BY <2>3 DEF ListOf
  <2>5. 1 \in 1 .. Len(q) /\ q[1] = y
    BY <2>4
  <2>6. OnList(q, y)
    BY <2>5 DEF OnList
  <2> QED BY <2>1, <2>3, <2>6 DEF ListOf, RtSet
<1>3. ASSUME NEW y \in pick_next_task_ras(r) PROVE y \in Tasks /\ T[y].on_rq
  <2> DEFINE q == r.ras
  <2>1. ListOf(q, RasSet(T)) /\ Len(q) # 0 /\ y = Head(q)
    BY <1>3 DEF RqInv, pick_next_task_ras
  <2>2. q \in Seq(Tasks)
    BY <2>1 DEF ListOf
  <2>3. 1 \in 1 .. Len(q) /\ q[1] = y /\ y \in Tasks
    BY <2>1, <2>2
  <2>4. OnList(q, y)
    BY <2>3 DEF OnList
  <2> QED BY <2>1, <2>3, <2>4 DEF ListOf, RasSet
<1>4. Idle \notin Tasks
  BY TaskConstants
<1> QED BY <1>1, <1>2, <1>3, <1>4 DEF pick_next_task

(***************************************************************************)
(* The inductive invariant.                                                *)
(***************************************************************************)
IInv ==
  /\ task \in [Tasks -> TaskRecord]
  /\ curr \in Tasks \cup {Idle}
  /\ need_resched \in BOOLEAN
  /\ RqInv(rq, task)
  /\ \A p \in Tasks : TaskInv(task[p])
  /\ curr # Idle => task[curr].on_rq

\* The part of IInv about a run queue r and tasks T.
StateOK(r, T) ==
  /\ T \in [Tasks -> TaskRecord]
  /\ RqInv(r, T)
  /\ \A p \in Tasks : TaskInv(T[p])

\* Changing the record of one task to t, from a state that is otherwise right.
LEMMA OneRecord ==
  ASSUME NEW T \in [Tasks -> TaskRecord], \A x \in Tasks : TaskInv(T[x]),
         NEW p \in Tasks, NEW t \in TaskRecord, TaskInv(t)
  PROVE  /\ [T EXCEPT ![p] = t] \in [Tasks -> TaskRecord]
         /\ \A x \in Tasks : TaskInv([T EXCEPT ![p] = t][x])
  OBVIOUS

\* A record that keeps on_rq, class and prio leaves the run queue right.
LEMMA QuietRecord ==
  ASSUME NEW r, NEW T, StateOK(r, T), NEW p \in Tasks, NEW t \in TaskRecord, TaskInv(t),
         t.on_rq = T[p].on_rq, t.sched_class = T[p].sched_class, t.prio = T[p].prio
  PROVE  StateOK(r, [T EXCEPT ![p] = t])
<1> DEFINE U == [T EXCEPT ![p] = t]
<1>1. /\ U \in [Tasks -> TaskRecord]
      /\ \A x \in Tasks : TaskInv(U[x])
  BY OneRecord DEF StateOK
<1>2. \A x \in Tasks : /\ U[x].on_rq = T[x].on_rq /\ U[x].prio = T[x].prio
                       /\ U[x].sched_class = T[x].sched_class
  BY DEF StateOK
<1> HIDE DEF U
<1>3. RqInv(r, U)
  BY <1>2, RqInvSame DEF StateOK
<1>4. StateOK(r, U)
  BY <1>1, <1>3 DEF StateOK
<1> QED BY <1>4 DEF U

\* Enqueueing a task that was off the run queue keeps the state in order.
LEMMA ActivateState ==
  ASSUME NEW r, NEW T, StateOK(r, T), NEW p \in Tasks, ~T[p].on_rq,
         NEW t \in TaskRecord, t.on_rq, TaskFits(t), NEW head \in BOOLEAN
  PROVE  StateOK(enqueue_task(r, p, t, head), [T EXCEPT ![p] = enqueued(t)])
  BY ActivateOK, EnqueuedOK, OneRecord DEF StateOK

\* So does dequeueing a task that was on it.
LEMMA DeactivateState ==
  ASSUME NEW r, NEW T, StateOK(r, T), NEW p \in Tasks, T[p].on_rq,
         NEW t \in TaskRecord, ~t.on_rq, TaskInv(t)
  PROVE  StateOK(dequeue_task(r, p, T[p]), [T EXCEPT ![p] = t])
<1>1. RtInRange(T[p])
  BY DEF StateOK, TaskInv, TaskFits, RtInRange
<1> QED BY <1>1, DequeueOK, OneRecord DEF StateOK

\* The dequeue/change/enqueue pattern.
LEMMA RequeueState ==
  ASSUME StateOK(rq, task), NEW p \in Tasks,
         NEW t \in TaskRecord, TaskFits(t), t.on_rq = task[p].on_rq,
         NEW head \in BOOLEAN, Requeue(p, t, head)
  PROVE  StateOK(rq', task') /\ curr' = curr /\ \A x \in Tasks : task'[x].on_rq = task[x].on_rq
<1>1. CASE t.on_rq
  <2> DEFINE o == [task[p] EXCEPT !.on_rq = FALSE]
             D == [task EXCEPT ![p] = o]
             r == dequeue_task(rq, p, task[p])
  <2>0. task \in [Tasks -> TaskRecord] /\ task[p].on_rq
    BY <1>1 DEF StateOK
  <2>1. o \in TaskRecord /\ ~o.on_rq /\ RtInRange(task[p])
    BY <2>0 DEF StateOK, TaskRecord, RtInRange, TaskInv, TaskFits
  <2>2. D \in [Tasks -> TaskRecord] /\ ~D[p].on_rq
    BY <2>0, <2>1
  <2>3. RqInv(r, D)
    BY <2>0, <2>1, DequeueOK DEF StateOK
  <2> HIDE DEF o, r
  <2>4. RqInv(enqueue_task(r, p, t, head), [D EXCEPT ![p] = enqueued(t)])
    <3> HIDE DEF D
    <3> QED BY <1>1, <2>2, <2>3, ActivateOK
  <2>5. [D EXCEPT ![p] = enqueued(t)] = [task EXCEPT ![p] = enqueued(t)]
    BY <2>0
  <2>6. task' = [task EXCEPT ![p] = enqueued(t)] /\ rq' = enqueue_task(r, p, t, head) /\ curr' = curr
    BY <1>1 DEF Requeue, r
  <2>7. enqueued(t) \in TaskRecord /\ TaskInv(enqueued(t)) /\ enqueued(t).on_rq = t.on_rq
    BY EnqueuedOK
  <2>8. task' \in [Tasks -> TaskRecord] /\ \A x \in Tasks : TaskInv(task'[x])
    BY <2>0, <2>6, <2>7, OneRecord DEF StateOK
  <2>9. \A x \in Tasks : task'[x].on_rq = task[x].on_rq
    BY <2>0, <2>6, <2>7
  <2> QED BY <2>4, <2>5, <2>6, <2>8, <2>9 DEF StateOK
<1>2. CASE ~t.on_rq
  <2>0. task \in [Tasks -> TaskRecord] /\ ~task[p].on_rq /\ RqInv(rq, task)
    BY <1>2 DEF StateOK
  <2>1. task' = [task EXCEPT ![p] = t] /\ rq' = rq /\ curr' = curr
    BY <1>2 DEF Requeue
  <2>2. RqInv(rq', task')
    BY <1>2, <2>0, <2>1, RqInvOff
  <2>3. TaskInv(t)
    BY <1>2 DEF TaskInv, SliceFits
  <2>4. task' \in [Tasks -> TaskRecord] /\ \A x \in Tasks : TaskInv(task'[x])
    BY <2>0, <2>1, <2>3, OneRecord DEF StateOK
  <2>5. \A x \in Tasks : task'[x].on_rq = task[x].on_rq
    BY <2>0, <2>1
  <2> QED BY <2>1, <2>2, <2>4, <2>5 DEF StateOK
<1> QED BY <1>1, <1>2

\* The tail of __schedule.
LEMMA SwitchState ==
  ASSUME IInv, NEW r, NEW T, StateOK(r, T), switch_to_next(r, T)
  PROVE  IInv'
<1> DEFINE q == put_prev_task(r, curr)
<1>1. RqInv(q, T)
  <2>1. curr # Idle => curr \in Tasks
    BY DEF IInv
  <2> QED BY <2>1, PutPrevRasOK DEF StateOK, put_prev_task
<1> HIDE DEF q
<1>2. task' = T /\ rq' = q /\ curr' \in pick_next_task(q, T) /\ need_resched' = FALSE
  BY DEF switch_to_next, q
<1>3. curr' \in Tasks \cup {Idle} /\ (curr' # Idle => T[curr'].on_rq)
  BY <1>1, <1>2, PickOK DEF StateOK
<1> QED BY <1>1, <1>2, <1>3 DEF IInv, StateOK

\* The preemption checks yield Booleans.
LEMMA CheckBoolean ==
  ASSUME need_resched \in BOOLEAN, NEW T, NEW p
  PROVE  check_preempt_curr(T, p) \subseteq BOOLEAN /\ check_class_changed(T, p) \subseteq BOOLEAN
<1>1. check_preempt_curr(T, p) \subseteq BOOLEAN
  BY Zenon DEF check_preempt_curr
<1>2. switched_to(T, p) \subseteq BOOLEAN
  BY <1>1, Zenon DEF switched_to
<1>3. prio_changed(T, p, task[p].prio) \subseteq BOOLEAN
  BY <1>1, Zenon DEF prio_changed
<1> QED BY <1>1, <1>2, <1>3, Zenon DEF check_class_changed

\* The first task of init_task.h fits its class and its slice.
LEMMA InitTaskOK ==
  InitTask \in TaskRecord /\ TaskInv(InitTask) /\ ~InitTask.on_rq
<1>1. /\ RAS_BG_TIMESLICE \in 0 .. UINT_MAX /\ RR_TIMESLICE \in 0 .. UINT_MAX
      /\ DEFAULT_PRIO \in MAX_RT_PRIO .. (MAX_PRIO - 1) /\ DEFAULT_PRIO \in 0 .. (MAX_PRIO - 1)
      /\ MAX_PRIO \in 0 .. MAX_PRIO /\ 0 \in 0 .. (MAX_RT_PRIO - 1)
  BY SliceConstants, TaskConstants, PrioConstants
<1>2. InitTask \in TaskRecord
  BY <1>1 DEF InitTask, TaskRecord, AllPolicies, GroupPaths, FgGroup
<1>3. /\ InitTask.sched_class = "fair" /\ InitTask.prio = DEFAULT_PRIO
      /\ InitTask.policy = "NORMAL" /\ ~InitTask.on_rq /\ ~InitTask.new
      /\ InitTask.state = "sleeping"
  BY DEF InitTask
<1>4. TaskInv(InitTask)
  BY <1>3, PrioConstants DEF TaskInv, TaskFits, SliceFits, rt_policy
<1> QED BY <1>2, <1>3, <1>4

\* A free task_struct fits too.
LEMMA DeadTaskOK ==
  /\ [InitTask EXCEPT !.state = "dead"] \in TaskRecord
  /\ TaskInv([InitTask EXCEPT !.state = "dead"])
  /\ ~[InitTask EXCEPT !.state = "dead"].on_rq
<1> DEFINE t == [InitTask EXCEPT !.state = "dead"]
<1>1. t \in TaskRecord /\ ~t.on_rq
  BY InitTaskOK DEF TaskRecord
<1>2. TaskInv(t)
  BY InitTaskOK DEF TaskRecord, TaskInv, TaskFits, SliceFits, InitTask
<1> QED BY <1>1, <1>2

\* The initial state satisfies the invariant.
LEMMA InitOK == Init => IInv
<1> SUFFICES ASSUME Init PROVE IInv
  OBVIOUS
<1>1. InitTask \in TaskRecord /\ TaskInv(InitTask) /\ ~InitTask.on_rq
  BY InitTaskOK
<1>2. task \in [Tasks -> TaskRecord] /\ \A p \in Tasks : TaskInv(task[p]) /\ ~task[p].on_rq
  BY <1>1 DEF Init
<1>3. OnRq(task) = {} /\ RasSet(task) = {} /\ \A i \in RtRange : RtSet(task, i) = {}
  BY <1>2 DEF OnRq, RasSet, RtSet
<1>4. ListOf(<<>>, {})
  BY DEF ListOf, NoDuplicates, OnList
<1>5. /\ rq \in RunQueue /\ rq.ras = <<>> /\ rq.ras_nr_running = 0 /\ rq.nr_running = 0
      /\ \A i \in RtRange : rq.rt[i] = <<>>
  BY DEF Init, RunQueue, RtRange
<1>6. RqInv(rq, task)
  BY <1>3, <1>4, <1>5, FS_EmptySet DEF RqInv
<1> QED BY <1>2, <1>6 DEF Init, IInv

\* normal_prio, rt_mutex_getprio and effective_prio stay within the priorities.
LEMMA PrioTypes ==
  ASSUME NEW t \in TaskRecord
  PROVE  /\ normal_prio(t) \in 0 .. (MAX_PRIO - 1)
         /\ rt_policy(t.policy) => normal_prio(t) < MAX_RT_PRIO
         /\ ~rt_policy(t.policy) => normal_prio(t) >= MAX_RT_PRIO
         /\ rt_mutex_getprio(t) \in 0 .. (MAX_PRIO - 1)
         /\ rt_mutex_getprio(t) <= normal_prio(t)
         /\ effective_prio(t) \in 0 .. (MAX_PRIO - 1)
<1>1. /\ t.rt_priority \in 0 .. (MAX_RT_PRIO - 1) /\ t.prio \in 0 .. (MAX_PRIO - 1)
      /\ t.static_prio \in MAX_RT_PRIO .. (MAX_PRIO - 1) /\ t.pi \in 0 .. MAX_PRIO
  BY DEF TaskRecord
<1> QED BY <1>1, PrioConstants DEF normal_prio, rt_mutex_getprio, effective_prio

\* A forked child's record is right: off the run queue, new, and of the class
\* its prio asks for.
LEMMA ForkedOK ==
  ASSUME NEW t \in TaskRecord, TaskInv(t)
  PROVE  forked(t) \in TaskRecord /\ TaskInv(forked(t)) /\ ~forked(t).on_rq
<1> DEFINE c == [t EXCEPT !.on_rq = FALSE, !.new = TRUE, !.state = "running",
                          !.pi = MAX_PRIO, !.prio = normal_prio(t)]
           pol == IF rt_policy(c.policy) THEN "NORMAL" ELSE c.policy
           rp == IF rt_policy(t.policy) THEN 0 ELSE c.rt_priority
           st == IF rt_policy(t.policy) \/ c.static_prio < DEFAULT_PRIO
                 THEN DEFAULT_PRIO ELSE c.static_prio
           reset == [c EXCEPT !.policy = pol, !.rt_priority = rp, !.static_prio = st,
                              !.reset_on_fork = FALSE]
           d == IF t.reset_on_fork THEN [reset EXCEPT !.prio = reset.static_prio] ELSE c
           cl == IF d.prio < MAX_RT_PRIO THEN d.sched_class ELSE "fair"
<1>1. forked(t) = [d EXCEPT !.sched_class = cl]
  BY DEF forked
<1>2. /\ c \in TaskRecord /\ ~c.on_rq /\ c.new /\ c.state = "running"
      /\ c.policy = t.policy /\ c.sched_class = t.sched_class /\ c.prio = normal_prio(t)
  <2> DEFINE np == normal_prio(t)
  <2>1. np \in 0 .. (MAX_PRIO - 1) /\ MAX_PRIO \in 0 .. MAX_PRIO
    BY PrioTypes, PrioConstants
  <2> HIDE DEF np
  <2>2. c = [t EXCEPT !.on_rq = FALSE, !.new = TRUE, !.state = "running",
                      !.pi = MAX_PRIO, !.prio = np]
    BY DEF np
  <2> HIDE DEF c
  <2>3. /\ c \in TaskRecord /\ ~c.on_rq /\ c.new /\ c.state = "running"
        /\ c.policy = t.policy /\ c.sched_class = t.sched_class /\ c.prio = np
    BY <2>1, <2>2 DEF TaskRecord
  <2> QED BY <2>3 DEF np
<1>3. /\ pol \in AllPolicies /\ rp \in 0 .. (MAX_RT_PRIO - 1)
      /\ st \in MAX_RT_PRIO .. (MAX_PRIO - 1) /\ ~rt_policy(pol)
  <2> HIDE DEF c
  <2>1. /\ c.policy \in AllPolicies /\ c.static_prio \in MAX_RT_PRIO .. (MAX_PRIO - 1)
        /\ c.rt_priority \in 0 .. (MAX_RT_PRIO - 1)
    BY <1>2 DEF TaskRecord
  <2> QED BY <2>1, PrioConstants DEF AllPolicies, rt_policy
<1> HIDE DEF c, pol, rp, st
<1>4. /\ reset \in TaskRecord /\ reset.policy = pol /\ reset.static_prio = st
      /\ ~reset.on_rq /\ reset.new /\ reset.state = "running"
      /\ reset.sched_class = t.sched_class
  BY <1>2, <1>3 DEF TaskRecord
<1> HIDE DEF reset
<1>5. /\ d \in TaskRecord /\ ~d.on_rq /\ d.new /\ d.state = "running"
      /\ d.sched_class = t.sched_class
      /\ d.prio < MAX_RT_PRIO => rt_policy(t.policy)
      /\ rt_policy(d.policy) => rt_policy(t.policy) /\ d.prio < MAX_RT_PRIO
  <2>1. CASE t.reset_on_fork
    <3>1. d = [reset EXCEPT !.prio = st]
      BY <1>4, <2>1
    <3>2. st \in 0 .. (MAX_PRIO - 1) /\ ~(st < MAX_RT_PRIO)
      BY <1>3, PrioConstants
    <3>3. /\ d \in TaskRecord /\ ~d.on_rq /\ d.new /\ d.state = "running"
          /\ d.sched_class = t.sched_class /\ d.policy = pol /\ d.prio = st
      BY <1>4, <3>1, <3>2 DEF TaskRecord
    <3> QED BY <1>3, <3>2, <3>3
  <2>2. CASE ~t.reset_on_fork
    <3>1. d = c
      BY <2>2
    <3>2. normal_prio(t) < MAX_RT_PRIO <=> rt_policy(t.policy)
      BY PrioTypes, PrioConstants
    <3> HIDE DEF d
    <3> QED BY <1>2, <3>1, <3>2
  <2> QED BY <2>1, <2>2
<1> HIDE DEF d
<1>6. d.prio \in Nat /\ cl \in {"rt", "ras", "fair"} /\ (d.prio < MAX_RT_PRIO => cl = "rt")
      /\ (~(d.prio < MAX_RT_PRIO) => cl = "fair")
  BY <1>5 DEF TaskRecord, TaskInv, TaskFits
<1> HIDE DEF cl
<1>7. /\ forked(t) \in TaskRecord /\ forked(t).sched_class = cl /\ forked(t).prio = d.prio
      /\ ~forked(t).on_rq /\ forked(t).new /\ forked(t).state = "running"
      /\ forked(t).policy = d.policy
  BY <1>1, <1>5, <1>6 DEF TaskRecord
<1>8. TaskInv(forked(t))
  BY <1>5, <1>6, <1>7, PrioConstants DEF TaskInv, TaskFits, SliceFits
<1> QED BY <1>7, <1>8

\* IInv in terms of StateOK.
LEMMA IInvState == IInv <=> /\ StateOK(rq, task) /\ curr \in Tasks \cup {Idle}
                            /\ need_resched \in BOOLEAN /\ (curr # Idle => task[curr].on_rq)
  BY DEF IInv, StateOK

\* A step that keeps curr and takes no task off the run queue.
LEMMA KeepCurr ==
  ASSUME IInv, StateOK(rq', task'), curr' = curr, need_resched' \in BOOLEAN,
         \A x \in Tasks : task[x].on_rq => task'[x].on_rq
  PROVE  IInv'
<1>1. curr' # Idle => task'[curr'].on_rq
  BY DEF IInv
<1> QED BY <1>1 DEF IInv, StateOK

\* Wakeups.
LEMMA StepWake ==
  ASSUME IInv, NEW p \in Tasks, try_to_wake_up(p) \/ wake_up_new_task(p)
  PROVE  IInv'
<1>0. StateOK(rq, task) /\ task[p] \in TaskRecord /\ TaskInv(task[p]) /\ need_resched \in BOOLEAN
  BY DEF IInv, StateOK
<1>1. CASE try_to_wake_up(p)
  <2> DEFINE t == [task[p] EXCEPT !.state = "running", !.on_rq = TRUE]
             T == [task EXCEPT ![p] = IF task[p].on_rq THEN t ELSE enqueued(t)]
  <2>1. /\ task[p].state = "sleeping" /\ task' = T /\ curr' = curr
        /\ rq' = IF task[p].on_rq THEN rq ELSE enqueue_task(rq, p, t, FALSE)
        /\ need_resched' \in check_preempt_curr(T, p)
    BY <1>1 DEF try_to_wake_up
  <2>2. /\ t \in TaskRecord /\ TaskFits(t) /\ t.on_rq /\ t.sched_class = task[p].sched_class
        /\ t.prio = task[p].prio /\ (task[p].on_rq => TaskInv(t))
    BY <1>0, <2>1 DEF TaskRecord, TaskInv, TaskFits, SliceFits
  <2> HIDE DEF t
  <2>3. StateOK(rq', task')
    <3>1. CASE task[p].on_rq
      BY <1>0, <2>1, <2>2, <3>1, QuietRecord
    <3>2. CASE ~task[p].on_rq
      BY <1>0, <2>1, <2>2, <3>2, ActivateState
    <3> QED BY <3>1, <3>2
  <2>4. need_resched' \in BOOLEAN
    BY <1>0, <2>1, CheckBoolean
  <2>5. enqueued(t).on_rq
    BY <2>2, EnqueuedOK
  <2>6. \A x \in Tasks : task[x].on_rq => task'[x].on_rq
    BY <1>0, <2>1, <2>2, <2>5 DEF StateOK
  <2> QED BY <2>1, <2>3, <2>4, <2>6, KeepCurr
<1>2. CASE wake_up_new_task(p)
  <2> DEFINE t == [task[p] EXCEPT !.on_rq = TRUE, !.new = FALSE]
             T == [task EXCEPT ![p] = enqueued(t)]
  <2>1. /\ task[p].state # "dead" /\ task[p].new /\ task' = T /\ curr' = curr
        /\ rq' = enqueue_task(rq, p, t, FALSE)
        /\ need_resched' \in check_preempt_curr(T, p)
    BY <1>2 DEF wake_up_new_task, Alive
  <2>2. t \in TaskRecord /\ TaskFits(t) /\ t.on_rq /\ ~task[p].on_rq
    BY <1>0, <2>1 DEF TaskRecord, TaskInv, TaskFits
  <2> HIDE DEF t
  <2>3. StateOK(rq', task')
    BY <1>0, <2>1, <2>2, ActivateState
  <2>4. need_resched' \in BOOLEAN
    BY <1>0, <2>1, CheckBoolean
  <2>5. enqueued(t).on_rq
    BY <2>2, EnqueuedOK
  <2>6. \A x \in Tasks : task[x].on_rq => task'[x].on_rq
    BY <1>0, <2>1, <2>5 DEF StateOK
  <2> QED BY <2>1, <2>3, <2>4, <2>6, KeepCurr
<1> QED BY <1>1, <1>2

\* set_current_state and sched_fork.
LEMMA StepSetState ==
  ASSUME IInv, set_current_state
  PROVE  IInv'
<1>1. curr \in Tasks /\ StateOK(rq, task) /\ task[curr] \in TaskRecord /\ TaskInv(task[curr])
      /\ task[curr].on_rq
  BY DEF IInv, StateOK, set_current_state, InSyscall
<1> DEFINE t == [task[curr] EXCEPT !.state = "sleeping"]
<1>2. task' = [task EXCEPT ![curr] = t] /\ UNCHANGED <<rq, curr, need_resched>>
  BY DEF set_current_state
<1>3. t \in TaskRecord /\ TaskInv(t) /\ t.on_rq = task[curr].on_rq
      /\ t.sched_class = task[curr].sched_class /\ t.prio = task[curr].prio
  BY <1>1 DEF TaskRecord, TaskInv, TaskFits, SliceFits
<1> HIDE DEF t
<1>4. StateOK(rq, [task EXCEPT ![curr] = t])
  BY <1>1, <1>3, QuietRecord
<1>5. \A x \in Tasks : task[x].on_rq => task'[x].on_rq
  BY <1>1, <1>2, <1>3 DEF StateOK
<1> QED BY <1>2, <1>4, <1>5, KeepCurr DEF IInv

\* sched_fork keeps the invariant.
LEMMA StepFork ==
  ASSUME IInv, NEW c \in Tasks, sched_fork(c)
  PROVE  IInv'
<1>1. /\ curr \in Tasks /\ StateOK(rq, task) /\ task[curr] \in TaskRecord
      /\ TaskInv(task[curr]) /\ TaskInv(task[c]) /\ task[c].state = "dead"
  BY DEF IInv, StateOK, sched_fork, InSyscall, Alive
<1> DEFINE t == forked(task[curr])
<1>2. task' = [task EXCEPT ![c] = t] /\ UNCHANGED <<rq, curr, need_resched>>
  BY DEF sched_fork
<1>3. t \in TaskRecord /\ TaskInv(t) /\ ~t.on_rq
  BY <1>1, ForkedOK
<1> HIDE DEF t
<1>4. ~task[c].on_rq
  BY <1>1 DEF TaskInv, TaskFits
<1>5. RqInv(rq, [task EXCEPT ![c] = t])
  BY <1>1, <1>3, <1>4, RqInvOff DEF StateOK
<1>6. /\ task' \in [Tasks -> TaskRecord]
      /\ \A x \in Tasks : TaskInv(task'[x])
  BY <1>1, <1>2, <1>3, OneRecord DEF StateOK
<1>7. \A x \in Tasks : task[x].on_rq => task'[x].on_rq
  BY <1>1, <1>2, <1>4 DEF StateOK
<1> QED BY <1>2, <1>5, <1>6, <1>7, KeepCurr DEF IInv, StateOK

\* The ways into __schedule.
LEMMA StepSchedule ==
  ASSUME IInv,
         preempt_schedule \/ schedule_sleep \/ schedule_signal \/ do_exit \/ sched_yield
  PROVE  IInv'
<1>0. StateOK(rq, task)
  BY DEF IInv, StateOK
<1>1. CASE preempt_schedule
  BY <1>0, <1>1, SwitchState DEF preempt_schedule
<1>2. ASSUME curr # Idle
      PROVE  curr \in Tasks /\ task[curr] \in TaskRecord /\ TaskInv(task[curr]) /\ task[curr].on_rq
  BY <1>2 DEF IInv
<1>3. CASE schedule_sleep
  <2> DEFINE t == [task[curr] EXCEPT !.on_rq = FALSE]
  <2>1. curr # Idle /\ task[curr].state = "sleeping"
        /\ switch_to_next(dequeue_task(rq, curr, task[curr]), [task EXCEPT ![curr] = t])
    BY <1>3 DEF schedule_sleep
  <2>2. t \in TaskRecord /\ ~t.on_rq /\ TaskInv(t)
    BY <1>2, <2>1 DEF TaskRecord, TaskInv, TaskFits, SliceFits
  <2> HIDE DEF t
  <2>3. StateOK(dequeue_task(rq, curr, task[curr]), [task EXCEPT ![curr] = t])
    BY <1>0, <1>2, <2>1, <2>2, DeactivateState
  <2> QED BY <2>1, <2>3, SwitchState
<1>4. CASE schedule_signal
  <2> DEFINE t == [task[curr] EXCEPT !.state = "running"]
  <2>1. curr # Idle /\ task[curr].state = "sleeping"
        /\ switch_to_next(rq, [task EXCEPT ![curr] = t])
    BY <1>4 DEF schedule_signal
  <2>2. t \in TaskRecord /\ TaskInv(t) /\ t.on_rq = task[curr].on_rq
        /\ t.sched_class = task[curr].sched_class /\ t.prio = task[curr].prio
    BY <1>2, <2>1 DEF TaskRecord, TaskInv, TaskFits, SliceFits
  <2> HIDE DEF t
  <2>3. StateOK(rq, [task EXCEPT ![curr] = t])
    BY <1>0, <1>2, <2>1, <2>2, QuietRecord
  <2> QED BY <2>1, <2>3, SwitchState
<1>5. CASE do_exit
  <2> DEFINE t == [InitTask EXCEPT !.state = "dead"]
  <2>1. curr # Idle
        /\ switch_to_next(dequeue_task(rq, curr, task[curr]), [task EXCEPT ![curr] = t])
    BY <1>5 DEF do_exit, InSyscall
  <2>2. t \in TaskRecord /\ ~t.on_rq /\ TaskInv(t)
    BY DeadTaskOK
  <2> HIDE DEF t
  <2>3. StateOK(dequeue_task(rq, curr, task[curr]), [task EXCEPT ![curr] = t])
    BY <1>0, <1>2, <2>1, <2>2, DeactivateState
  <2> QED BY <2>1, <2>3, SwitchState
<1>6. CASE sched_yield
  <2>1. curr # Idle /\ switch_to_next(yield_task(rq, curr), task)
    BY <1>6 DEF sched_yield, InSyscall
  <2>2. RtInRange(task[curr])
    BY <1>2, <2>1 DEF TaskInv, TaskFits, RtInRange
  <2>3. StateOK(yield_task(rq, curr), task)
    BY <1>0, <1>2, <2>1, <2>2, YieldOK DEF StateOK
  <2> QED BY <2>1, <2>3, SwitchState
<1> QED BY <1>1, <1>3, <1>4, <1>5, <1>6

\* schedule() of a workqueue thread that wakes another keeps the invariant.
LEMMA StepWorker ==
  ASSUME IInv, NEW w \in Workers, schedule_worker(w)
  PROVE  IInv'
<1>0. StateOK(rq, task) /\ w \in Tasks /\ curr \in Tasks /\ w # curr
  BY TaskConstants DEF IInv, StateOK, schedule_worker
<1>1. /\ task[curr] \in TaskRecord /\ TaskInv(task[curr]) /\ task[curr].on_rq
      /\ task[w] \in TaskRecord /\ TaskInv(task[w])
  BY <1>0, TaskConstants DEF IInv
<1> DEFINE t == [task[w] EXCEPT !.state = "running", !.on_rq = TRUE]
           o == [task[curr] EXCEPT !.on_rq = FALSE]
           n == IF task[w].on_rq THEN t ELSE enqueued(t)
           T == [task EXCEPT ![curr].on_rq = FALSE, ![w] = n]
           r == dequeue_task(rq, curr, task[curr])
           D == [task EXCEPT ![curr] = o]
<1>2. /\ task[curr].state = "sleeping" /\ task[w].state = "sleeping"
      /\ switch_to_next(IF task[w].on_rq THEN r ELSE enqueue_task(r, w, t, FALSE), T)
  BY DEF schedule_worker
<1>3. o \in TaskRecord /\ ~o.on_rq /\ TaskInv(o)
  BY <1>1, <1>2 DEF TaskRecord, TaskInv, TaskFits, SliceFits
<1>4. /\ t \in TaskRecord /\ TaskFits(t) /\ t.on_rq /\ t.sched_class = task[w].sched_class
      /\ t.prio = task[w].prio /\ (task[w].on_rq => TaskInv(t))
  BY <1>1, <1>2 DEF TaskRecord, TaskInv, TaskFits, SliceFits
<1>5. D[w] = task[w] /\ T = [D EXCEPT ![w] = n]
  BY <1>0 DEF StateOK
<1> HIDE DEF o, t, r
<1>6. StateOK(r, D)
  BY <1>0, <1>1, <1>3, DeactivateState DEF r
<1> HIDE DEF D
<1>7. CASE task[w].on_rq
  <2>1. T = [D EXCEPT ![w] = t]
    BY <1>5, <1>7
  <2> HIDE DEF T
  <2>2. /\ t.on_rq = D[w].on_rq /\ t.sched_class = D[w].sched_class
        /\ t.prio = D[w].prio /\ TaskInv(t) /\ t \in TaskRecord
    BY <1>1, <1>4, <1>5, <1>7 DEF TaskRecord
  <2>3. StateOK(r, [D EXCEPT ![w] = t])
    BY <1>0, <1>6, <2>2, QuietRecord
  <2> QED BY <1>2, <1>7, <2>1, <2>3, SwitchState
<1>8. CASE ~task[w].on_rq
  <2>1. T = [D EXCEPT ![w] = enqueued(t)]
    BY <1>5, <1>8
  <2> HIDE DEF T
  <2>2. ~D[w].on_rq /\ TaskFits(t) /\ t.on_rq /\ t \in TaskRecord
    BY <1>4, <1>5, <1>8
  <2>3. StateOK(enqueue_task(r, w, t, FALSE), [D EXCEPT ![w] = enqueued(t)])
    BY <1>0, <1>6, <2>2, ActivateState
  <2> QED BY <1>2, <1>8, <2>1, <2>3, SwitchState
<1> QED BY <1>7, <1>8

\* scheduler_tick keeps the invariant: a slice that reaches 0 is refilled.
LEMMA StepTick ==
  ASSUME IInv, scheduler_tick
  PROVE  IInv'
<1>0. /\ curr \in Tasks /\ curr # Idle /\ StateOK(rq, task) /\ task[curr] \in TaskRecord
      /\ TaskInv(task[curr]) /\ task[curr].on_rq /\ curr' = curr /\ need_resched \in BOOLEAN
  BY DEF IInv, StateOK, scheduler_tick
<1>1. ASSUME NEW t \in TaskRecord, TaskInv(t), t.on_rq = task[curr].on_rq,
             t.sched_class = task[curr].sched_class, t.prio = task[curr].prio,
             task' = [task EXCEPT ![curr] = t], RqInv(rq', task), need_resched' \in BOOLEAN
      PROVE  IInv'
  <2>1. StateOK(rq', task)
    BY <1>0, <1>1 DEF StateOK
  <2>2. StateOK(rq', task')
    BY <1>0, <1>1, <2>1, QuietRecord
  <2>3. \A x \in Tasks : task[x].on_rq => task'[x].on_rq
    BY <1>0, <1>1 DEF StateOK
  <2> QED BY <1>0, <1>1, <2>2, <2>3, KeepCurr
<1>2. RqInv(rq, task) /\ RqInv(put_prev_task_ras(rq, curr), task) /\ RqInv(yield_task(rq, curr), task)
  <2>1. RtInRange(task[curr])
    BY <1>0 DEF TaskInv, TaskFits, RtInRange
  <2> QED BY <1>0, <2>1, PutPrevRasOK, YieldOK DEF StateOK
<1>3. CASE task[curr].sched_class = "ras" /\ task_tick_ras
  <2> DEFINE left == IF task[curr].time_slice = 0 THEN UINT_MAX ELSE task[curr].time_slice - 1
  <2>1. task[curr].time_slice \in 1 .. MaxSlice /\ MaxSlice \in Nat /\ MaxSlice < UINT_MAX
    BY <1>0, <1>3, SliceConstants DEF TaskInv, SliceFits, TaskRecord, MaxSlice
  <2>2. CASE left # 0
    <3> DEFINE t == [task[curr] EXCEPT !.time_slice = left]
    <3>1. left \in 1 .. MaxSlice /\ left \in 0 .. UINT_MAX
      BY <2>1, <2>2, SliceConstants
    <3>2. task' = [task EXCEPT ![curr] = t] /\ rq' = rq /\ need_resched' = need_resched
      BY <1>3, <2>2 DEF task_tick_ras
    <3> HIDE DEF left
    <3>3. /\ t \in TaskRecord /\ t.on_rq = task[curr].on_rq /\ t.policy = task[curr].policy
          /\ t.sched_class = task[curr].sched_class /\ t.prio = task[curr].prio
          /\ t.state = task[curr].state /\ t.new = task[curr].new /\ t.time_slice = left
      BY <1>0, <3>1 DEF TaskRecord
    <3> HIDE DEF t
    <3>4. TaskFits(t)
      BY <1>0, <3>3 DEF TaskInv, TaskFits
    <3>5. SliceFits(t)
      BY <2>1, <3>1, <3>3 DEF SliceFits
    <3>6. TaskInv(t)
      BY <3>4, <3>5 DEF TaskInv
    <3> QED BY <1>0, <1>1, <1>2, <3>2, <3>3, <3>6
  <2>3. CASE left = 0
    <3> DEFINE t == refill(task[curr])
    <3>1. /\ task' = [task EXCEPT ![curr] = t]
          /\ rq' = put_prev_task_ras(rq, curr) \/ rq' = rq
          /\ need_resched' = TRUE \/ need_resched' = need_resched
      BY <1>3, <2>3 DEF task_tick_ras
    <3>2. t \in TaskRecord /\ TaskInv(t) /\ t.on_rq = task[curr].on_rq
          /\ t.sched_class = task[curr].sched_class /\ t.prio = task[curr].prio
      BY <1>0, RefillOK DEF TaskInv
    <3> HIDE DEF t
    <3> QED BY <1>0, <1>1, <1>2, <3>1, <3>2
  <2> QED BY <2>2, <2>3
<1>4. CASE task[curr].sched_class = "rt" /\ task_tick_rt
  <2> DEFINE left == IF task[curr].rr_slice = 0 THEN UINT_MAX ELSE task[curr].rr_slice - 1
             v == IF left # 0 THEN left ELSE RR_TIMESLICE
             t == [task[curr] EXCEPT !.rr_slice = v]
  <2>1. v \in 0 .. UINT_MAX
    BY <1>0, SliceConstants, TaskConstants DEF TaskRecord
  <2>2. /\ task' = [task EXCEPT ![curr] = t]
        /\ rq' = yield_task(rq, curr) \/ rq' = rq
        /\ need_resched' = TRUE \/ need_resched' = need_resched
    BY <1>4 DEF task_tick_rt
  <2> HIDE DEF v
  <2>3. t \in TaskRecord /\ TaskInv(t) /\ t.on_rq = task[curr].on_rq
        /\ t.sched_class = task[curr].sched_class /\ t.prio = task[curr].prio
    BY <1>0, <2>1 DEF TaskRecord, TaskInv, TaskFits, SliceFits
  <2> HIDE DEF t
  <2> QED BY <1>0, <1>1, <1>2, <2>2, <2>3
<1>5. CASE task[curr].sched_class = "fair" /\ need_resched' = TRUE /\ UNCHANGED <<task, rq>>
  BY <1>0, <1>5 DEF IInv
<1> QED BY <1>3, <1>4, <1>5 DEF scheduler_tick

\* The dequeue/change/enqueue actions, once the new record is known to fit.
LEMMA StepRequeue ==
  ASSUME IInv, NEW p \in Tasks, NEW t \in TaskRecord, TaskFits(t),
         t.on_rq = task[p].on_rq, NEW head \in BOOLEAN, Requeue(p, t, head),
         need_resched' \in BOOLEAN
  PROVE  IInv'
<1>1. StateOK(rq, task)
  BY DEF IInv, StateOK
<1>2. StateOK(rq', task') /\ curr' = curr /\ \A x \in Tasks : task'[x].on_rq = task[x].on_rq
  BY <1>1, RequeueState
<1> QED BY <1>2, KeepCurr

\* sched_setscheduler keeps the invariant: the new class fits the new prio.
LEMMA StepSetscheduler ==
  ASSUME IInv, NEW p \in Tasks, NEW pol \in Policies, NEW rtprio \in RtPriorities \cup {0},
         NEW reset \in ResetFlags, sched_setscheduler(p, pol, rtprio, reset)
  PROVE  IInv'
<1>0. task[p] \in TaskRecord /\ TaskInv(task[p]) /\ need_resched \in BOOLEAN
  BY DEF IInv
<1> DEFINE c == [task[p] EXCEPT !.policy = pol, !.rt_priority = rtprio, !.reset_on_fork = reset]
           pr == rt_mutex_getprio(c)
           d == [c EXCEPT !.prio = pr]
           cl == class_of(pol, pr)
           t == [d EXCEPT !.sched_class = class_of(pol, d.prio)]
<1>1. /\ Requeue(p, t, FALSE)
      /\ need_resched' \in check_class_changed([task EXCEPT ![p] = t], p)
  BY DEF sched_setscheduler
<1>2. /\ pol \in AllPolicies /\ rtprio \in 0 .. (MAX_RT_PRIO - 1) /\ reset \in BOOLEAN
  BY TaskConstants, PrioConstants
<1>3. /\ c \in TaskRecord /\ c.policy = pol /\ c.on_rq = task[p].on_rq
      /\ c.state = task[p].state /\ c.new = task[p].new
  BY <1>0, <1>2 DEF TaskRecord
<1> HIDE DEF c
<1>4. /\ pr \in 0 .. (MAX_PRIO - 1)
      /\ rt_policy(pol) => pr < MAX_RT_PRIO
  BY <1>3, PrioTypes, PrioConstants
<1> HIDE DEF pr
<1>5. /\ d \in TaskRecord /\ d.prio = pr /\ d.policy = pol /\ d.on_rq = task[p].on_rq
      /\ d.state = task[p].state /\ d.new = task[p].new
  BY <1>3, <1>4 DEF TaskRecord
<1> HIDE DEF d
<1>6. /\ cl \in {"rt", "ras", "fair"} /\ (cl = "ras" => pol = "RAS")
      /\ (cl = "rt" => pr < MAX_RT_PRIO) /\ (cl = "fair" => pr >= MAX_RT_PRIO)
      /\ (rt_policy(pol) => cl = "rt")
  BY <1>4, PrioConstants DEF class_of, rt_policy
<1>7. t = [d EXCEPT !.sched_class = cl]
  BY <1>5
<1> HIDE DEF cl, t
<1>8. /\ t \in TaskRecord /\ t.sched_class = cl /\ t.prio = pr /\ t.policy = pol
      /\ t.on_rq = task[p].on_rq /\ t.state = task[p].state /\ t.new = task[p].new
  BY <1>5, <1>6, <1>7 DEF TaskRecord
<1>9. TaskFits(t)
  BY <1>0, <1>6, <1>8 DEF TaskInv, TaskFits
<1>10. need_resched' \in BOOLEAN
  BY <1>0, <1>1, CheckBoolean
<1> QED BY <1>1, <1>8, <1>9, <1>10, StepRequeue

\* set_user_nice keeps the invariant.
LEMMA StepNice ==
  ASSUME IInv, NEW p \in Tasks, NEW n \in NicePrios, set_user_nice(p, n)
  PROVE  IInv'
<1>0. task[p] \in TaskRecord /\ TaskInv(task[p]) /\ need_resched \in BOOLEAN /\ StateOK(rq, task)
  BY DEF IInv, StateOK
<1>1. n \in MAX_RT_PRIO .. (MAX_PRIO - 1)
  BY PrioConstants
<1> DEFINE c == [task[p] EXCEPT !.static_prio = n]
<1>2. /\ c \in TaskRecord /\ TaskInv(c) /\ c.on_rq = task[p].on_rq /\ c.prio = task[p].prio
      /\ c.sched_class = task[p].sched_class /\ c.policy = task[p].policy
      /\ c.state = task[p].state /\ c.new = task[p].new
  BY <1>0, <1>1 DEF TaskRecord, TaskInv, TaskFits, SliceFits
<1>3. CASE rt_policy(task[p].policy)
  <2>1. task' = [task EXCEPT ![p] = c] /\ UNCHANGED <<rq, curr, need_resched>>
    BY <1>3 DEF set_user_nice
  <2> HIDE DEF c
  <2>2. StateOK(rq', task')
    BY <1>0, <1>2, <2>1, QuietRecord
  <2>3. \A x \in Tasks : task[x].on_rq => task'[x].on_rq
    BY <1>0, <1>2, <2>1 DEF StateOK
  <2> QED BY <1>0, <2>1, <2>2, <2>3, KeepCurr
<1>4. CASE ~rt_policy(task[p].policy)
  <2> DEFINE pr == effective_prio(c)
             t == [c EXCEPT !.prio = pr]
  <2>1. Requeue(p, t, FALSE) /\ need_resched' \in BOOLEAN
    BY <1>4, Zenon DEF set_user_nice
  <2> HIDE DEF c
  <2>2. /\ pr \in 0 .. (MAX_PRIO - 1)
        /\ (c.prio < MAX_RT_PRIO => pr < MAX_RT_PRIO)
        /\ (c.prio >= MAX_RT_PRIO => pr >= MAX_RT_PRIO)
    <3>1. c.prio \in Nat /\ ~rt_policy(c.policy)
      BY <1>2, <1>4 DEF TaskRecord
    <3> QED BY <1>2, <3>1, PrioTypes, PrioConstants DEF effective_prio
  <2> HIDE DEF pr
  <2>3. /\ t \in TaskRecord /\ t.on_rq = c.on_rq /\ t.prio = pr /\ t.policy = c.policy
        /\ t.sched_class = c.sched_class /\ t.state = c.state /\ t.new = c.new
    BY <1>2, <2>2 DEF TaskRecord
  <2>4. TaskFits(t)
    <3> HIDE DEF t
    <3> QED BY <1>2, <2>2, <2>3 DEF TaskInv, TaskFits
  <2> HIDE DEF t
  <2> QED BY <1>2, <2>1, <2>3, <2>4, StepRequeue
<1> QED BY <1>3, <1>4

\* rt_mutex_setprio keeps the invariant, boosting and deboosting.
LEMMA StepBoost ==
  ASSUME IInv, NEW p \in Tasks, NEW pi \in BoostPrios \cup {MAX_PRIO}, rt_mutex_setprio(p, pi)
  PROVE  IInv'
<1>0. task[p] \in TaskRecord /\ TaskInv(task[p]) /\ need_resched \in BOOLEAN /\ StateOK(rq, task)
  BY DEF IInv, StateOK
<1>1. pi \in 0 .. MAX_PRIO
  BY PrioConstants
<1> DEFINE c == [task[p] EXCEPT !.pi = pi]
           pr == rt_mutex_getprio(c)
           cl == class_of(c.policy, pr)
           t == [c EXCEPT !.prio = pr, !.sched_class = cl]
<1>2. /\ c \in TaskRecord /\ TaskInv(c) /\ c.on_rq = task[p].on_rq /\ c.prio = task[p].prio
      /\ c.sched_class = task[p].sched_class /\ c.policy = task[p].policy
      /\ c.state = task[p].state /\ c.new = task[p].new
  BY <1>0, <1>1 DEF TaskRecord, TaskInv, TaskFits, SliceFits
<1>3. CASE pr = task[p].prio
  <2>1. task' = [task EXCEPT ![p] = c] /\ UNCHANGED <<rq, curr, need_resched>>
    BY <1>3 DEF rt_mutex_setprio
  <2> HIDE DEF c
  <2>2. StateOK(rq', task')
    BY <1>0, <1>2, <2>1, QuietRecord
  <2>3. \A x \in Tasks : task[x].on_rq => task'[x].on_rq
    BY <1>0, <1>2, <2>1 DEF StateOK
  <2> QED BY <1>0, <2>1, <2>2, <2>3, KeepCurr
<1>4. CASE pr # task[p].prio
  <2>1. /\ Requeue(p, t, task[p].prio < pr)
        /\ need_resched' \in check_class_changed([task EXCEPT ![p] = t], p)
    BY <1>4 DEF rt_mutex_setprio
  <2> HIDE DEF c
  <2>2. /\ pr \in 0 .. (MAX_PRIO - 1)
        /\ rt_policy(c.policy) => pr < MAX_RT_PRIO
    BY <1>2, PrioTypes, PrioConstants
  <2> HIDE DEF pr
  <2>3. /\ cl \in {"rt", "ras", "fair"} /\ (cl = "ras" => c.policy = "RAS")
        /\ (cl = "rt" => pr < MAX_RT_PRIO) /\ (cl = "fair" => pr >= MAX_RT_PRIO)
        /\ (rt_policy(c.policy) => cl = "rt")
    BY <2>2, PrioConstants DEF class_of, rt_policy
  <2> HIDE DEF cl
  <2>4. /\ t \in TaskRecord /\ t.on_rq = c.on_rq /\ t.prio = pr /\ t.policy = c.policy
        /\ t.sched_class = cl /\ t.state = c.state /\ t.new = c.new
    BY <1>2, <2>2, <2>3 DEF TaskRecord
  <2> HIDE DEF t
  <2>5. TaskFits(t)
    BY <1>2, <2>3, <2>4 DEF TaskInv, TaskFits
  <2>6. need_resched' \in BOOLEAN
    BY <1>0, <2>1, CheckBoolean
  <2>7. CASE task[p].prio < pr
    <3>1. (task[p].prio < pr) = TRUE
      BY <2>7
    <3>2. Requeue(p, t, TRUE)
      BY <2>1, <3>1
    <3> QED BY <1>2, <2>4, <2>5, <2>6, <3>2, StepRequeue
  <2>8. CASE ~(task[p].prio < pr)
    <3>1. (task[p].prio < pr) = FALSE
      BY <2>8
    <3>2. Requeue(p, t, FALSE)
      BY <2>1, <3>1
    <3> QED BY <1>2, <2>4, <2>5, <2>6, <3>2, StepRequeue
  <2> QED BY <2>7, <2>8
<1> QED BY <1>3, <1>4

\* sched_move_task keeps the invariant.
LEMMA StepMove ==
  ASSUME IInv, NEW p \in Tasks, NEW g \in Groups, sched_move_task(p, g)
  PROVE  IInv'
<1>0. task[p] \in TaskRecord /\ TaskInv(task[p]) /\ need_resched \in BOOLEAN
  BY DEF IInv
<1> DEFINE t == [task[p] EXCEPT !.group = g]
<1>1. Requeue(p, t, FALSE) /\ need_resched' = need_resched
  BY DEF sched_move_task
<1>2. g \in GroupPaths
  BY TaskConstants
<1>3. t \in TaskRecord /\ TaskFits(t) /\ t.on_rq = task[p].on_rq
  BY <1>0, <1>2 DEF TaskRecord, TaskInv, TaskFits
<1> HIDE DEF t
<1> QED BY <1>0, <1>1, <1>3, StepRequeue

\* wcounts and the slice refresh of sched_rr_get_interval leave the lists alone.
LEMMA StepQuiet ==
  ASSUME IInv, NEW p \in Tasks,
         sched_rr_get_interval(p) \/ \E w \in WCounts : set_wcounts(p, w)
  PROVE  IInv'
<1>0. task[p] \in TaskRecord /\ TaskInv(task[p]) /\ need_resched \in BOOLEAN /\ StateOK(rq, task)
  BY DEF IInv, StateOK
<1>1. ASSUME NEW t \in TaskRecord, TaskInv(t), t.on_rq = task[p].on_rq,
             t.sched_class = task[p].sched_class, t.prio = task[p].prio,
             task' = [task EXCEPT ![p] = t], UNCHANGED <<rq, curr, need_resched>>
      PROVE  IInv'
  <2>1. StateOK(rq', task')
    BY <1>0, <1>1, QuietRecord
  <2>2. \A x \in Tasks : task[x].on_rq => task'[x].on_rq
    BY <1>0, <1>1 DEF StateOK
  <2> QED BY <1>0, <1>1, <2>1, <2>2, KeepCurr
<1>2. CASE sched_rr_get_interval(p)
  <2> DEFINE t == refill(task[p])
  <2>1. task' = [task EXCEPT ![p] = t] /\ UNCHANGED <<rq, curr, need_resched>>
    BY <1>2 DEF sched_rr_get_interval
  <2>2. t \in TaskRecord /\ TaskInv(t) /\ t.on_rq = task[p].on_rq
        /\ t.sched_class = task[p].sched_class /\ t.prio = task[p].prio
    BY <1>0, RefillOK DEF TaskInv
  <2> HIDE DEF t
  <2> QED BY <1>1, <2>1, <2>2
<1>3. ASSUME NEW w \in WCounts, set_wcounts(p, w) PROVE IInv'
  <2> DEFINE t == [task[p] EXCEPT !.wcounts = w]
  <2>1. task' = [task EXCEPT ![p] = t] /\ UNCHANGED <<rq, curr, need_resched>>
    BY <1>3 DEF set_wcounts
  <2>2. w \in Nat
    BY TaskConstants
  <2>3. t \in TaskRecord /\ TaskInv(t) /\ t.on_rq = task[p].on_rq
        /\ t.sched_class = task[p].sched_class /\ t.prio = task[p].prio
    BY <1>0, <2>2 DEF TaskRecord, TaskInv, TaskFits, SliceFits
  <2> HIDE DEF t
  <2> QED BY <1>1, <2>1, <2>3
<1> QED BY <1>2, <1>3

\* IInv is inductive: one step per action of Next.
LEMMA Inductive ==
  ASSUME IInv, [Next]_vars
  PROVE  IInv'
<1>1. CASE Wakeups
  BY <1>1, StepWake DEF Wakeups
<1>2. CASE Scheduling
  BY <1>2, StepSetState, StepSchedule, StepWorker DEF Scheduling
<1>3. CASE Lifecycle
  BY <1>3, StepSchedule, StepFork DEF Lifecycle
<1>4. CASE scheduler_tick
  BY <1>4, StepTick
<1>5. CASE sched_yield
  BY <1>5, StepSchedule
<1>6. CASE Parameters
  BY <1>6, StepSetscheduler, StepNice, StepBoost, StepMove, StepQuiet DEF Parameters
<1>7. CASE Polling
  BY <1>7, StepQuiet, TaskConstants DEF Polling
<1>8. CASE UNCHANGED vars
  BY <1>8 DEF vars, IInv, RqInv, OnRq, RasSet, RtSet
<1> QED BY <1>1, <1>2, <1>3, <1>4, <1>5, <1>6, <1>7, <1>8 DEF Next

\* The invariants the runs check follow from IInv.
LEMMA IInvImplies ==
  ASSUME IInv
  PROVE  /\ TypeOK /\ ListsMatchTasks /\ CountersMatchLists /\ SliceInRange
         /\ NoLostWakeup /\ ClassFitsPrio
<1>1. TypeOK
  BY DEF IInv, RqInv, TypeOK
<1>2. ListsMatchTasks
  BY DEF IInv, RqInv, ListOf, RasSet, RtSet, RtRange, ListsMatchTasks
<1>3. CountersMatchLists
  BY DEF IInv, RqInv, CountersMatchLists, OnRq, Runnable
<1>4. SliceInRange
  BY DEF IInv, TaskInv, SliceFits, SliceInRange
<1>5. NoLostWakeup
  BY DEF IInv, TaskInv, TaskFits, NoLostWakeup
<1>6. ClassFitsPrio
  <2>1. \A p \in Tasks : task[p].sched_class \in {"rt", "ras", "fair"}
    BY DEF IInv, TaskRecord
  <2> QED BY <2>1 DEF IInv, TaskInv, TaskFits, ClassFitsPrio
<1> QED BY <1>1, <1>2, <1>3, <1>4, <1>5, <1>6

\* IInv holds in every reachable state.
LEMMA IInvAlways == Spec => []IInv
<1>1. Init => IInv
  BY InitOK
<1>2. IInv /\ [Next]_vars => IInv'
  BY Inductive
<1> QED BY <1>1, <1>2, PTL DEF Spec

\* The variables keep their types: in particular pick_next_task never picks
\* anything but a task or the idle task.
THEOREM TypeCorrect == Spec => []TypeOK
  BY IInvAlways, IInvImplies, PTL

\* The run lists hold exactly the runnable tasks of their class and prio.
THEOREM ListsCorrect == Spec => []ListsMatchTasks
  BY IInvAlways, IInvImplies, PTL

\* ras_nr_running and nr_running count the queued tasks.
THEOREM CountersCorrect == Spec => []CountersMatchLists
  BY IInvAlways, IInvImplies, PTL

\* The slice of a queued RAS task never reaches 0, so it cannot wrap.
THEOREM SlicesCorrect == Spec => []SliceInRange
  BY IInvAlways, IInvImplies, PTL

\* No wakeup is lost and the running task is queued.
THEOREM WakeupsCorrect == Spec => []NoLostWakeup
  BY IInvAlways, IInvImplies, PTL

\* A task's class fits its prio and policy.
THEOREM ClassesCorrect == Spec => []ClassFitsPrio
  BY IInvAlways, IInvImplies, PTL

\* Types, run lists, counters and classes agree in every reachable state.
THEOREM RunQueueCorrect == Spec => []RunQueueSound
<1>1. TypeOK /\ ListsMatchTasks /\ CountersMatchLists /\ ClassFitsPrio => RunQueueSound
  BY DEF RunQueueSound
<1> QED  BY <1>1, TypeCorrect, ListsCorrect, CountersCorrect, ClassesCorrect, PTL

-----------------------------------------------------------------------------
(* Where policy and class come apart. *)

\* A fresh slice and a place on a run list change neither policy nor class.
LEMMA EnqueuedPlace ==
  ASSUME NEW t \in TaskRecord
  PROVE  /\ Misplaced(enqueued(t)) <=> Misplaced(t)
         /\ Misplaced(refill(t)) <=> Misplaced(t)
  BY DEF enqueued, refill, Misplaced, TaskRecord

\* A record that keeps policy, class and life of the task's old record.
LEMMA SamePlace ==
  ASSUME task \in [Tasks -> TaskRecord], NEW p \in Tasks, NEW t,
         Misplaced(t) => Misplaced(task[p]) \/ t.new,
         task' = [task EXCEPT ![p] = t], NEW x \in Tasks, Misplaced(task'[x])
  PROVE  Misplaced(task[x]) \/ task'[x].new
<1>1. CASE x = p
  BY <1>1
<1>2. CASE x # p
  BY <1>2
<1> QED  BY <1>1, <1>2

\* A step misplaces no task but one that it creates: sched_fork alone leaves a task whose
\* class does not fit its priority.
LEMMA PlaceKept ==
  ASSUME IInv, Next, NEW x \in Tasks, Misplaced(task'[x])
  PROVE  Misplaced(task[x]) \/ task'[x].new
<1>0. /\ task \in [Tasks -> TaskRecord] /\ curr \in Tasks \cup {Idle}
      /\ \A p \in Tasks : task[p] \in TaskRecord
  BY DEF IInv
<1>1. ASSUME NEW p \in Tasks, try_to_wake_up(p) \/ wake_up_new_task(p)
      PROVE  Misplaced(task[x]) \/ task'[x].new
  <2>1. CASE try_to_wake_up(p)
    <3> DEFINE t == [task[p] EXCEPT !.state = "running", !.on_rq = TRUE]
               u == IF task[p].on_rq THEN t ELSE enqueued(t)
    <3>1. t \in TaskRecord /\ (Misplaced(t) => Misplaced(task[p]))
      BY <1>0, <2>1 DEF Misplaced, TaskRecord, try_to_wake_up
    <3>2. task' = [task EXCEPT ![p] = u]
      BY <2>1 DEF try_to_wake_up
    <3>3. Misplaced(u) => Misplaced(task[p])
      BY <3>1, EnqueuedPlace
    <3> QED  BY <1>0, <3>2, <3>3, SamePlace
  <2>2. CASE wake_up_new_task(p)
    <3> DEFINE t == [task[p] EXCEPT !.on_rq = TRUE, !.new = FALSE]
    <3>1. t \in TaskRecord /\ (Misplaced(t) => Misplaced(task[p]))
      BY <1>0, <2>2 DEF Misplaced, TaskRecord, wake_up_new_task
    <3>2. task' = [task EXCEPT ![p] = enqueued(t)]
      BY <2>2 DEF wake_up_new_task
    <3>3. Misplaced(enqueued(t)) => Misplaced(task[p])
      BY <3>1, EnqueuedPlace
    <3> QED  BY <1>0, <3>2, <3>3, SamePlace
  <2> QED  BY <1>1, <2>1, <2>2
<1>2. CASE Scheduling \/ sched_yield
  <2>1. CASE set_current_state
    BY <1>0, <2>1 DEF set_current_state, InSyscall, Misplaced, TaskRecord
  <2>2. CASE preempt_schedule \/ sched_yield
    BY <2>2 DEF preempt_schedule, sched_yield, switch_to_next
  <2>3. CASE schedule_sleep
    <3>1. task' = [task EXCEPT ![curr].on_rq = FALSE] /\ curr \in Tasks
      BY <1>0, <2>3 DEF schedule_sleep, switch_to_next
    <3> QED  BY <1>0, <3>1 DEF Misplaced, TaskRecord
  <2>4. CASE schedule_signal
    <3>1. /\ task' = [task EXCEPT ![curr].state = "running"] /\ curr \in Tasks
          /\ task[curr].state = "sleeping"
      BY <1>0, <2>4 DEF schedule_signal, switch_to_next
    <3> QED  BY <1>0, <3>1 DEF Misplaced, TaskRecord
  <2>5. ASSUME NEW w \in Workers, schedule_worker(w)
        PROVE  Misplaced(task[x]) \/ task'[x].new
    <3> DEFINE t == [task[w] EXCEPT !.state = "running", !.on_rq = TRUE]
               u == IF task[w].on_rq THEN t ELSE enqueued(t)
               c == [task[curr] EXCEPT !.on_rq = FALSE]
    <3>1. w \in Tasks /\ curr \in Tasks /\ w # curr /\ task[w].state = "sleeping"
      BY <1>0, <2>5, TaskConstants DEF schedule_worker
    <3>2. task' = [task EXCEPT ![curr].on_rq = FALSE, ![w] = u]
      BY <2>5 DEF schedule_worker, switch_to_next
    <3>3. t \in TaskRecord /\ (Misplaced(t) => Misplaced(task[w]))
      BY <1>0, <3>1 DEF Misplaced, TaskRecord
    <3>4. Misplaced(u) => Misplaced(task[w])
      BY <3>3, EnqueuedPlace
    <3>5. Misplaced(c) => Misplaced(task[curr])
      BY <1>0, <3>1 DEF Misplaced, TaskRecord
    <3>6. /\ task'[w] = u /\ task'[curr] = c
          /\ x # w /\ x # curr => task'[x] = task[x]
      BY <1>0, <3>1, <3>2
    <3> QED  BY <3>4, <3>5, <3>6
  <2> QED  BY <1>2, <2>1, <2>2, <2>3, <2>4, <2>5 DEF Scheduling
<1>3. CASE Lifecycle
  <2>1. CASE do_exit
    <3> DEFINE d == [InitTask EXCEPT !.state = "dead"]
    <3>1. task' = [task EXCEPT ![curr] = d] /\ curr \in Tasks
      BY <1>0, <2>1 DEF do_exit, switch_to_next, InSyscall
    <3>2. ~Misplaced(d)
      BY DEF Misplaced, InitTask
    <3> QED  BY <1>0, <3>1, <3>2, SamePlace
  <2>2. ASSUME NEW c \in Tasks, sched_fork(c)
        PROVE  Misplaced(task[x]) \/ task'[x].new
    <3>1. task' = [task EXCEPT ![c] = forked(task[curr])] /\ curr \in Tasks
      BY <1>0, <2>2 DEF sched_fork, InSyscall
    <3>2. forked(task[curr]).new
      BY <1>0, <3>1 DEF forked, TaskRecord
    <3> QED  BY <1>0, <3>1, <3>2, SamePlace
  <2> QED  BY <1>3, <2>1, <2>2 DEF Lifecycle
<1>4. CASE scheduler_tick
  <2>1. curr \in Tasks
    BY <1>0, <1>4 DEF scheduler_tick
  <2>2. \/ task' = task
        \/ task' = [task EXCEPT ![curr] = refill(task[curr])]
        \/ \E n : \/ task' = [task EXCEPT ![curr].time_slice = n]
                 \/ task' = [task EXCEPT ![curr].rr_slice = n]
    <3>1. CASE task_tick_ras
      <4> DEFINE left == IF task[curr].time_slice = 0 THEN UINT_MAX
                         ELSE task[curr].time_slice - 1
      <4>1. \/ task' = [task EXCEPT ![curr].time_slice = left]
            \/ task' = [task EXCEPT ![curr] = refill(task[curr])]
        BY <3>1, Zenon DEF task_tick_ras
      <4> HIDE DEF left
      <4> QED  BY <4>1, Zenon
    <3>2. CASE task_tick_rt
      <4> DEFINE left == IF task[curr].rr_slice = 0 THEN UINT_MAX
                         ELSE task[curr].rr_slice - 1
      <4>1. \/ task' = [task EXCEPT ![curr].rr_slice = left]
            \/ task' = [task EXCEPT ![curr].rr_slice = RR_TIMESLICE]
        BY <3>2, Zenon DEF task_tick_rt
      <4> HIDE DEF left
      <4> QED  BY <4>1, Zenon
    <3> QED  BY <1>4, <3>1, <3>2 DEF scheduler_tick
  <2>3. \A n : /\ Misplaced([task[curr] EXCEPT !.time_slice = n]) => Misplaced(task[curr])
               /\ Misplaced([task[curr] EXCEPT !.rr_slice = n]) => Misplaced(task[curr])
    BY <1>0, <2>1 DEF Misplaced, TaskRecord
  <2>4. Misplaced(refill(task[curr])) => Misplaced(task[curr])
    BY <1>0, <2>1, EnqueuedPlace
  <2> QED  BY <1>0, <2>1, <2>2, <2>3, <2>4
<1>5. ASSUME NEW p \in Tasks, NEW pol \in Policies, NEW r \in RtPriorities \cup {0},
             NEW f \in ResetFlags, sched_setscheduler(p, pol, r, f)
      PROVE  Misplaced(task[x]) \/ task'[x].new
  <2> DEFINE c == [task[p] EXCEPT !.policy = pol, !.rt_priority = r, !.reset_on_fork = f]
             d == [c EXCEPT !.prio = rt_mutex_getprio(c)]
             t == [d EXCEPT !.sched_class = class_of(pol, d.prio)]
  <2>1. Requeue(p, t, FALSE)
    BY <1>5 DEF sched_setscheduler
  <2>2. t.policy = pol /\ t.sched_class = class_of(pol, d.prio)
    BY <1>0 DEF TaskRecord
  <2>3. ~Misplaced(t)
    BY <2>2 DEF Misplaced, class_of
  <2>4. ~Misplaced(IF t.on_rq THEN enqueued(t) ELSE t)
    BY <2>2, <2>3 DEF Misplaced, enqueued, refill
  <2> QED  BY <1>0, <2>1, <2>4, SamePlace DEF Requeue
<1>6. ASSUME NEW p \in Tasks, NEW n \in NicePrios, set_user_nice(p, n)
      PROVE  Misplaced(task[x]) \/ task'[x].new
  <2> DEFINE c == [task[p] EXCEPT !.static_prio = n]
             t == [c EXCEPT !.prio = effective_prio(c)]
  <2>1. CASE rt_policy(task[p].policy)
    BY <1>0, <1>6, <2>1 DEF set_user_nice, Misplaced, TaskRecord
  <2>2. CASE ~rt_policy(task[p].policy)
    <3>1. Requeue(p, t, FALSE)
      BY <1>6, <2>2 DEF set_user_nice
    <3>2. Misplaced(IF t.on_rq THEN enqueued(t) ELSE t) => Misplaced(task[p])
      BY <1>0 DEF Misplaced, TaskRecord, enqueued, refill
    <3> QED  BY <1>0, <3>1, <3>2, SamePlace DEF Requeue
  <2> QED  BY <2>1, <2>2
<1>7. ASSUME NEW p \in Tasks, NEW pi \in BoostPrios \cup {MAX_PRIO}, rt_mutex_setprio(p, pi)
      PROVE  Misplaced(task[x]) \/ task'[x].new
  <2> DEFINE c == [task[p] EXCEPT !.pi = pi]
             prio == rt_mutex_getprio(c)
             t == [c EXCEPT !.prio = prio, !.sched_class = class_of(c.policy, prio)]
  <2>1. CASE prio = task[p].prio
    <3>1. task' = [task EXCEPT ![p] = c]
      BY <1>7, <2>1 DEF rt_mutex_setprio
    <3>2. Misplaced(c) => Misplaced(task[p])
      BY <1>0 DEF Misplaced, TaskRecord
    <3> QED  BY <1>0, <3>1, <3>2, SamePlace
  <2>2. CASE prio # task[p].prio
    <3>1. Requeue(p, t, task[p].prio < prio)
      BY <1>7, <2>2 DEF rt_mutex_setprio
    <3>2. t.policy = c.policy /\ t.sched_class = class_of(c.policy, prio)
      BY <1>0 DEF TaskRecord
    <3>3. ~Misplaced(IF t.on_rq THEN enqueued(t) ELSE t)
      BY <3>2 DEF Misplaced, class_of, enqueued, refill
    <3> QED  BY <1>0, <3>1, <3>3, SamePlace DEF Requeue
  <2> QED  BY <2>1, <2>2
<1>8. ASSUME NEW p \in Tasks, NEW g \in Groups, sched_move_task(p, g)
      PROVE  Misplaced(task[x]) \/ task'[x].new
  <2> DEFINE t == [task[p] EXCEPT !.group = g]
  <2>1. Requeue(p, t, FALSE)
    BY <1>8 DEF sched_move_task
  <2>2. Misplaced(IF t.on_rq THEN enqueued(t) ELSE t) => Misplaced(task[p])
    BY <1>0 DEF Misplaced, TaskRecord, enqueued, refill
  <2> QED  BY <1>0, <2>1, <2>2, SamePlace DEF Requeue
<1>9. ASSUME NEW p \in Tasks,
             sched_rr_get_interval(p) \/ \E w \in WCounts : set_wcounts(p, w)
      PROVE  Misplaced(task[x]) \/ task'[x].new
  <2>1. CASE sched_rr_get_interval(p)
    BY <1>0, <2>1, EnqueuedPlace, SamePlace DEF sched_rr_get_interval
  <2>2. CASE \E w \in WCounts : set_wcounts(p, w)
    BY <1>0, <2>2 DEF set_wcounts, Misplaced, TaskRecord
  <2> QED  BY <1>9, <2>1, <2>2
<1> QED  BY <1>1, <1>2, <1>3, <1>4, <1>5, <1>6, <1>7, <1>8, <1>9, TaskConstants
         DEF Next, Wakeups, Parameters, Polling

\* A task that reports SCHED_RAS leaves the RAS class only by being forked: no call
\* that changes a policy, a nice value, a cgroup or an inherited prio separates them.
THEOREM PlacesCorrect == Spec => OnlyForkMisplaces
<1>1. IInv /\ [Next]_vars =>
        [\A p \in Tasks : Misplaced(task'[p]) /\ ~Misplaced(task[p]) => task'[p].new]_vars
  BY PlaceKept
<1> QED  BY <1>1, IInvAlways, PTL DEF Spec, OnlyForkMisplaces

-----------------------------------------------------------------------------
(***************************************************************************)
(* Whom the scheduler runs: RasSched implements TaskLifecycle, a RAS or RT *)
(* task is never overlooked by a lower class, real-time tasks come first,  *)
(* and waiting RAS tasks keep their order and running ones their slice.    *)
(***************************************************************************)

(* Picking the next task. *)

\* pick_next_task_rt finds a task whenever some priority has one, and no runnable
\* real-time task is better than the one it finds.
LEMMA PickRt ==
  ASSUME NEW T \in [Tasks -> TaskRecord], NEW r, RqInv(r, T),
         \A y \in Tasks : TaskInv(T[y]),
         NEW p \in OnRq(T), T[p].sched_class = "rt"
  PROVE  /\ pick_next_task_rt(r) # {}
         /\ \A x \in pick_next_task_rt(r) :
              x \in Tasks /\ T[x].sched_class = "rt" /\ T[x].prio <= T[p].prio
<1> DEFINE I == {i \in RtRange : r.rt[i] # <<>>}
<1>1. DOMAIN r.rt = RtRange /\ RtRange \subseteq Nat
  BY PrioConstants DEF RqInv, RunQueue, RtRange
<1>2. p \in Tasks /\ T[p].prio \in RtRange /\ p \in RtSet(T, T[p].prio)
  <2>1. p \in Tasks /\ T[p].on_rq /\ T[p].prio \in 0 .. (MAX_PRIO - 1) /\ T[p].prio < MAX_RT_PRIO
    BY DEF OnRq, TaskInv, TaskFits, TaskRecord
  <2> QED BY <2>1, PrioConstants DEF RtRange, RtSet
<1>3. ASSUME NEW i \in I
      PROVE  /\ Head(r.rt[i]) \in Tasks
             /\ Head(r.rt[i]) \in RtSet(T, i)
  <2> DEFINE q == r.rt[i]
  <2>1. ListOf(q, RtSet(T, i))
    BY DEF RqInv
  <2>2. q \in Seq(Tasks) /\ q # <<>>
    BY <2>1 DEF ListOf
  <2>3. 1 \in 1 .. Len(q) /\ q[1] = Head(q) /\ Head(q) \in Tasks
    BY <2>2
  <2> QED BY <2>1, <2>3 DEF ListOf, OnList
<1>4. T[p].prio \in I
  <2> DEFINE q == r.rt[T[p].prio]
  <2>1. ListOf(q, RtSet(T, T[p].prio))
    BY <1>2 DEF RqInv
  <2>2. OnList(q, p)
    BY <1>2, <2>1 DEF ListOf
  <2>3. q # <<>>
    BY <2>2 DEF OnList
  <2> QED BY <1>2, <2>3
<1>5. PICK m \in I : \A k \in I : m <= k
  BY <1>1, <1>4, LeastNat
<1>6. Head(r.rt[m]) \in pick_next_task_rt(r)
  <2>1. \A j \in DOMAIN r.rt : j < m => r.rt[j] = <<>>
    BY <1>1, <1>5
  <2> QED BY <1>1, <1>3, <2>1 DEF pick_next_task_rt
<1>7. ASSUME NEW x \in pick_next_task_rt(r)
      PROVE  x \in Tasks /\ T[x].sched_class = "rt" /\ T[x].prio <= T[p].prio
  <2> PICK i \in DOMAIN r.rt : /\ r.rt[i] # <<>> /\ x = Head(r.rt[i])
                               /\ \A j \in DOMAIN r.rt : j < i => r.rt[j] = <<>>
    BY DEF pick_next_task_rt
  <2>1. i \in I /\ ~(T[p].prio < i)
    BY <1>1, <1>2, <1>4
  <2>2. i \in Nat /\ T[p].prio \in Nat
    BY <1>1, <1>2
  <2> QED BY <1>3, <2>1, <2>2 DEF RtSet
<1> QED BY <1>6, <1>7

\* What pick_next_task picks is never of a lower class than a runnable task: the
\* shortcut on nr_running is taken only when all of them are of the fair class.
LEMMA PickBest ==
  ASSUME NEW T \in [Tasks -> TaskRecord], NEW r, RqInv(r, T),
         \A y \in Tasks : TaskInv(T[y]),
         NEW x \in pick_next_task(r, T), NEW p \in OnRq(T)
  PROVE  /\ x \in Tasks
         /\ T[x].sched_class = "fair" => T[p].sched_class = "fair"
         /\ T[p].sched_class = "rt" => T[x].sched_class = "rt" /\ T[x].prio <= T[p].prio
<1>0. p \in Tasks /\ T[p].on_rq /\ T[p].sched_class \in {"rt", "ras", "fair"}
  BY DEF OnRq, TaskRecord
<1>1. \A y \in fair_tasks(T) : y \in Tasks /\ T[y].sched_class = "fair"
  BY DEF fair_tasks
<1>2. T[p].sched_class = "fair" => p \in fair_tasks(T)
  BY <1>0 DEF fair_tasks
<1>3. \A y \in pick_next_task_ras(r) : y \in Tasks /\ T[y].sched_class = "ras"
  <2> SUFFICES ASSUME NEW y \in pick_next_task_ras(r)
               PROVE  y \in Tasks /\ T[y].sched_class = "ras"
    OBVIOUS
  <2> DEFINE q == r.ras
  <2>1. ListOf(q, RasSet(T)) /\ Len(q) # 0 /\ y = Head(q)
    BY DEF RqInv, pick_next_task_ras
  <2>2. q \in Seq(Tasks)
    BY <2>1 DEF ListOf
  <2>3. 1 \in 1 .. Len(q) /\ q[1] = y /\ y \in Tasks
    BY <2>1, <2>2
  <2> QED BY <2>1, <2>3 DEF ListOf, OnList, RasSet
<1>4. T[p].sched_class = "ras" => pick_next_task_ras(r) # {}
  <2> SUFFICES ASSUME T[p].sched_class = "ras" PROVE pick_next_task_ras(r) # {}
    OBVIOUS
  <2>1. OnList(r.ras, p) /\ r.ras \in Seq(Tasks) /\ r.ras_nr_running = Len(r.ras)
    BY <1>0 DEF RqInv, ListOf, RasSet
  <2>2. Len(r.ras) # 0
    BY <2>1 DEF OnList
  <2> QED BY <2>1, <2>2 DEF pick_next_task_ras
<1>5. \A y \in pick_next_task_rt(r) : y \in Tasks /\ T[y].sched_class = "rt"
  <2> SUFFICES ASSUME NEW y \in pick_next_task_rt(r)
               PROVE  y \in Tasks /\ T[y].sched_class = "rt"
    OBVIOUS
  <2> PICK i \in DOMAIN r.rt : r.rt[i] # <<>> /\ y = Head(r.rt[i])
    BY DEF pick_next_task_rt
  <2> DEFINE q == r.rt[i]
  <2>1. ListOf(q, RtSet(T, i))
    BY DEF RqInv, RunQueue, RtRange
  <2>2. q \in Seq(Tasks) /\ q # <<>>
    BY <2>1 DEF ListOf
  <2>3. 1 \in 1 .. Len(q) /\ q[1] = y /\ y \in Tasks
    BY <2>2
  <2> QED BY <2>1, <2>3 DEF ListOf, OnList, RtSet
<1>6. T[p].sched_class = "rt" =>
        /\ pick_next_task_rt(r) # {}
        /\ \A y \in pick_next_task_rt(r) : T[y].prio <= T[p].prio
  BY PickRt
<1>7. r.nr_running = Cardinality(fair_tasks(T)) => T[p].sched_class = "fair"
  <2> SUFFICES ASSUME r.nr_running = Cardinality(fair_tasks(T)) PROVE T[p].sched_class = "fair"
    OBVIOUS
  <2>1. fair_tasks(T) \subseteq OnRq(T) /\ IsFiniteSet(OnRq(T))
    BY TaskConstants, FS_Subset DEF fair_tasks, OnRq
  <2>2. Cardinality(fair_tasks(T)) = Cardinality(OnRq(T))
    BY DEF RqInv
  <2>3. fair_tasks(T) = OnRq(T)
    BY <2>1, <2>2, FS_Subset
  <2> QED BY <1>1, <2>3
<1>8. CASE r.nr_running = Cardinality(fair_tasks(T)) /\ fair_tasks(T) # {}
  <2>1. x \in fair_tasks(T)
    BY <1>8 DEF pick_next_task
  <2> QED BY <1>1, <1>7, <1>8, <2>1
<1>9. CASE ~(r.nr_running = Cardinality(fair_tasks(T)) /\ fair_tasks(T) # {})
  <2>1. x \in IF pick_next_task_rt(r) # {} THEN pick_next_task_rt(r)
              ELSE IF pick_next_task_ras(r) # {} THEN pick_next_task_ras(r)
              ELSE IF fair_tasks(T) # {} THEN fair_tasks(T) ELSE {Idle}
    BY <1>9 DEF pick_next_task
  <2>2. CASE pick_next_task_rt(r) # {}
    BY <1>5, <1>6, <2>1, <2>2
  <2>3. CASE pick_next_task_rt(r) = {} /\ pick_next_task_ras(r) # {}
    BY <1>0, <1>3, <1>6, <2>1, <2>3
  <2>4. CASE pick_next_task_rt(r) = {} /\ pick_next_task_ras(r) = {}
    BY <1>0, <1>1, <1>2, <1>4, <1>6, <2>1, <2>4
  <2> QED BY <2>2, <2>3, <2>4
<1> QED BY <1>8, <1>9

-----------------------------------------------------------------------------
(* RasSched implements TaskLifecycle. *)

\* What TaskLifecycle says of the tasks T when none of them runs.
Resting(T) ==
  [p \in Tasks |-> IF T[p].on_rq THEN "ready" ELSE IF T[p].state = "dead" THEN "free"
                   ELSE IF T[p].new THEN "new" ELSE "asleep"]

\* status is Resting(task) but for the running task.
LEMMA StatusForm ==
  /\ status = [p \in Tasks |-> IF p = curr THEN "running" ELSE Resting(task)[p]]
  /\ status' = [p \in Tasks |-> IF p = curr' THEN "running" ELSE Resting(task')[p]]
  BY DEF status, Resting

\* A step that changes neither curr nor, for any task, whether it is queued, free or
\* new, is invisible to TaskLifecycle.
LEMMA StatusSame ==
  ASSUME curr' = curr,
         \A x \in Tasks : /\ task'[x].on_rq = task[x].on_rq /\ task'[x].new = task[x].new
                          /\ (task'[x].state = "dead") <=> (task[x].state = "dead")
  PROVE  status' = status
<1>1. Resting(task') = Resting(task)
  BY DEF Resting
<1> QED BY <1>1, StatusForm

\* The tail of __schedule is a Switch: it leaves the CPU idle only when nothing is ready.
LEMMA SwitchLife ==
  ASSUME IInv, NEW r, NEW T, StateOK(r, T), switch_to_next(r, T), NEW end, NEW W,
         \A p \in Tasks : Resting(T)[p] = IF p = curr THEN end
                                          ELSE IF p \in W THEN "ready" ELSE Resting(task)[p]
  PROVE  Life!Switch(end, W)
<1> DEFINE q == put_prev_task(r, curr)
           s == [p \in Tasks |-> IF p \in Life!Running THEN end
                                 ELSE IF p \in W THEN "ready" ELSE status[p]]
<1>1. RqInv(q, T) /\ T \in [Tasks -> TaskRecord] /\ \A y \in Tasks : TaskInv(T[y])
  <2>1. curr # Idle => curr \in Tasks
    BY DEF IInv
  <2> QED BY <2>1, PutPrevRasOK DEF StateOK, put_prev_task
<1>2. task' = T /\ curr' \in pick_next_task(q, T)
  BY DEF switch_to_next
<1> HIDE DEF q
<1>3. \A p \in Tasks : p \in Life!Running <=> p = curr
  <2>1. \A p \in Tasks : Resting(task)[p] # "running"
    BY DEF Resting
  <2> QED BY <2>1, StatusForm DEF Life!Running
<1>4. s = Resting(T)
  <2>1. \A p \in Tasks : s[p] = Resting(T)[p]
    BY <1>3, StatusForm
  <2> QED BY <2>1 DEF Resting
<1>5. Life!Ready(s) = OnRq(T)
  <2>1. \A p \in Tasks : Resting(T)[p] = "ready" <=> T[p].on_rq
    BY DEF Resting
  <2> QED BY <1>4, <2>1 DEF Life!Ready, OnRq
<1> HIDE DEF s
<1>6. CASE OnRq(T) = {}
  <2>1. curr' = Idle
    BY <1>1, <1>2, <1>6, PickOK DEF OnRq
  <2>2. status' = s
    BY <1>2, <1>4, <2>1, StatusForm, TaskConstants DEF Resting
  <2> QED BY <1>5, <1>6, <2>2 DEF Life!Switch, s
<1>7. CASE OnRq(T) # {}
  <2>0. PICK p \in OnRq(T) : TRUE
    BY <1>7
  <2>4. curr' \in Tasks
    BY <1>1, <1>2, PickBest
  <2>1. curr' \in Tasks /\ curr' \in OnRq(T)
    <3>1. curr' # Idle
      BY <2>4, TaskConstants
    <3> QED BY <1>1, <1>2, <2>4, <3>1, PickOK DEF OnRq
  <2>2. status' = [s EXCEPT ![curr'] = "running"]
    BY <1>2, <1>4, <2>1, StatusForm DEF Resting
  <2>3. \E x \in Life!Ready(s) : status' = [s EXCEPT ![x] = "running"]
    BY <1>5, <2>1, <2>2
  <2> QED BY <1>5, <1>7, <2>3 DEF Life!Switch, s
<1> QED BY <1>6, <1>7

\* The record of one task changes, but not whether it is queued, free or new.
LEMMA OneSame ==
  ASSUME task \in [Tasks -> TaskRecord], curr' = curr, NEW p \in Tasks, NEW t,
         task' = [task EXCEPT ![p] = t], t.on_rq = task[p].on_rq, t.new = task[p].new,
         (t.state = "dead") <=> (task[p].state = "dead")
  PROVE  status' = status
  BY StatusSame

\* Wakeups and fork move one task that does not run.
LEMMA MoveLife ==
  ASSUME task \in [Tasks -> TaskRecord], curr' = curr, NEW p \in Tasks, p # curr, NEW t,
         task' = [task EXCEPT ![p] = t]
  PROVE  status' = [status EXCEPT ![p] = Resting(task')[p]]
<1>1. \A x \in Tasks : x # p => Resting(task')[x] = Resting(task)[x]
  BY DEF Resting
<1> QED BY <1>1, StatusForm

\* A wakeup is a Wake, an Admit or, of a task that has not left the run queue, a
\* stuttering step.
LEMMA WakeLife ==
  ASSUME IInv, NEW p \in Tasks, try_to_wake_up(p) \/ wake_up_new_task(p)
  PROVE  Life!Next \/ status' = status
<1>0. /\ task \in [Tasks -> TaskRecord] /\ task[p] \in TaskRecord /\ TaskInv(task[p])
      /\ curr = p => task[p].on_rq
  BY TaskConstants DEF IInv
<1>1. CASE try_to_wake_up(p)
  <2> DEFINE t == [task[p] EXCEPT !.state = "running", !.on_rq = TRUE]
  <2>1. task[p].state = "sleeping" /\ curr' = curr
        /\ task' = [task EXCEPT ![p] = IF task[p].on_rq THEN t ELSE enqueued(t)]
    BY <1>1 DEF try_to_wake_up
  <2>2. t \in TaskRecord /\ t.on_rq /\ t.new = task[p].new /\ t.state = "running"
    BY <1>0 DEF TaskRecord
  <2> HIDE DEF t
  <2>3. CASE task[p].on_rq
    BY <1>0, <2>1, <2>2, <2>3, OneSame
  <2>4. CASE ~task[p].on_rq
    <3>1. p # curr /\ ~task[p].new /\ enqueued(t).on_rq
      BY <1>0, <2>1, <2>2, <2>4 DEF TaskInv, TaskFits, enqueued, refill, TaskRecord
    <3>2. task' = [task EXCEPT ![p] = enqueued(t)]
      BY <2>1, <2>4
    <3>3. status' = [status EXCEPT ![p] = Resting(task')[p]]
      BY <1>0, <2>1, <3>1, <3>2, MoveLife
    <3>4. Resting(task')[p] = "ready" /\ status[p] = "asleep"
      BY <1>0, <2>1, <2>4, <3>1, <3>2, StatusForm DEF Resting
    <3> QED BY <3>3, <3>4 DEF Life!Next, Life!Wake, Life!Move
  <2> QED BY <2>3, <2>4
<1>2. CASE wake_up_new_task(p)
  <2> DEFINE t == [task[p] EXCEPT !.on_rq = TRUE, !.new = FALSE]
  <2>1. task[p].state # "dead" /\ task[p].new /\ curr' = curr
        /\ task' = [task EXCEPT ![p] = enqueued(t)]
    BY <1>2 DEF wake_up_new_task, Alive
  <2>2. p # curr /\ ~task[p].on_rq /\ enqueued(t).on_rq
    BY <1>0, <2>1 DEF TaskInv, TaskFits, enqueued, refill, TaskRecord
  <2> HIDE DEF t
  <2>3. status' = [status EXCEPT ![p] = Resting(task')[p]]
    BY <1>0, <2>1, <2>2, MoveLife
  <2>4. Resting(task')[p] = "ready" /\ status[p] = "new"
    BY <1>0, <2>1, <2>2, StatusForm DEF Resting
  <2> QED BY <2>3, <2>4 DEF Life!Next, Life!Admit, Life!Move
<1> QED BY <1>1, <1>2

\* sched_fork is a Fork.
LEMMA ForkLife ==
  ASSUME IInv, NEW c \in Tasks, sched_fork(c)
  PROVE  Life!Next
<1>1. /\ task \in [Tasks -> TaskRecord] /\ curr \in Tasks /\ task[curr] \in TaskRecord
      /\ task[curr].on_rq /\ TaskInv(task[curr]) /\ TaskInv(task[c]) /\ task[c].state = "dead"
  BY DEF IInv, sched_fork, InSyscall, Alive
<1>2. task' = [task EXCEPT ![c] = forked(task[curr])] /\ curr' = curr
  BY DEF sched_fork
<1>3. LET f == forked(task[curr]) IN f.new /\ ~f.on_rq /\ f.state = "running"
  BY <1>1 DEF forked, TaskRecord
<1>4. ~task[c].on_rq /\ c # curr
  BY <1>1 DEF TaskInv, TaskFits
<1>5. status' = [status EXCEPT ![c] = Resting(task')[c]]
  BY <1>1, <1>2, <1>4, MoveLife
<1>6. Resting(task')[c] = "new" /\ status[c] = "free" /\ status[curr] = "running"
  BY <1>1, <1>2, <1>3, <1>4, StatusForm DEF Resting
<1>7. Life!Running # {}
  BY <1>1, <1>6 DEF Life!Running
<1> QED BY <1>5, <1>6, <1>7 DEF Life!Next, Life!Fork, Life!Move

\* The ways into __schedule are Switches.
LEMMA ScheduleLife ==
  ASSUME IInv,
         preempt_schedule \/ schedule_sleep \/ schedule_signal \/ do_exit \/ sched_yield
  PROVE  Life!Next
<1>0. StateOK(rq, task) /\ task \in [Tasks -> TaskRecord]
      /\ (curr \in Tasks => task[curr].on_rq)
  BY TaskConstants DEF IInv, StateOK
<1>2. ASSUME curr # Idle
      PROVE  /\ curr \in Tasks /\ task[curr] \in TaskRecord /\ TaskInv(task[curr])
             /\ task[curr].on_rq /\ Life!Running # {}
  <2>1. curr \in Tasks
    BY <1>2 DEF IInv
  <2>2. status[curr] = "running"
    BY <2>1, StatusForm
  <2> QED BY <1>2, <2>1, <2>2 DEF IInv, Life!Running
<1>1. ASSUME NEW r, StateOK(r, task), switch_to_next(r, task)
      PROVE  Life!Next
  <2>1. \A p \in Tasks : Resting(task)[p] = IF p = curr THEN "ready"
                           ELSE IF p \in {} THEN "ready" ELSE Resting(task)[p]
    BY <1>0 DEF Resting
  <2> QED BY <1>1, <2>1, SwitchLife DEF Life!Next
<1>3. CASE preempt_schedule
  BY <1>0, <1>1, <1>3 DEF preempt_schedule
<1>4. CASE schedule_sleep
  <2> DEFINE t == [task[curr] EXCEPT !.on_rq = FALSE]
             T == [task EXCEPT ![curr] = t]
  <2>1. curr # Idle /\ task[curr].state = "sleeping"
        /\ switch_to_next(dequeue_task(rq, curr, task[curr]), T)
    BY <1>4 DEF schedule_sleep
  <2>2. t \in TaskRecord /\ ~t.on_rq /\ TaskInv(t) /\ t.state = "sleeping" /\ ~t.new
    BY <1>2, <2>1 DEF TaskRecord, TaskInv, TaskFits, SliceFits
  <2> HIDE DEF t
  <2>3. StateOK(dequeue_task(rq, curr, task[curr]), T)
    BY <1>0, <1>2, <2>1, <2>2, DeactivateState
  <2>4. \A p \in Tasks : Resting(T)[p] = IF p = curr THEN "asleep"
                           ELSE IF p \in {} THEN "ready" ELSE Resting(task)[p]
    BY <1>0, <2>2 DEF Resting
  <2> HIDE DEF T
  <2> QED BY <1>2, <2>1, <2>3, <2>4, SwitchLife DEF Life!Next
<1>5. CASE schedule_signal
  <2> DEFINE t == [task[curr] EXCEPT !.state = "running"]
             T == [task EXCEPT ![curr] = t]
  <2>1. curr # Idle /\ task[curr].state = "sleeping" /\ switch_to_next(rq, T)
    BY <1>5 DEF schedule_signal
  <2>2. t \in TaskRecord /\ TaskInv(t) /\ t.on_rq = task[curr].on_rq
        /\ t.sched_class = task[curr].sched_class /\ t.prio = task[curr].prio
    BY <1>2, <2>1 DEF TaskRecord, TaskInv, TaskFits, SliceFits
  <2> HIDE DEF t
  <2>3. StateOK(rq, T)
    BY <1>0, <1>2, <2>1, <2>2, QuietRecord
  <2>4. \A p \in Tasks : Resting(T)[p] = IF p = curr THEN "ready"
                           ELSE IF p \in {} THEN "ready" ELSE Resting(task)[p]
    BY <1>0, <2>2 DEF Resting
  <2> HIDE DEF T
  <2> QED BY <2>1, <2>3, <2>4, SwitchLife DEF Life!Next
<1>6. CASE do_exit
  <2> DEFINE t == [InitTask EXCEPT !.state = "dead"]
             T == [task EXCEPT ![curr] = t]
  <2>1. curr # Idle /\ switch_to_next(dequeue_task(rq, curr, task[curr]), T)
    BY <1>6 DEF do_exit, InSyscall
  <2>2. t \in TaskRecord /\ ~t.on_rq /\ TaskInv(t) /\ t.state = "dead"
    BY DeadTaskOK, InitTaskOK DEF TaskRecord
  <2> HIDE DEF t
  <2>3. StateOK(dequeue_task(rq, curr, task[curr]), T)
    BY <1>0, <1>2, <2>1, <2>2, DeactivateState
  <2>4. \A p \in Tasks : Resting(T)[p] = IF p = curr THEN "free"
                           ELSE IF p \in {} THEN "ready" ELSE Resting(task)[p]
    BY <1>0, <2>2 DEF Resting
  <2> HIDE DEF T
  <2> QED BY <1>2, <2>1, <2>3, <2>4, SwitchLife DEF Life!Next
<1>7. CASE sched_yield
  <2>1. curr # Idle /\ switch_to_next(yield_task(rq, curr), task)
    BY <1>7 DEF sched_yield, InSyscall
  <2>2. RtInRange(task[curr])
    BY <1>2, <2>1 DEF TaskInv, TaskFits, RtInRange
  <2>3. StateOK(yield_task(rq, curr), task)
    BY <1>0, <1>2, <2>1, <2>2, YieldOK DEF StateOK
  <2> QED BY <1>1, <2>1, <2>3
<1> QED BY <1>3, <1>4, <1>5, <1>6, <1>7

\* schedule() of a workqueue thread is a Switch that wakes another worker on its way.
LEMMA WorkerLife ==
  ASSUME IInv, NEW w \in Workers, schedule_worker(w)
  PROVE  Life!Next
<1>0. StateOK(rq, task) /\ w \in Tasks /\ curr \in Tasks /\ w # curr
      /\ task \in [Tasks -> TaskRecord]
  BY TaskConstants DEF IInv, StateOK, schedule_worker
<1>1. /\ task[curr] \in TaskRecord /\ TaskInv(task[curr]) /\ task[curr].on_rq
      /\ task[w] \in TaskRecord /\ TaskInv(task[w]) /\ Life!Running # {}
  <2>1. status[curr] = "running"
    BY <1>0, StatusForm
  <2> QED BY <1>0, <2>1, TaskConstants DEF IInv, Life!Running
<1> DEFINE t == [task[w] EXCEPT !.state = "running", !.on_rq = TRUE]
           o == [task[curr] EXCEPT !.on_rq = FALSE]
           n == IF task[w].on_rq THEN t ELSE enqueued(t)
           T == [task EXCEPT ![curr].on_rq = FALSE, ![w] = n]
           r == dequeue_task(rq, curr, task[curr])
           D == [task EXCEPT ![curr] = o]
<1>2. /\ task[curr].state = "sleeping" /\ task[w].state = "sleeping"
      /\ switch_to_next(IF task[w].on_rq THEN r ELSE enqueue_task(r, w, t, FALSE), T)
  BY DEF schedule_worker
<1>3. o \in TaskRecord /\ ~o.on_rq /\ TaskInv(o) /\ o.state = "sleeping" /\ ~o.new
  BY <1>1, <1>2 DEF TaskRecord, TaskInv, TaskFits, SliceFits
<1>4. /\ t \in TaskRecord /\ TaskFits(t) /\ t.on_rq /\ t.sched_class = task[w].sched_class
      /\ t.prio = task[w].prio /\ (task[w].on_rq => TaskInv(t))
  BY <1>1, <1>2 DEF TaskRecord, TaskInv, TaskFits, SliceFits
<1>5. D[w] = task[w] /\ T = [D EXCEPT ![w] = n]
  BY <1>0
<1>6. /\ T[curr] = o /\ T[w] = n
      /\ \A p \in Tasks : p # curr /\ p # w => T[p] = task[p]
  BY <1>0
<1> HIDE DEF o, t, r
<1>7. StateOK(r, D)
  BY <1>0, <1>1, <1>3, DeactivateState DEF r
<1> HIDE DEF D
<1>8. n.on_rq /\ ~task[w].new
  BY <1>1, <1>2, <1>4, EnqueuedOK DEF TaskInv, TaskFits
<1>9. CASE task[w].on_rq
  <2>1. T = [D EXCEPT ![w] = t]
    BY <1>5, <1>9
  <2>4. \A p \in Tasks : Resting(T)[p] = IF p = curr THEN "asleep"
                           ELSE IF p \in {} THEN "ready" ELSE Resting(task)[p]
    <3> HIDE DEF n, T
    <3> QED BY <1>0, <1>3, <1>6, <1>8, <1>9 DEF Resting
  <2> HIDE DEF T
  <2>2. /\ t.on_rq = D[w].on_rq /\ t.sched_class = D[w].sched_class
        /\ t.prio = D[w].prio /\ TaskInv(t) /\ t \in TaskRecord
    BY <1>1, <1>4, <1>5, <1>9 DEF TaskRecord
  <2>3. StateOK(r, T)
    BY <1>0, <1>7, <2>1, <2>2, QuietRecord
  <2> QED BY <1>1, <1>2, <1>9, <2>3, <2>4, SwitchLife DEF Life!Next
<1>10. CASE ~task[w].on_rq
  <2>1. T = [D EXCEPT ![w] = enqueued(t)]
    BY <1>5, <1>10
  <2>4. \A p \in Tasks : Resting(T)[p] = IF p = curr THEN "asleep"
                           ELSE IF p \in {w} THEN "ready" ELSE Resting(task)[p]
    <3> HIDE DEF n, T
    <3> QED BY <1>0, <1>3, <1>6, <1>8, <1>10 DEF Resting
  <2>5. status[w] = "asleep"
    BY <1>0, <1>2, <1>8, <1>10, StatusForm DEF Resting
  <2> HIDE DEF T
  <2>2. ~D[w].on_rq /\ TaskFits(t) /\ t.on_rq /\ t \in TaskRecord
    BY <1>4, <1>5, <1>10
  <2>3. StateOK(enqueue_task(r, w, t, FALSE), T)
    BY <1>0, <1>7, <2>1, <2>2, ActivateState
  <2>6. Life!Switch("asleep", {w})
    BY <1>2, <1>10, <2>3, <2>4, SwitchLife
  <2> QED BY <1>0, <1>1, <2>5, <2>6 DEF Life!Next
<1> QED BY <1>9, <1>10

\* A tick changes a slice and the order of a list, nothing TaskLifecycle sees.
LEMMA TickLife ==
  ASSUME IInv, scheduler_tick
  PROVE  status' = status
<1>0. /\ curr \in Tasks /\ task \in [Tasks -> TaskRecord] /\ task[curr] \in TaskRecord
      /\ curr' = curr
  BY DEF IInv, scheduler_tick
<1>1. CASE task_tick_ras
  <2> DEFINE left == IF task[curr].time_slice = 0 THEN UINT_MAX ELSE task[curr].time_slice - 1
             t == [task[curr] EXCEPT !.time_slice = left]
             u == refill(task[curr])
  <2>1. task' = [task EXCEPT ![curr] = t] \/ task' = [task EXCEPT ![curr] = u]
    BY <1>1, Zenon DEF task_tick_ras
  <2>2. /\ t.on_rq = task[curr].on_rq /\ t.new = task[curr].new /\ t.state = task[curr].state
        /\ u.on_rq = task[curr].on_rq /\ u.new = task[curr].new /\ u.state = task[curr].state
    BY <1>0 DEF refill, TaskRecord
  <2> HIDE DEF t, u
  <2> QED BY <1>0, <2>1, <2>2, OneSame
<1>2. CASE task_tick_rt
  <2> DEFINE left == IF task[curr].rr_slice = 0 THEN UINT_MAX ELSE task[curr].rr_slice - 1
             t == [task[curr] EXCEPT !.rr_slice = left]
             u == [task[curr] EXCEPT !.rr_slice = RR_TIMESLICE]
  <2>1. task' = [task EXCEPT ![curr] = t] \/ task' = [task EXCEPT ![curr] = u]
    BY <1>2, Zenon DEF task_tick_rt
  <2>2. /\ t.on_rq = task[curr].on_rq /\ t.new = task[curr].new /\ t.state = task[curr].state
        /\ u.on_rq = task[curr].on_rq /\ u.new = task[curr].new /\ u.state = task[curr].state
    BY <1>0 DEF TaskRecord
  <2> HIDE DEF t, u
  <2> QED BY <1>0, <2>1, <2>2, OneSame
<1>3. CASE UNCHANGED <<task, rq>>
  BY <1>0, <1>3, StatusSame
<1> QED BY <1>1, <1>2, <1>3 DEF scheduler_tick

\* Changes of policy, nice value, inherited prio, cgroup, wcounts and slice do not
\* move a task through its life.
LEMMA ParameterLife ==
  ASSUME IInv, set_current_state \/ Parameters \/ Polling
  PROVE  status' = status
<1>0. /\ task \in [Tasks -> TaskRecord] /\ curr \in Tasks \cup {Idle}
      /\ \A p \in Tasks : task[p] \in TaskRecord /\ TaskInv(task[p])
  BY DEF IInv
<1>1. CASE set_current_state
  <2> DEFINE t == [task[curr] EXCEPT !.state = "sleeping"]
  <2>1. curr \in Tasks /\ task' = [task EXCEPT ![curr] = t] /\ curr' = curr
        /\ task[curr].state = "running"
    BY <1>0, <1>1 DEF set_current_state, InSyscall
  <2>2. t.on_rq = task[curr].on_rq /\ t.new = task[curr].new /\ t.state = "sleeping"
    BY <1>0, <2>1 DEF TaskRecord
  <2> HIDE DEF t
  <2> QED BY <1>0, <2>1, <2>2, OneSame
<1>2. ASSUME NEW p \in Tasks, NEW pol \in Policies, NEW r \in RtPriorities \cup {0},
             NEW f \in ResetFlags, sched_setscheduler(p, pol, r, f)
      PROVE  status' = status
  <2> DEFINE c == [task[p] EXCEPT !.policy = pol, !.rt_priority = r, !.reset_on_fork = f]
             d == [c EXCEPT !.prio = rt_mutex_getprio(c)]
             t == [d EXCEPT !.sched_class = class_of(pol, d.prio)]
             u == IF t.on_rq THEN enqueued(t) ELSE t
  <2>1. task' = [task EXCEPT ![p] = u] /\ curr' = curr
    BY <1>2 DEF sched_setscheduler, Requeue
  <2>2. t.on_rq = task[p].on_rq /\ t.new = task[p].new /\ t.state = task[p].state
    BY <1>0 DEF TaskRecord
  <2>3. u.on_rq = task[p].on_rq /\ u.new = task[p].new /\ u.state = task[p].state
    BY <1>0, <2>2 DEF enqueued, refill, TaskRecord
  <2> HIDE DEF u
  <2> QED BY <1>0, <2>1, <2>3, OneSame
<1>3. ASSUME NEW p \in Tasks, NEW n \in NicePrios, set_user_nice(p, n)
      PROVE  status' = status
  <2> DEFINE c == [task[p] EXCEPT !.static_prio = n]
             t == [c EXCEPT !.prio = effective_prio(c)]
             u == IF t.on_rq THEN enqueued(t) ELSE t
  <2>1. (task' = [task EXCEPT ![p] = c] \/ task' = [task EXCEPT ![p] = u]) /\ curr' = curr
    BY <1>3, Zenon DEF set_user_nice, Requeue
  <2>2. /\ c.on_rq = task[p].on_rq /\ c.new = task[p].new /\ c.state = task[p].state
        /\ u.on_rq = task[p].on_rq /\ u.new = task[p].new /\ u.state = task[p].state
    BY <1>0 DEF enqueued, refill, TaskRecord
  <2> HIDE DEF c, u
  <2> QED BY <1>0, <2>1, <2>2, OneSame
<1>4. ASSUME NEW p \in Tasks, NEW pi \in BoostPrios \cup {MAX_PRIO}, rt_mutex_setprio(p, pi)
      PROVE  status' = status
  <2> DEFINE c == [task[p] EXCEPT !.pi = pi]
             prio == rt_mutex_getprio(c)
             t == [c EXCEPT !.prio = prio, !.sched_class = class_of(c.policy, prio)]
             u == IF t.on_rq THEN enqueued(t) ELSE t
  <2>1. (task' = [task EXCEPT ![p] = c] \/ task' = [task EXCEPT ![p] = u]) /\ curr' = curr
    BY <1>4, Zenon DEF rt_mutex_setprio, Requeue
  <2>2. /\ c.on_rq = task[p].on_rq /\ c.new = task[p].new /\ c.state = task[p].state
        /\ u.on_rq = task[p].on_rq /\ u.new = task[p].new /\ u.state = task[p].state
    BY <1>0 DEF enqueued, refill, TaskRecord
  <2> HIDE DEF c, u
  <2> QED BY <1>0, <2>1, <2>2, OneSame
<1>5. ASSUME NEW p \in Tasks, NEW g \in Groups, sched_move_task(p, g)
      PROVE  status' = status
  <2> DEFINE t == [task[p] EXCEPT !.group = g]
             u == IF t.on_rq THEN enqueued(t) ELSE t
  <2>1. task' = [task EXCEPT ![p] = u] /\ curr' = curr
    BY <1>5, Zenon DEF sched_move_task, Requeue
  <2>2. u.on_rq = task[p].on_rq /\ u.new = task[p].new /\ u.state = task[p].state
    BY <1>0 DEF enqueued, refill, TaskRecord
  <2> HIDE DEF u
  <2> QED BY <1>0, <2>1, <2>2, OneSame
<1>6. ASSUME NEW p \in Tasks, NEW w \in WCounts, set_wcounts(p, w)
      PROVE  status' = status
  <2> DEFINE u == [task[p] EXCEPT !.wcounts = w]
  <2>1. task' = [task EXCEPT ![p] = u] /\ curr' = curr
    BY <1>6 DEF set_wcounts
  <2>2. u.on_rq = task[p].on_rq /\ u.new = task[p].new /\ u.state = task[p].state
    BY <1>0 DEF TaskRecord
  <2> HIDE DEF u
  <2> QED BY <1>0, <2>1, <2>2, OneSame
<1>7. ASSUME NEW p \in Tasks, sched_rr_get_interval(p)
      PROVE  status' = status
  <2> DEFINE u == refill(task[p])
  <2>1. task' = [task EXCEPT ![p] = u] /\ curr' = curr
    BY <1>7 DEF sched_rr_get_interval
  <2>2. u.on_rq = task[p].on_rq /\ u.new = task[p].new /\ u.state = task[p].state
    BY <1>0 DEF refill, TaskRecord
  <2> HIDE DEF u
  <2> QED BY <1>0, <2>1, <2>2, OneSame
<1> QED BY <1>1, <1>2, <1>3, <1>4, <1>5, <1>6, <1>7, TaskConstants DEF Parameters, Polling

\* Every step of the scheduler is a step of TaskLifecycle or leaves status alone.
LEMMA StepLife ==
  ASSUME IInv, [Next]_vars
  PROVE  [Life!Next]_status
<1>1. CASE Wakeups
  BY <1>1, WakeLife DEF Wakeups
<1>2. CASE Scheduling
  BY <1>2, ParameterLife, ScheduleLife, WorkerLife DEF Scheduling
<1>3. CASE Lifecycle
  BY <1>3, ScheduleLife, ForkLife DEF Lifecycle
<1>4. CASE scheduler_tick
  BY <1>4, TickLife
<1>5. CASE sched_yield
  BY <1>5, ScheduleLife
<1>6. CASE Parameters \/ Polling
  BY <1>6, ParameterLife
<1>7. CASE UNCHANGED vars
  BY <1>7, StatusSame DEF vars
<1> QED BY <1>1, <1>2, <1>3, <1>4, <1>5, <1>6, <1>7 DEF Next

\* RasSched implements TaskLifecycle: tasks go from asleep or new to ready to running,
\* one runs at a time, and the CPU is left idle only when no task is ready.
THEOREM LifecycleImplemented == Spec => ImplementsLifecycle
<1>1. Init => Life!Init
  <2> SUFFICES ASSUME Init PROVE Life!Init
    OBVIOUS
  <2>1. \A p \in Tasks : p # curr /\ ~task[p].on_rq /\ task[p].state = "sleeping" /\ ~task[p].new
    BY TaskConstants DEF Init, InitTask
  <2> QED BY <2>1 DEF Life!Init, status
<1>2. IInv /\ [Next]_vars => [Life!Next]_status
  BY StepLife
<1> QED BY <1>1, <1>2, IInvAlways, PTL DEF Spec, ImplementsLifecycle, Life!Spec

-----------------------------------------------------------------------------
(* The shapes a step may have, with what the properties below need of each. *)

\* The members of list q that come before p.
AheadIn(q, p) ==
  {q[i] : i \in {k \in 1 .. Len(q) : \E j \in 1 .. Len(q) : k < j /\ q[j] = p}}

\* A queue q2 in which nothing got ahead of p.
Behind(q, q2, p) == AheadIn(q2, p) \subseteq AheadIn(q, p)

\* Deleting another entry lets nothing ahead of p.
LEMMA DelBehind ==
  ASSUME NEW q \in Seq(Tasks), NEW p \in Tasks, NEW x \in Tasks, x # p, OnList(q, x)
  PROVE  Behind(q, list_del(q, x), p)
<1> DEFINE at == CHOOSE i \in 1 .. Len(q) : q[i] = x
           d == [j \in 1 .. (Len(q) - 1) |-> IF j < at THEN q[j] ELSE q[j + 1]]
<1>1. Len(q) \in Nat /\ at \in 1 .. Len(q) /\ q[at] = x
  BY DEF OnList
<1>2. d = list_del(q, x)
  BY DEF list_del
<1> HIDE DEF at
<1>3. /\ Len(d) = Len(q) - 1
      /\ \A j \in 1 .. Len(d) : d[j] = IF j < at THEN q[j] ELSE q[j + 1]
  <2>1. Len(q) - 1 \in Nat
    BY <1>1
  <2> QED BY <2>1
<1> HIDE DEF d
<1>4. ASSUME NEW y \in AheadIn(d, p)
      PROVE  y \in AheadIn(q, p)
  <2> PICK k \in 1 .. Len(d) : y = d[k] /\ \E j \in 1 .. Len(d) : k < j /\ d[j] = p
    BY DEF AheadIn
  <2> PICK j \in 1 .. Len(d) : k < j /\ d[j] = p
    OBVIOUS
  <2> DEFINE kk == IF k < at THEN k ELSE k + 1
             jj == IF j < at THEN j ELSE j + 1
  <2>1. kk \in 1 .. Len(q) /\ jj \in 1 .. Len(q) /\ kk < jj /\ q[kk] = y /\ q[jj] = p
    BY <1>1, <1>3
  <2> QED BY <2>1 DEF AheadIn
<1> QED BY <1>2, <1>4 DEF Behind

\* Adding another entry at the tail lets nothing ahead of p.
LEMMA AddBehind ==
  ASSUME NEW q \in Seq(Tasks), NEW p \in Tasks, NEW x \in Tasks, x # p
  PROVE  Behind(q, list_add_tail(q, x), p)
<1> DEFINE d == list_add_tail(q, x)
<1>1. /\ Len(q) \in Nat /\ Len(d) = Len(q) + 1 /\ d[Len(q) + 1] = x
      /\ \A j \in 1 .. Len(q) : d[j] = q[j]
  BY DEF list_add_tail
<1> HIDE DEF d
<1>2. ASSUME NEW y \in AheadIn(d, p)
      PROVE  y \in AheadIn(q, p)
  <2> PICK k \in 1 .. Len(d) : y = d[k] /\ \E j \in 1 .. Len(d) : k < j /\ d[j] = p
    BY DEF AheadIn
  <2> PICK j \in 1 .. Len(d) : k < j /\ d[j] = p
    OBVIOUS
  <2>1. j \in 1 .. Len(q) /\ k \in 1 .. Len(q) /\ q[k] = y /\ q[j] = p
    BY <1>1
  <2> QED BY <2>1 DEF AheadIn
<1> QED BY <1>2 DEF Behind, d

\* Nothing gets ahead of p in two steps if nothing does in either.
LEMMA BehindTransitive ==
  ASSUME NEW q, NEW q2, NEW q3, NEW p, Behind(q, q2, p), Behind(q2, q3, p)
  PROVE  Behind(q, q3, p)
  BY DEF Behind

\* Moving another entry to the tail lets nothing ahead of p.
LEMMA MoveBehind ==
  ASSUME NEW q \in Seq(Tasks), NEW S, ListOf(q, S),
         NEW p \in Tasks, NEW x \in Tasks, x # p, OnList(q, x)
  PROVE  Behind(q, list_move_tail(q, x), p)
<1> DEFINE d == list_del(q, x)
<1>1. d \in Seq(Tasks)
  BY ListDel DEF ListOf
<1>2. Behind(q, d, p)
  BY DelBehind
<1> HIDE DEF d
<1>3. Behind(d, list_add_tail(d, x), p)
  BY <1>1, AddBehind
<1> QED BY <1>2, <1>3, BehindTransitive DEF list_move_tail, d

\* put_prev_task_ras of another task keeps the place of p.
LEMMA PutPrevBehind ==
  ASSUME NEW r, NEW T, RqInv(r, T), NEW p \in Tasks, NEW x \in Tasks, x # p
  PROVE  Behind(r.ras, put_prev_task_ras(r, x).ras, p)
<1>1. r \in RunQueue /\ r.ras \in Seq(Tasks) /\ ListOf(r.ras, RasSet(T))
  BY DEF RqInv, RunQueue
<1>2. CASE OnList(r.ras, x)
  <2>1. put_prev_task_ras(r, x).ras = list_move_tail(r.ras, x)
    BY <1>1, <1>2 DEF put_prev_task_ras, RunQueue
  <2> QED BY <1>1, <1>2, <2>1, MoveBehind
<1>3. CASE ~OnList(r.ras, x)
  BY <1>3 DEF put_prev_task_ras, Behind
<1> QED BY <1>2, <1>3

\* yield_task of another task keeps the place of p.
LEMMA YieldBehind ==
  ASSUME NEW r, NEW T, RqInv(r, T), NEW p \in Tasks, NEW x \in Tasks, x # p
  PROVE  Behind(r.ras, yield_task(r, x).ras, p)
<1>1. r \in RunQueue
  BY DEF RqInv
<1>2. CASE task[x].sched_class = "ras"
  BY <1>2, PutPrevBehind DEF yield_task
<1>3. CASE task[x].sched_class # "ras"
  <2>1. yield_task(r, x).ras = r.ras
    BY <1>1, <1>3 DEF yield_task, RunQueue
  <2> QED BY <2>1 DEF Behind
<1> QED BY <1>2, <1>3

\* Enqueueing another task at the tail keeps the place of p.
LEMMA EnqueueBehind ==
  ASSUME NEW r \in RunQueue, NEW p \in Tasks, NEW x \in Tasks, x # p, NEW t \in TaskRecord
  PROVE  Behind(r.ras, enqueue_task(r, x, t, FALSE).ras, p)
<1>0. r.ras \in Seq(Tasks) /\ t.sched_class \in {"rt", "ras", "fair"}
  BY DEF RunQueue, TaskRecord
<1>1. CASE t.sched_class = "ras"
  <2>1. enqueue_task(r, x, t, FALSE).ras = list_add_tail(r.ras, x)
    BY <1>1 DEF enqueue_task, enqueue_task_ras, RunQueue
  <2> QED BY <1>0, <2>1, AddBehind
<1>2. CASE t.sched_class # "ras"
  <2>1. enqueue_task(r, x, t, FALSE).ras = r.ras
    BY <1>0, <1>2 DEF enqueue_task, enqueue_task_rt, RunQueue
  <2> QED BY <2>1 DEF Behind
<1> QED BY <1>1, <1>2

\* Dequeueing another task keeps the place of p.
LEMMA DequeueBehind ==
  ASSUME NEW r \in RunQueue, NEW p \in Tasks, NEW x \in Tasks, x # p, NEW t \in TaskRecord
  PROVE  Behind(r.ras, dequeue_task(r, x, t).ras, p)
<1>0. r.ras \in Seq(Tasks) /\ t.sched_class \in {"rt", "ras", "fair"}
  BY DEF RunQueue, TaskRecord
<1>1. CASE t.sched_class = "ras" /\ OnList(r.ras, x)
  <2>1. dequeue_task(r, x, t).ras = list_del(r.ras, x)
    BY <1>1 DEF dequeue_task, dequeue_task_ras, RunQueue
  <2> QED BY <1>0, <1>1, <2>1, DelBehind
<1>2. CASE ~(t.sched_class = "ras" /\ OnList(r.ras, x))
  <2>1. dequeue_task(r, x, t).ras = r.ras
    BY <1>0, <1>2 DEF dequeue_task, dequeue_task_ras, dequeue_task_rt, RunQueue
  <2> QED BY <2>1 DEF Behind
<1> QED BY <1>1, <1>2

\* A step that ends in a context switch, from the run queue r and the tasks T: no
\* queued task got a new slice and none that does not run was overtaken.
Switches(r, T) ==
  /\ StateOK(r, T) /\ switch_to_next(r, T)
  /\ \A x \in Tasks : task[x].on_rq /\ T[x].on_rq => T[x].time_slice = task[x].time_slice
  /\ \A x \in Tasks \ {curr} : task[x].on_rq => Behind(rq.ras, r.ras, x)

\* Every way into __schedule has this shape.
LEMMA ScheduleShape ==
  ASSUME IInv,
         \/ preempt_schedule \/ schedule_sleep \/ schedule_signal \/ do_exit \/ sched_yield
         \/ \E w \in Workers : schedule_worker(w)
  PROVE  \E r, T : Switches(r, T)
<1>0. StateOK(rq, task) /\ task \in [Tasks -> TaskRecord] /\ rq \in RunQueue /\ RqInv(rq, task)
  BY DEF IInv, StateOK, RqInv
<1>1. \A x \in Tasks : Behind(rq.ras, rq.ras, x)
  BY DEF Behind
<1>2. ASSUME curr # Idle
      PROVE  curr \in Tasks /\ task[curr] \in TaskRecord /\ TaskInv(task[curr])
             /\ task[curr].on_rq
  BY <1>2 DEF IInv
<1>3. CASE preempt_schedule
  <2>1. Switches(rq, task)
    BY <1>0, <1>1, <1>3 DEF preempt_schedule, Switches
  <2> QED BY <2>1
<1>4. CASE schedule_sleep
  <2> DEFINE t == [task[curr] EXCEPT !.on_rq = FALSE]
             T == [task EXCEPT ![curr] = t]
             r == dequeue_task(rq, curr, task[curr])
  <2>1. curr # Idle /\ task[curr].state = "sleeping" /\ switch_to_next(r, T)
    BY <1>4 DEF schedule_sleep
  <2>2. t \in TaskRecord /\ ~t.on_rq /\ TaskInv(t)
    BY <1>2, <2>1 DEF TaskRecord, TaskInv, TaskFits, SliceFits
  <2> HIDE DEF t
  <2>3. StateOK(r, T)
    BY <1>0, <1>2, <2>1, <2>2, DeactivateState
  <2>4. \A x \in Tasks : T[x].on_rq => T[x].time_slice = task[x].time_slice
    BY <1>0, <2>2
  <2>5. \A x \in Tasks \ {curr} : Behind(rq.ras, r.ras, x)
    BY <1>0, <1>2, <2>1, DequeueBehind
  <2> HIDE DEF T, r
  <2>6. Switches(r, T)
    BY <2>1, <2>3, <2>4, <2>5 DEF Switches
  <2> QED BY <2>6
<1>5. CASE schedule_signal
  <2> DEFINE t == [task[curr] EXCEPT !.state = "running"]
             T == [task EXCEPT ![curr] = t]
  <2>1. curr # Idle /\ task[curr].state = "sleeping" /\ switch_to_next(rq, T)
    BY <1>5 DEF schedule_signal
  <2>2. t \in TaskRecord /\ TaskInv(t) /\ t.on_rq = task[curr].on_rq
        /\ t.sched_class = task[curr].sched_class /\ t.prio = task[curr].prio
        /\ t.time_slice = task[curr].time_slice
    BY <1>2, <2>1 DEF TaskRecord, TaskInv, TaskFits, SliceFits
  <2> HIDE DEF t
  <2>3. StateOK(rq, T)
    BY <1>0, <1>2, <2>1, <2>2, QuietRecord
  <2>4. \A x \in Tasks : T[x].time_slice = task[x].time_slice
    BY <1>0, <2>2
  <2> HIDE DEF T
  <2>6. Switches(rq, T)
    BY <1>1, <2>1, <2>3, <2>4 DEF Switches
  <2> QED BY <2>6
<1>6. CASE do_exit
  <2> DEFINE t == [InitTask EXCEPT !.state = "dead"]
             T == [task EXCEPT ![curr] = t]
             r == dequeue_task(rq, curr, task[curr])
  <2>1. curr # Idle /\ switch_to_next(r, T)
    BY <1>6 DEF do_exit, InSyscall
  <2>2. t \in TaskRecord /\ ~t.on_rq /\ TaskInv(t)
    BY DeadTaskOK
  <2> HIDE DEF t
  <2>3. StateOK(r, T)
    BY <1>0, <1>2, <2>1, <2>2, DeactivateState
  <2>4. \A x \in Tasks : T[x].on_rq => T[x].time_slice = task[x].time_slice
    BY <1>0, <2>2
  <2>5. \A x \in Tasks \ {curr} : Behind(rq.ras, r.ras, x)
    BY <1>0, <1>2, <2>1, DequeueBehind
  <2> HIDE DEF T, r
  <2>6. Switches(r, T)
    BY <2>1, <2>3, <2>4, <2>5 DEF Switches
  <2> QED BY <2>6
<1>7. CASE sched_yield
  <2> DEFINE r == yield_task(rq, curr)
  <2>1. curr # Idle /\ switch_to_next(r, task)
    BY <1>7 DEF sched_yield, InSyscall
  <2>2. RtInRange(task[curr])
    BY <1>2, <2>1 DEF TaskInv, TaskFits, RtInRange
  <2>3. StateOK(r, task)
    BY <1>0, <1>2, <2>1, <2>2, YieldOK DEF StateOK
  <2>4. \A x \in Tasks \ {curr} : Behind(rq.ras, r.ras, x)
    BY <1>0, <1>2, <2>1, YieldBehind
  <2> HIDE DEF r
  <2>5. Switches(r, task)
    BY <2>1, <2>3, <2>4 DEF Switches
  <2> QED BY <2>5
<1>8. ASSUME NEW w \in Workers, schedule_worker(w)
      PROVE  \E r, T : Switches(r, T)
  <2>0. w \in Tasks /\ curr \in Tasks /\ w # curr /\ curr # Idle
    BY <1>8, TaskConstants DEF schedule_worker
  <2>1. task[w] \in TaskRecord /\ TaskInv(task[w])
    BY <2>0 DEF IInv
  <2> DEFINE t == [task[w] EXCEPT !.state = "running", !.on_rq = TRUE]
             o == [task[curr] EXCEPT !.on_rq = FALSE]
             n == IF task[w].on_rq THEN t ELSE enqueued(t)
             T == [task EXCEPT ![curr].on_rq = FALSE, ![w] = n]
             d == dequeue_task(rq, curr, task[curr])
             r == IF task[w].on_rq THEN d ELSE enqueue_task(d, w, t, FALSE)
             D == [task EXCEPT ![curr] = o]
  <2>2. /\ task[curr].state = "sleeping" /\ task[w].state = "sleeping"
        /\ switch_to_next(r, T)
    BY <1>8 DEF schedule_worker
  <2>3. o \in TaskRecord /\ ~o.on_rq /\ TaskInv(o)
    BY <1>2, <2>0, <2>2 DEF TaskRecord, TaskInv, TaskFits, SliceFits
  <2>4. /\ t \in TaskRecord /\ TaskFits(t) /\ t.on_rq /\ t.sched_class = task[w].sched_class
        /\ t.prio = task[w].prio /\ (task[w].on_rq => TaskInv(t))
        /\ t.time_slice = task[w].time_slice
    BY <2>1, <2>2 DEF TaskRecord, TaskInv, TaskFits, SliceFits
  <2>5. D[w] = task[w] /\ T = [D EXCEPT ![w] = n]
    BY <1>0, <2>0
  <2>6. /\ T[curr] = o /\ T[w] = n
        /\ \A x \in Tasks : x # curr /\ x # w => T[x] = task[x]
    BY <1>0, <2>0
  <2> HIDE DEF o, t, d
  <2>7. StateOK(d, D)
    BY <1>0, <1>2, <2>0, <2>3, DeactivateState DEF d
  <2> HIDE DEF D
  <2>8. StateOK(r, T)
    <3>1. CASE task[w].on_rq
      <4>1. T = [D EXCEPT ![w] = t] /\ r = d
        BY <2>5, <3>1
      <4> HIDE DEF T, r
      <4>2. /\ t.on_rq = D[w].on_rq /\ t.sched_class = D[w].sched_class
            /\ t.prio = D[w].prio /\ TaskInv(t) /\ t \in TaskRecord
        BY <2>1, <2>4, <2>5, <3>1 DEF TaskRecord
      <4> QED BY <2>0, <2>7, <4>1, <4>2, QuietRecord
    <3>2. CASE ~task[w].on_rq
      <4>1. T = [D EXCEPT ![w] = enqueued(t)] /\ r = enqueue_task(d, w, t, FALSE)
        BY <2>5, <3>2
      <4> HIDE DEF T, r
      <4>2. ~D[w].on_rq /\ TaskFits(t) /\ t.on_rq /\ t \in TaskRecord
        BY <2>4, <2>5, <3>2
      <4> QED BY <2>0, <2>7, <4>1, <4>2, ActivateState
    <3> QED BY <3>1, <3>2
  <2>9. ASSUME NEW x \in Tasks, task[x].on_rq, T[x].on_rq
        PROVE  T[x].time_slice = task[x].time_slice
    <3> HIDE DEF T
    <3>1. x # curr
      BY <2>3, <2>6, <2>9
    <3>2. x = w => T[x] = t
      BY <2>6, <2>9
    <3> QED BY <2>4, <2>6, <3>1, <3>2
  <2>10. ASSUME NEW x \in Tasks \ {curr}, task[x].on_rq
         PROVE  Behind(rq.ras, r.ras, x)
    <3>1. Behind(rq.ras, d.ras, x)
      BY <1>0, <1>2, <2>0, DequeueBehind DEF d
    <3>2. CASE task[w].on_rq
      BY <3>1, <3>2
    <3>3. CASE ~task[w].on_rq
      <4>1. d \in RunQueue /\ x # w
        BY <2>7, <2>10, <3>3 DEF StateOK, RqInv
      <4>2. Behind(d.ras, enqueue_task(d, w, t, FALSE).ras, x)
        BY <2>0, <2>4, <4>1, EnqueueBehind
      <4> QED BY <3>1, <3>3, <4>2, BehindTransitive
    <3> QED BY <3>2, <3>3
  <2> HIDE DEF T, r
  <2>11. Switches(r, T)
    BY <2>2, <2>8, <2>9, <2>10 DEF Switches
  <2> QED BY <2>11
<1> QED BY <1>3, <1>4, <1>5, <1>6, <1>7, <1>8

\* A step that writes the record t of p and leaves the run queue and the flag alone.
Touches(p, t) ==
  /\ task' = [task EXCEPT ![p] = t] /\ UNCHANGED <<rq, curr, need_resched>>
  /\ t.on_rq => /\ task[p].on_rq /\ t.sched_class = task[p].sched_class
                /\ t.prio = task[p].prio
                /\ p \notin Polled => t.time_slice = task[p].time_slice

\* A step that takes p off its list and puts it back with the record t.  It reports a
\* change of class or prio, or changes neither the class nor a real-time prio.
Requeues(p, t, head) ==
  /\ t \in TaskRecord /\ TaskFits(t) /\ t.on_rq = task[p].on_rq /\ head \in BOOLEAN
  /\ Requeue(p, t, head)
  /\ head => t.pi # task[p].pi
  /\ task[p].sched_class = "ras" =>
       \/ t.policy # task[p].policy \/ t.group # task[p].group
       \/ t.static_prio # task[p].static_prio \/ t.pi # task[p].pi
  /\ \/ need_resched' \in check_class_changed([task EXCEPT ![p] = t], p)
     \/ /\ t.sched_class = task[p].sched_class
        /\ t.sched_class = "rt" => t.prio = task[p].prio
        /\ need_resched => need_resched'

\* sched_setscheduler requeues.
LEMMA SetschedulerShape ==
  ASSUME IInv, NEW p \in Tasks, NEW pol \in Policies, NEW rtprio \in RtPriorities \cup {0},
         NEW reset \in ResetFlags, sched_setscheduler(p, pol, rtprio, reset)
  PROVE  \E t : Requeues(p, t, FALSE)
<1>0. task[p] \in TaskRecord /\ TaskInv(task[p])
  BY DEF IInv
<1> DEFINE c == [task[p] EXCEPT !.policy = pol, !.rt_priority = rtprio, !.reset_on_fork = reset]
           pr == rt_mutex_getprio(c)
           d == [c EXCEPT !.prio = pr]
           cl == class_of(pol, pr)
           t == [d EXCEPT !.sched_class = class_of(pol, d.prio)]
<1>1. /\ Requeue(p, t, FALSE)
      /\ need_resched' \in check_class_changed([task EXCEPT ![p] = t], p)
      /\ ~(pol = task[p].policy /\ (~rt_policy(pol) \/ rtprio = task[p].rt_priority))
  BY DEF sched_setscheduler
<1>2. /\ pol \in AllPolicies /\ rtprio \in 0 .. (MAX_RT_PRIO - 1) /\ reset \in BOOLEAN
  BY TaskConstants, PrioConstants
<1>3. /\ c \in TaskRecord /\ c.policy = pol /\ c.on_rq = task[p].on_rq
      /\ c.state = task[p].state /\ c.new = task[p].new
  BY <1>0, <1>2 DEF TaskRecord
<1> HIDE DEF c
<1>4. /\ pr \in 0 .. (MAX_PRIO - 1)
      /\ rt_policy(pol) => pr < MAX_RT_PRIO
  BY <1>3, PrioTypes, PrioConstants
<1> HIDE DEF pr
<1>5. /\ d \in TaskRecord /\ d.prio = pr /\ d.policy = pol /\ d.on_rq = task[p].on_rq
      /\ d.state = task[p].state /\ d.new = task[p].new
  BY <1>3, <1>4 DEF TaskRecord
<1> HIDE DEF d
<1>6. /\ cl \in {"rt", "ras", "fair"} /\ (cl = "ras" => pol = "RAS")
      /\ (cl = "rt" => pr < MAX_RT_PRIO) /\ (cl = "fair" => pr >= MAX_RT_PRIO)
      /\ (rt_policy(pol) => cl = "rt")
  BY <1>4, PrioConstants DEF class_of, rt_policy
<1>7. t = [d EXCEPT !.sched_class = cl]
  BY <1>5
<1> HIDE DEF cl, t
<1>8. /\ t \in TaskRecord /\ t.sched_class = cl /\ t.prio = pr /\ t.policy = pol
      /\ t.on_rq = task[p].on_rq /\ t.state = task[p].state /\ t.new = task[p].new
  BY <1>5, <1>6, <1>7 DEF TaskRecord
<1>9. TaskFits(t)
  BY <1>0, <1>6, <1>8 DEF TaskInv, TaskFits
<1>10. task[p].sched_class = "ras" => t.policy # task[p].policy
  BY <1>0, <1>1, <1>8 DEF TaskInv, TaskFits, rt_policy
<1>11. Requeues(p, t, FALSE)
  BY <1>1, <1>8, <1>9, <1>10 DEF Requeues
<1> QED BY <1>11

\* set_user_nice touches a task of a real-time policy and requeues any other.
LEMMA NiceShape ==
  ASSUME IInv, NEW p \in Tasks, NEW n \in NicePrios, set_user_nice(p, n)
  PROVE  \E t : Touches(p, t) \/ Requeues(p, t, FALSE)
<1>0. task[p] \in TaskRecord /\ TaskInv(task[p])
  BY DEF IInv
<1>1. n \in MAX_RT_PRIO .. (MAX_PRIO - 1) /\ n # task[p].static_prio
  BY PrioConstants DEF set_user_nice
<1> DEFINE c == [task[p] EXCEPT !.static_prio = n]
<1>2. /\ c \in TaskRecord /\ TaskInv(c) /\ c.on_rq = task[p].on_rq /\ c.prio = task[p].prio
      /\ c.sched_class = task[p].sched_class /\ c.policy = task[p].policy
      /\ c.state = task[p].state /\ c.new = task[p].new /\ c.time_slice = task[p].time_slice
      /\ c.static_prio = n
  BY <1>0, <1>1 DEF TaskRecord, TaskInv, TaskFits, SliceFits
<1>3. CASE rt_policy(task[p].policy)
  <2>1. task' = [task EXCEPT ![p] = c] /\ UNCHANGED <<rq, curr, need_resched>>
    BY <1>3 DEF set_user_nice
  <2> HIDE DEF c
  <2>2. Touches(p, c)
    BY <1>2, <2>1 DEF Touches
  <2> QED BY <2>2
<1>4. CASE ~rt_policy(task[p].policy)
  <2> DEFINE pr == effective_prio(c)
             t == [c EXCEPT !.prio = pr]
  <2>1. Requeue(p, t, FALSE) /\ (need_resched => need_resched')
    BY <1>4, Zenon DEF set_user_nice
  <2> HIDE DEF c
  <2>2. /\ pr \in 0 .. (MAX_PRIO - 1)
        /\ (c.prio < MAX_RT_PRIO => pr = c.prio)
        /\ (c.prio >= MAX_RT_PRIO => pr >= MAX_RT_PRIO)
    <3>1. c.prio \in Nat /\ ~rt_policy(c.policy)
      BY <1>2, <1>4 DEF TaskRecord
    <3> QED BY <1>2, <3>1, PrioTypes, PrioConstants DEF effective_prio
  <2> HIDE DEF pr
  <2>3. /\ t \in TaskRecord /\ t.on_rq = c.on_rq /\ t.prio = pr /\ t.policy = c.policy
        /\ t.sched_class = c.sched_class /\ t.state = c.state /\ t.new = c.new
        /\ t.static_prio = c.static_prio
    BY <1>2, <2>2 DEF TaskRecord
  <2> HIDE DEF t
  <2>4. TaskFits(t)
    BY <1>2, <2>2, <2>3 DEF TaskInv, TaskFits
  <2>5. t.sched_class = "rt" => t.prio = task[p].prio
    BY <1>2, <2>2, <2>3, <2>4 DEF TaskInv, TaskFits
  <2>6. Requeues(p, t, FALSE)
    BY <1>1, <1>2, <2>1, <2>3, <2>4, <2>5 DEF Requeues
  <2> QED BY <2>6
<1> QED BY <1>3, <1>4

\* rt_mutex_setprio requeues when the prio changes; only then may it use the head.
LEMMA BoostShape ==
  ASSUME IInv, NEW p \in Tasks, NEW pi \in BoostPrios \cup {MAX_PRIO}, rt_mutex_setprio(p, pi)
  PROVE  \E t : Touches(p, t) \/ \E head : Requeues(p, t, head)
<1>0. task[p] \in TaskRecord /\ TaskInv(task[p])
  BY DEF IInv
<1>1. pi \in 0 .. MAX_PRIO /\ pi # task[p].pi
  BY PrioConstants DEF rt_mutex_setprio
<1> DEFINE c == [task[p] EXCEPT !.pi = pi]
           pr == rt_mutex_getprio(c)
           cl == class_of(c.policy, pr)
           t == [c EXCEPT !.prio = pr, !.sched_class = cl]
<1>2. /\ c \in TaskRecord /\ TaskInv(c) /\ c.on_rq = task[p].on_rq /\ c.prio = task[p].prio
      /\ c.sched_class = task[p].sched_class /\ c.policy = task[p].policy
      /\ c.state = task[p].state /\ c.new = task[p].new /\ c.time_slice = task[p].time_slice
      /\ c.pi = pi
  BY <1>0, <1>1 DEF TaskRecord, TaskInv, TaskFits, SliceFits
<1>3. CASE pr = task[p].prio
  <2>1. task' = [task EXCEPT ![p] = c] /\ UNCHANGED <<rq, curr, need_resched>>
    BY <1>3 DEF rt_mutex_setprio
  <2> HIDE DEF c
  <2>2. Touches(p, c)
    BY <1>2, <2>1 DEF Touches
  <2> QED BY <2>2
<1>4. CASE pr # task[p].prio
  <2>1. /\ Requeue(p, t, task[p].prio < pr)
        /\ need_resched' \in check_class_changed([task EXCEPT ![p] = t], p)
    BY <1>4 DEF rt_mutex_setprio
  <2> HIDE DEF c
  <2>2. /\ pr \in 0 .. (MAX_PRIO - 1)
        /\ rt_policy(c.policy) => pr < MAX_RT_PRIO
    BY <1>2, PrioTypes, PrioConstants
  <2> HIDE DEF pr
  <2>3. /\ cl \in {"rt", "ras", "fair"} /\ (cl = "ras" => c.policy = "RAS")
        /\ (cl = "rt" => pr < MAX_RT_PRIO) /\ (cl = "fair" => pr >= MAX_RT_PRIO)
        /\ (rt_policy(c.policy) => cl = "rt")
    BY <2>2, PrioConstants DEF class_of, rt_policy
  <2> HIDE DEF cl
  <2>4. /\ t \in TaskRecord /\ t.on_rq = c.on_rq /\ t.prio = pr /\ t.policy = c.policy
        /\ t.sched_class = cl /\ t.state = c.state /\ t.new = c.new /\ t.pi = c.pi
    BY <1>2, <2>2, <2>3 DEF TaskRecord
  <2> HIDE DEF t
  <2>5. TaskFits(t)
    BY <1>2, <2>3, <2>4 DEF TaskInv, TaskFits
  <2>6. PICK head \in BOOLEAN : Requeue(p, t, head)
    <3>1. CASE task[p].prio < pr
      <4>1. (task[p].prio < pr) = TRUE
        BY <3>1
      <4> QED BY <2>1, <4>1
    <3>2. CASE ~(task[p].prio < pr)
      <4>1. (task[p].prio < pr) = FALSE
        BY <3>2
      <4> QED BY <2>1, <4>1
    <3> QED BY <3>1, <3>2
  <2>7. Requeues(p, t, head)
    BY <1>1, <1>2, <2>1, <2>4, <2>5, <2>6 DEF Requeues
  <2> QED BY <2>7
<1> QED BY <1>3, <1>4

\* sched_move_task requeues.
LEMMA MoveShape ==
  ASSUME IInv, NEW p \in Tasks, NEW g \in Groups, sched_move_task(p, g)
  PROVE  \E t : Requeues(p, t, FALSE)
<1>0. task[p] \in TaskRecord /\ TaskInv(task[p])
  BY DEF IInv
<1> DEFINE t == [task[p] EXCEPT !.group = g]
<1>1. Requeue(p, t, FALSE) /\ need_resched' = need_resched /\ g # task[p].group
  BY DEF sched_move_task
<1>2. g \in GroupPaths
  BY TaskConstants
<1>3. /\ t \in TaskRecord /\ TaskFits(t) /\ t.on_rq = task[p].on_rq /\ t.group = g
      /\ t.sched_class = task[p].sched_class /\ t.prio = task[p].prio
  BY <1>0, <1>2 DEF TaskRecord, TaskInv, TaskFits
<1> HIDE DEF t
<1>4. Requeues(p, t, FALSE)
  BY <1>1, <1>3 DEF Requeues
<1> QED BY <1>4

\* set_current_state, sched_fork, sched_rr_get_interval and set_wcounts only write a record.
LEMMA TouchShape ==
  ASSUME IInv,
         \/ set_current_state \/ (\E c \in Tasks : sched_fork(c)) \/ Polling
         \/ \E p \in Tasks, w \in WCounts : set_wcounts(p, w)
  PROVE  \E p \in Tasks : \E t : Touches(p, t)
<1>0. /\ task \in [Tasks -> TaskRecord] /\ curr \in Tasks \cup {Idle}
      /\ \A p \in Tasks : task[p] \in TaskRecord /\ TaskInv(task[p])
  BY DEF IInv
<1>1. CASE set_current_state
  <2> DEFINE t == [task[curr] EXCEPT !.state = "sleeping"]
  <2>1. curr \in Tasks /\ task' = [task EXCEPT ![curr] = t] /\ UNCHANGED <<rq, curr, need_resched>>
    BY <1>0, <1>1 DEF set_current_state, InSyscall
  <2>2. /\ t.on_rq = task[curr].on_rq /\ t.sched_class = task[curr].sched_class
        /\ t.prio = task[curr].prio /\ t.time_slice = task[curr].time_slice
    BY <1>0, <2>1 DEF TaskRecord
  <2> HIDE DEF t
  <2>3. Touches(curr, t)
    BY <2>1, <2>2 DEF Touches
  <2> QED BY <2>1, <2>3
<1>2. ASSUME NEW c \in Tasks, sched_fork(c)
      PROVE  \E p \in Tasks : \E t : Touches(p, t)
  <2> DEFINE t == forked(task[curr])
  <2>1. task' = [task EXCEPT ![c] = t] /\ UNCHANGED <<rq, curr, need_resched>> /\ curr \in Tasks
    BY <1>0, <1>2 DEF sched_fork, InSyscall
  <2>2. ~t.on_rq
    BY <1>0, <2>1 DEF forked, TaskRecord
  <2> HIDE DEF t
  <2>3. Touches(c, t)
    BY <2>1, <2>2 DEF Touches
  <2> QED BY <2>3
<1>3. ASSUME NEW p \in Polled, sched_rr_get_interval(p)
      PROVE  \E x \in Tasks : \E t : Touches(x, t)
  <2> DEFINE t == refill(task[p])
  <2>0. p \in Tasks
    BY TaskConstants
  <2>1. task' = [task EXCEPT ![p] = t] /\ UNCHANGED <<rq, curr, need_resched>>
    BY <1>3 DEF sched_rr_get_interval
  <2>2. /\ t.on_rq = task[p].on_rq /\ t.sched_class = task[p].sched_class
        /\ t.prio = task[p].prio
    BY <1>0, <2>0 DEF refill, TaskRecord
  <2> HIDE DEF t
  <2>3. Touches(p, t)
    BY <2>1, <2>2 DEF Touches
  <2> QED BY <2>0, <2>3
<1>4. ASSUME NEW p \in Tasks, NEW w \in WCounts, set_wcounts(p, w)
      PROVE  \E x \in Tasks : \E t : Touches(x, t)
  <2> DEFINE t == [task[p] EXCEPT !.wcounts = w]
  <2>1. task' = [task EXCEPT ![p] = t] /\ UNCHANGED <<rq, curr, need_resched>>
    BY <1>4 DEF set_wcounts
  <2>2. /\ t.on_rq = task[p].on_rq /\ t.sched_class = task[p].sched_class
        /\ t.prio = task[p].prio /\ t.time_slice = task[p].time_slice
    BY <1>0 DEF TaskRecord
  <2> HIDE DEF t
  <2>3. Touches(p, t)
    BY <2>1, <2>2 DEF Touches
  <2> QED BY <2>3
<1> QED BY <1>1, <1>2, <1>3, <1>4 DEF Polling

\* A wakeup that leaves a queued task in its place and puts any other at the tail.
Wakes(p, t) ==
  /\ t \in TaskRecord /\ TaskFits(t) /\ t.on_rq
  /\ t.sched_class = task[p].sched_class /\ t.prio = task[p].prio
  /\ t.time_slice = task[p].time_slice
  /\ task' = [task EXCEPT ![p] = IF task[p].on_rq THEN t ELSE enqueued(t)]
  /\ rq' = IF task[p].on_rq THEN rq ELSE enqueue_task(rq, p, t, FALSE)
  /\ need_resched' \in check_preempt_curr(task', p)
  /\ curr' = curr

\* Both wakeups have this shape.
LEMMA WakeShape ==
  ASSUME IInv, NEW p \in Tasks, try_to_wake_up(p) \/ wake_up_new_task(p)
  PROVE  \E t : Wakes(p, t)
<1>0. task[p] \in TaskRecord /\ TaskInv(task[p])
  BY DEF IInv
<1>1. CASE try_to_wake_up(p)
  <2> DEFINE t == [task[p] EXCEPT !.state = "running", !.on_rq = TRUE]
             T == [task EXCEPT ![p] = IF task[p].on_rq THEN t ELSE enqueued(t)]
  <2>1. /\ task[p].state = "sleeping" /\ task' = T /\ curr' = curr
        /\ rq' = IF task[p].on_rq THEN rq ELSE enqueue_task(rq, p, t, FALSE)
        /\ need_resched' \in check_preempt_curr(T, p)
    BY <1>1 DEF try_to_wake_up
  <2>2. /\ t \in TaskRecord /\ TaskFits(t) /\ t.on_rq /\ t.sched_class = task[p].sched_class
        /\ t.prio = task[p].prio /\ t.time_slice = task[p].time_slice
    BY <1>0, <2>1 DEF TaskRecord, TaskInv, TaskFits, SliceFits
  <2> HIDE DEF t
  <2>3. need_resched' \in check_preempt_curr(task', p)
    BY <2>1
  <2>4. Wakes(p, t)
    BY <2>1, <2>2, <2>3 DEF Wakes
  <2> QED BY <2>4
<1>2. CASE wake_up_new_task(p)
  <2> DEFINE t == [task[p] EXCEPT !.on_rq = TRUE, !.new = FALSE]
             T == [task EXCEPT ![p] = enqueued(t)]
  <2>1. /\ task[p].state # "dead" /\ task[p].new /\ task' = T /\ curr' = curr
        /\ rq' = enqueue_task(rq, p, t, FALSE)
        /\ need_resched' \in check_preempt_curr(T, p)
    BY <1>2 DEF wake_up_new_task, Alive
  <2>2. /\ t \in TaskRecord /\ TaskFits(t) /\ t.on_rq /\ ~task[p].on_rq
        /\ t.sched_class = task[p].sched_class
        /\ t.prio = task[p].prio /\ t.time_slice = task[p].time_slice
    BY <1>0, <2>1 DEF TaskRecord, TaskInv, TaskFits
  <2> HIDE DEF t
  <2>3. need_resched' \in check_preempt_curr(task', p)
    BY <2>1
  <2>4. Wakes(p, t)
    BY <2>1, <2>2, <2>3 DEF Wakes
  <2> QED BY <2>4
<1> QED BY <1>1, <1>2

\* A tick of the running task: its slice shrinks or, used up, is replaced, and its
\* list is rotated.
Ticks(t) ==
  /\ curr \in Tasks /\ curr # Idle /\ curr' = curr
  /\ task' = [task EXCEPT ![curr] = t]
  /\ t.on_rq = task[curr].on_rq /\ t.sched_class = task[curr].sched_class
  /\ t.prio = task[curr].prio
  /\ t.sched_class = "ras" /\ t.time_slice > task[curr].time_slice => task[curr].time_slice = 1
  /\ rq' \in {rq, put_prev_task_ras(rq, curr), yield_task(rq, curr)}
  /\ need_resched => need_resched'
  /\ task[curr].sched_class = "fair" => need_resched'

\* scheduler_tick has this shape.
LEMMA TickShape ==
  ASSUME IInv, scheduler_tick
  PROVE  \E t : Ticks(t)
<1>0. /\ curr \in Tasks /\ curr # Idle /\ task[curr] \in TaskRecord /\ TaskInv(task[curr])
      /\ task[curr].on_rq /\ curr' = curr /\ need_resched \in BOOLEAN
      /\ task \in [Tasks -> TaskRecord]
  BY DEF IInv, scheduler_tick
<1>1. CASE task[curr].sched_class = "ras" /\ task_tick_ras
  <2> DEFINE left == IF task[curr].time_slice = 0 THEN UINT_MAX ELSE task[curr].time_slice - 1
  <2>1. task[curr].time_slice \in Nat /\ 1 <= task[curr].time_slice
    BY <1>0, <1>1, SliceConstants DEF TaskInv, SliceFits, TaskRecord
  <2>2. CASE left # 0
    <3> DEFINE t == [task[curr] EXCEPT !.time_slice = left]
    <3>1. task' = [task EXCEPT ![curr] = t] /\ rq' = rq /\ need_resched' = need_resched
      BY <1>1, <2>2 DEF task_tick_ras
    <3>2. /\ t.on_rq = task[curr].on_rq /\ t.sched_class = task[curr].sched_class
          /\ t.prio = task[curr].prio /\ t.time_slice = left
      BY <1>0 DEF TaskRecord
    <3>3. ~(left > task[curr].time_slice)
      BY <2>1
    <3> HIDE DEF left, t
    <3>4. Ticks(t)
      BY <1>0, <1>1, <3>1, <3>2, <3>3 DEF Ticks
    <3> QED BY <3>4
  <2>3. CASE left = 0
    <3> DEFINE t == refill(task[curr])
    <3>1. /\ task' = [task EXCEPT ![curr] = t]
          /\ rq' = put_prev_task_ras(rq, curr) \/ rq' = rq
          /\ need_resched' = TRUE \/ need_resched' = need_resched
      BY <1>1, <2>3 DEF task_tick_ras
    <3>2. /\ t.on_rq = task[curr].on_rq /\ t.sched_class = task[curr].sched_class
          /\ t.prio = task[curr].prio
      BY <1>0 DEF refill, TaskRecord
    <3>3. task[curr].time_slice = 1
      BY <2>1, <2>3
    <3> HIDE DEF t
    <3>4. Ticks(t)
      BY <1>0, <1>1, <3>1, <3>2, <3>3 DEF Ticks
    <3> QED BY <3>4
  <2> QED BY <2>2, <2>3
<1>2. CASE task[curr].sched_class = "rt" /\ task_tick_rt
  <2> DEFINE left == IF task[curr].rr_slice = 0 THEN UINT_MAX ELSE task[curr].rr_slice - 1
             v == IF left # 0 THEN left ELSE RR_TIMESLICE
             t == [task[curr] EXCEPT !.rr_slice = v]
  <2>1. /\ task' = [task EXCEPT ![curr] = t]
        /\ rq' = yield_task(rq, curr) \/ rq' = rq
        /\ need_resched' = TRUE \/ need_resched' = need_resched
    BY <1>2 DEF task_tick_rt
  <2>2. /\ t.on_rq = task[curr].on_rq /\ t.sched_class = task[curr].sched_class
        /\ t.prio = task[curr].prio
    BY <1>0 DEF TaskRecord
  <2> HIDE DEF t
  <2>3. Ticks(t)
    BY <1>0, <1>2, <2>1, <2>2 DEF Ticks
  <2> QED BY <2>3
<1>3. CASE task[curr].sched_class = "fair" /\ need_resched' = TRUE /\ UNCHANGED <<task, rq>>
  <2>1. task' = [task EXCEPT ![curr] = task[curr]]
    BY <1>0, <1>3
  <2>2. Ticks(task[curr])
    BY <1>0, <1>3, <2>1 DEF Ticks
  <2> QED BY <2>2
<1> QED BY <1>1, <1>2, <1>3 DEF scheduler_tick

\* Every step has one of these shapes.
LEMMA StepShape ==
  ASSUME IInv, Next
  PROVE  \/ \E r, T : Switches(r, T)
         \/ \E p \in Tasks : \E t : Touches(p, t)
         \/ \E p \in Tasks : \E t, head : Requeues(p, t, head)
         \/ \E p \in Tasks : \E t : Wakes(p, t)
         \/ \E t : Ticks(t)
<1>1. CASE Wakeups
  BY <1>1, WakeShape DEF Wakeups
<1>2. CASE Scheduling
  BY <1>2, ScheduleShape, TouchShape DEF Scheduling
<1>3. CASE Lifecycle
  BY <1>3, ScheduleShape, TouchShape DEF Lifecycle
<1>4. CASE scheduler_tick
  BY <1>4, TickShape
<1>5. CASE sched_yield
  BY <1>5, ScheduleShape
<1>6. CASE Parameters
  BY <1>6, SetschedulerShape, NiceShape, BoostShape, MoveShape, TouchShape DEF Parameters
<1>7. CASE Polling
  BY <1>7, TouchShape
<1> QED BY <1>1, <1>2, <1>3, <1>4, <1>5, <1>6, <1>7 DEF Next

-----------------------------------------------------------------------------
(* Slices and the order of waiting tasks. *)

\* Only the slice of a record changes when its task is enqueued.
LEMMA EnqueuedFields ==
  ASSUME NEW t \in TaskRecord, NEW u, u = enqueued(t) \/ u = t
  PROVE  /\ u.on_rq = t.on_rq /\ u.sched_class = t.sched_class /\ u.prio = t.prio
         /\ u.policy = t.policy /\ u.group = t.group /\ u.static_prio = t.static_prio
         /\ u.pi = t.pi
  BY DEF enqueued, refill, TaskRecord

\* A queued RAS task gets a fresh slice only for one it has used up or by a change of
\* its parameters.
LEMMA SliceStep ==
  ASSUME IInv, Next, NEW p \in Tasks \ Polled,
         task[p].on_rq, task[p].sched_class = "ras",
         task'[p].on_rq, task'[p].sched_class = "ras",
         task'[p].time_slice > task[p].time_slice
  PROVE  \/ p = curr /\ task[p].time_slice = 1
         \/ ~SameParameters(p) \/ task'[p].pi # task[p].pi
<1>0. task \in [Tasks -> TaskRecord] /\ task[p].time_slice \in Int
  BY SliceConstants DEF IInv, TaskRecord
<1>1. task'[p].time_slice # task[p].time_slice
  BY <1>0
<1>2. ASSUME NEW r, NEW T, Switches(r, T) PROVE FALSE
  BY <1>1, <1>2 DEF Switches, switch_to_next
<1>3. ASSUME NEW x \in Tasks, NEW t, Touches(x, t) PROVE FALSE
  <2>1. p = x
    BY <1>0, <1>1, <1>3 DEF Touches
  <2> QED BY <1>0, <1>1, <1>3, <2>1 DEF Touches
<1>4. ASSUME NEW x \in Tasks, NEW t, NEW head, Requeues(x, t, head)
      PROVE  ~SameParameters(p) \/ task'[p].pi # task[p].pi
  <2> DEFINE u == IF t.on_rq THEN enqueued(t) ELSE t
  <2>1. task' = [task EXCEPT ![x] = u]
    BY <1>4 DEF Requeues, Requeue
  <2>2. p = x
    BY <1>0, <1>1, <2>1
  <2>3. u.policy = t.policy /\ u.group = t.group /\ u.static_prio = t.static_prio /\ u.pi = t.pi
    BY <1>4, EnqueuedFields DEF Requeues
  <2>4. task'[p] = u
    BY <1>0, <2>1, <2>2
  <2> HIDE DEF u
  <2> QED BY <1>4, <2>2, <2>3, <2>4 DEF Requeues, SameParameters
<1>5. ASSUME NEW x \in Tasks, NEW t, Wakes(x, t) PROVE FALSE
  <2>1. p = x
    BY <1>0, <1>1, <1>5 DEF Wakes
  <2>2. task'[p] = t
    BY <1>0, <1>5, <2>1 DEF Wakes
  <2> QED BY <1>1, <1>5, <2>1, <2>2 DEF Wakes
<1>6. ASSUME NEW t, Ticks(t) PROVE p = curr /\ task[p].time_slice = 1
  <2>1. task' = [task EXCEPT ![curr] = t] /\ curr \in Tasks
    BY <1>6 DEF Ticks
  <2>2. p = curr
    BY <1>0, <1>1, <2>1
  <2>3. task'[p] = t
    BY <1>0, <2>1, <2>2
  <2> QED BY <1>6, <2>2, <2>3 DEF Ticks
<1> QED BY <1>2, <1>3, <1>4, <1>5, <1>6, StepShape

\* A wakeup, a yield or a preemption never refills a slice: a RAS task cannot run for
\* longer than its slice by sleeping or yielding.
THEOREM SlicesKept == Spec => SliceKept
<1>1. IInv /\ [Next]_vars =>
        [\A p \in Tasks \ Polled :
           (/\ task[p].on_rq /\ task[p].sched_class = "ras"
            /\ task'[p].on_rq /\ task'[p].sched_class = "ras"
            /\ task'[p].time_slice > task[p].time_slice)
           => (p = curr /\ task[p].time_slice = 1) \/ ~SameParameters(p)
              \/ task'[p].pi # task[p].pi]_vars
  BY SliceStep
<1> QED BY <1>1, IInvAlways, PTL DEF Spec, SliceKept

\* One step lets nothing ahead of a waiting RAS task.
LEMMA OrderStep ==
  ASSUME IInv, Next, NEW p \in Tasks, Waiting(p), Waiting(p)', SameParameters(p),
         \A q \in Tasks : task'[q].pi = task[q].pi
  PROVE  Ahead(p)' \subseteq Ahead(p)
<1>0. /\ task \in [Tasks -> TaskRecord] /\ RqInv(rq, task) /\ rq \in RunQueue
      /\ \A x \in Tasks : task[x] \in TaskRecord /\ TaskInv(task[x])
      /\ curr \in Tasks \cup {Idle}
  BY DEF IInv, RqInv
<1>1. p # curr /\ task[p].on_rq /\ task[p].sched_class = "ras"
  BY <1>0 DEF Waiting, RqInv, ListOf, RasSet
<1>2. Behind(rq.ras, rq.ras, p)
  BY DEF Behind
<1>3. ASSUME NEW r, NEW T, Switches(r, T) PROVE Behind(rq.ras, rq'.ras, p)
  <2>1. RqInv(r, T) /\ rq' = put_prev_task(r, curr) /\ Behind(rq.ras, r.ras, p)
    BY <1>1, <1>3 DEF Switches, StateOK, switch_to_next
  <2>2. CASE curr # Idle /\ task[curr].sched_class = "ras"
    <3>1. rq' = put_prev_task_ras(r, curr) /\ curr \in Tasks
      BY <1>0, <2>1, <2>2 DEF put_prev_task
    <3>2. Behind(r.ras, rq'.ras, p)
      BY <1>1, <2>1, <3>1, PutPrevBehind
    <3> QED BY <2>1, <3>2, BehindTransitive
  <2>3. CASE ~(curr # Idle /\ task[curr].sched_class = "ras")
    BY <2>1, <2>3 DEF put_prev_task
  <2> QED BY <2>2, <2>3
<1>4. ASSUME NEW x \in Tasks, NEW t, Touches(x, t) PROVE Behind(rq.ras, rq'.ras, p)
  BY <1>2, <1>4 DEF Touches
<1>5. ASSUME NEW x \in Tasks, NEW t, NEW head, Requeues(x, t, head)
      PROVE  Behind(rq.ras, rq'.ras, p)
  <2> DEFINE u == IF t.on_rq THEN enqueued(t) ELSE t
             d == dequeue_task(rq, x, task[x])
             o == [task[x] EXCEPT !.on_rq = FALSE]
  <2>1. task' = [task EXCEPT ![x] = u]
    BY <1>5 DEF Requeues, Requeue
  <2>2. u.policy = t.policy /\ u.group = t.group /\ u.static_prio = t.static_prio /\ u.pi = t.pi
    BY <1>5, EnqueuedFields DEF Requeues
  <2>3. task'[x] = u
    BY <1>0, <2>1
  <2> HIDE DEF u
  <2>4. t.pi = task[x].pi
    BY <2>2, <2>3
  <2>5. x # p
    BY <1>1, <1>5, <2>2, <2>3, <2>4 DEF Requeues, SameParameters
  <2>6. head = FALSE
    BY <1>5, <2>4 DEF Requeues
  <2>7. CASE t.on_rq
    <3>1. rq' = enqueue_task(d, x, t, FALSE) /\ t \in TaskRecord /\ task[x].on_rq
      BY <1>5, <2>6, <2>7 DEF Requeues, Requeue
    <3>2. o \in TaskRecord /\ ~o.on_rq /\ RtInRange(task[x])
      BY <1>0 DEF TaskRecord, RtInRange, TaskInv, TaskFits
    <3> HIDE DEF o
    <3>3. RqInv(d, [task EXCEPT ![x] = o])
      BY <1>0, <3>1, <3>2, DequeueOK
    <3>4. d \in RunQueue
      BY <3>3 DEF RqInv
    <3>5. Behind(rq.ras, d.ras, p)
      BY <1>0, <2>5, DequeueBehind
    <3> HIDE DEF d
    <3>6. Behind(d.ras, enqueue_task(d, x, t, FALSE).ras, p)
      BY <2>5, <3>1, <3>4, EnqueueBehind
    <3> QED BY <3>1, <3>5, <3>6, BehindTransitive
  <2>8. CASE ~t.on_rq
    BY <1>2, <1>5, <2>8 DEF Requeues, Requeue
  <2> QED BY <2>7, <2>8
<1>6. ASSUME NEW x \in Tasks, NEW t, Wakes(x, t) PROVE Behind(rq.ras, rq'.ras, p)
  <2>1. CASE task[x].on_rq
    BY <1>2, <1>6, <2>1 DEF Wakes
  <2>2. CASE ~task[x].on_rq
    <3>1. x # p /\ t \in TaskRecord /\ rq' = enqueue_task(rq, x, t, FALSE)
      BY <1>1, <1>6, <2>2 DEF Wakes
    <3> QED BY <1>0, <3>1, EnqueueBehind
  <2> QED BY <2>1, <2>2
<1>7. ASSUME NEW t, Ticks(t) PROVE Behind(rq.ras, rq'.ras, p)
  <2>1. curr \in Tasks /\ rq' \in {rq, put_prev_task_ras(rq, curr), yield_task(rq, curr)}
    BY <1>7 DEF Ticks
  <2> QED BY <1>0, <1>1, <1>2, <2>1, PutPrevBehind, YieldBehind
<1>8. Behind(rq.ras, rq'.ras, p)
  BY <1>3, <1>4, <1>5, <1>6, <1>7, StepShape
<1> QED BY <1>8 DEF Behind, AheadIn, Ahead

\* First come, first served: nothing but an inherited prio lets a task get ahead of a
\* waiting RAS task that is not requeued itself.
THEOREM OrderKept == Spec => NoOvertaking
<1>1. IInv /\ [Next]_vars =>
        [\A p \in Tasks :
           (/\ Waiting(p) /\ Waiting(p)'
            /\ SameParameters(p)
            /\ \A q \in Tasks : task'[q].pi = task[q].pi)
           => Ahead(p)' \subseteq Ahead(p)]_vars
  BY OrderStep
<1> QED BY <1>1, IInvAlways, PTL DEF Spec, NoOvertaking

-----------------------------------------------------------------------------
(* Which class runs. *)

\* The order in which for_each_class meets the classes.
LEMMA Ranks ==
  /\ \A c \in {"rt", "ras", "fair"} : higher_class(c, "idle")
  /\ \A c \in {"rt", "ras"} : higher_class(c, "fair")
  /\ \A c \in {"ras", "fair"} : higher_class("rt", c)
  BY DEF higher_class, ClassRank

\* What it takes for check_preempt_curr not to ask for a reschedule.
LEMMA NoPreempt ==
  ASSUME NEW T, NEW p, NEW b, b \in check_preempt_curr(T, p), ~b
  PROVE  /\ ~need_resched
         /\ T[p].sched_class # curr_class(T) => ~higher_class(T[p].sched_class, curr_class(T))
         /\ T[p].sched_class = "rt" /\ curr_class(T) = "rt" => ~(T[p].prio < curr_prio(T))
<1>1. CASE T[p].sched_class # curr_class(T)
  BY <1>1, Zenon DEF check_preempt_curr
<1>2. CASE T[p].sched_class = "rt" /\ curr_class(T) = "rt"
  BY <1>2, Zenon DEF check_preempt_curr, check_preempt_curr_rt
<1>3. CASE T[p].sched_class = curr_class(T) /\ T[p].sched_class # "rt"
  BY <1>3, Zenon DEF check_preempt_curr
<1> QED BY <1>1, <1>2, <1>3, Zenon

\* What it takes for check_class_changed not to ask for a reschedule.
LEMMA NoClassResched ==
  ASSUME NEW T, NEW p, NEW b, b \in check_class_changed(T, p), ~b
  PROVE  /\ ~need_resched
         /\ T[p].on_rq /\ task[p].sched_class # T[p].sched_class =>
              /\ T[p].sched_class = "rt" => curr = p \/ ~(T[p].prio < curr_prio(T))
              /\ T[p].sched_class = "ras" => curr = p
              /\ T[p].sched_class = "fair" => curr # p
         /\ T[p].on_rq /\ task[p].sched_class = T[p].sched_class /\ T[p].sched_class = "rt" =>
              \/ task[p].prio = T[p].prio
              \/ curr = p /\ ~(task[p].prio < T[p].prio)
              \/ curr # p /\ ~(T[p].prio < curr_prio(T))
<1>1. CASE ~T[p].on_rq
  BY <1>1, Zenon DEF check_class_changed
<1>2. CASE T[p].on_rq /\ task[p].sched_class # T[p].sched_class
  <2>1. b \in switched_to(T, p)
    BY <1>2, Zenon DEF check_class_changed
  <2>2. CASE T[p].sched_class = "rt"
    BY <1>2, <2>1, <2>2, Zenon DEF switched_to, switched_to_rt
  <2>3. CASE T[p].sched_class = "ras"
    BY <1>2, <2>1, <2>3, Zenon DEF switched_to, switched_to_ras
  <2>4. CASE T[p].sched_class # "rt" /\ T[p].sched_class # "ras"
    <3>1. b \in IF curr = p THEN {TRUE} ELSE check_preempt_curr(T, p)
      BY <2>1, <2>4, Zenon DEF switched_to
    <3>2. curr # p /\ b \in check_preempt_curr(T, p)
      BY <3>1, Zenon
    <3>3. ~need_resched
      BY <3>2, NoPreempt
    <3> QED BY <1>2, <2>4, <3>2, <3>3, Zenon
  <2> QED BY <2>2, <2>3, <2>4, Zenon
<1>3. CASE T[p].on_rq /\ task[p].sched_class = T[p].sched_class /\ task[p].prio # T[p].prio
  <2>1. b \in prio_changed(T, p, task[p].prio)
    BY <1>3, Zenon DEF check_class_changed
  <2>2. CASE T[p].sched_class = "rt"
    <3>1. ~need_resched /\ ~prio_changed_rt(T, p, task[p].prio)
      BY <2>1, <2>2, Zenon DEF prio_changed
    <3> QED BY <1>3, <2>2, <3>1, Zenon DEF prio_changed_rt
  <2>3. CASE T[p].sched_class = "ras"
    BY <1>3, <2>1, <2>3, Zenon DEF prio_changed
  <2>4. CASE T[p].sched_class # "rt" /\ T[p].sched_class # "ras"
    <3>1. b \in IF curr = p THEN {need_resched \/ task[p].prio < T[p].prio}
                ELSE check_preempt_curr(T, p)
      BY <2>1, <2>4, Zenon DEF prio_changed
    <3>2. CASE curr = p
      BY <1>3, <2>4, <3>1, <3>2, Zenon
    <3>3. CASE curr # p
      <4>1. b \in check_preempt_curr(T, p)
        BY <3>1, <3>3, Zenon
      <4>2. ~need_resched
        BY <4>1, NoPreempt
      <4> QED BY <1>3, <2>4, <4>2, Zenon
    <3> QED BY <3>2, <3>3
  <2> QED BY <2>2, <2>3, <2>4, Zenon
<1>4. CASE T[p].on_rq /\ task[p].sched_class = T[p].sched_class /\ task[p].prio = T[p].prio
  BY <1>4, Zenon DEF check_class_changed
<1> QED BY <1>1, <1>2, <1>3, <1>4, Zenon

\* What Requeues means for the records.
LEMMA RequeuesFields ==
  ASSUME IInv, NEW x \in Tasks, NEW t, NEW head, Requeues(x, t, head)
  PROVE  /\ curr' = curr /\ t \in TaskRecord /\ t.on_rq = task[x].on_rq
         /\ task'[x].on_rq = t.on_rq /\ task'[x].sched_class = t.sched_class
         /\ task'[x].prio = t.prio
         /\ \A y \in Tasks : y # x => task'[y] = task[y]
<1> DEFINE u == IF t.on_rq THEN enqueued(t) ELSE t
<1>1. task' = [task EXCEPT ![x] = u] /\ t \in TaskRecord /\ curr' = curr
      /\ t.on_rq = task[x].on_rq
  BY DEF Requeues, Requeue
<1>2. u.on_rq = t.on_rq /\ u.sched_class = t.sched_class /\ u.prio = t.prio
  BY <1>1, EnqueuedFields
<1>3. task \in [Tasks -> TaskRecord]
  BY DEF IInv
<1> HIDE DEF u
<1> QED BY <1>1, <1>2, <1>3

\* What Wakes means for the records.
LEMMA WakesFields ==
  ASSUME IInv, NEW x \in Tasks, NEW t, Wakes(x, t)
  PROVE  /\ task'[x].sched_class = task[x].sched_class
         /\ task'[x].prio = task[x].prio
         /\ \A y \in Tasks : y # x => task'[y] = task[y]
<1> DEFINE u == IF task[x].on_rq THEN t ELSE enqueued(t)
<1>1. task' = [task EXCEPT ![x] = u] /\ t \in TaskRecord
      /\ t.sched_class = task[x].sched_class /\ t.prio = task[x].prio
  BY DEF Wakes
<1>2. u.sched_class = t.sched_class /\ u.prio = t.prio
  BY <1>1, EnqueuedFields
<1>3. task \in [Tasks -> TaskRecord]
  BY DEF IInv
<1> HIDE DEF u
<1> QED BY <1>1, <1>2, <1>3

\* After a switch the running task is the best one.
LEMMA SwitchBest ==
  ASSUME IInv', NEW r, NEW T, Switches(r, T), NEW p \in Tasks, task'[p].on_rq
  PROVE  /\ curr' \in Tasks
         /\ task'[curr'].sched_class = "fair" => task'[p].sched_class = "fair"
         /\ task'[p].sched_class = "rt" =>
              task'[curr'].sched_class = "rt" /\ task'[curr'].prio <= task'[p].prio
<1>1. curr' \in pick_next_task(rq', T) /\ task' = T
  BY DEF Switches, switch_to_next
<1>2. RqInv(rq', T) /\ T \in [Tasks -> TaskRecord] /\ \A y \in Tasks : TaskInv(T[y])
  <2>1. RqInv(rq, task)' /\ task' \in [Tasks -> TaskRecord] /\ \A y \in Tasks : TaskInv(task'[y])
    BY DEF IInv, TaskInv, TaskFits, SliceFits
  <2>2. RqInv(rq', task')
    BY <2>1 DEF RqInv, OnRq, RasSet, RtSet
  <2> QED BY <1>1, <2>1, <2>2
<1>3. p \in OnRq(T)
  BY <1>1 DEF OnRq
<1> QED BY <1>1, <1>2, <1>3, PickBest

\* The idle task and the fair class keep the CPU without a pending reschedule only
\* while there is no RAS and no RT task: one step of the induction.
LEMMA BelowStep ==
  ASSUME IInv, IInv', NoClassBelowRasOverlooked, Next
  PROVE  NoClassBelowRasOverlooked'
<1> SUFFICES ASSUME curr' = Idle \/ task'[curr'].sched_class = "fair", ~need_resched',
                    NEW p \in Tasks, task'[p].on_rq
             PROVE  curr' # Idle /\ task'[p].sched_class = "fair"
  BY Zenon DEF NoClassBelowRasOverlooked, Runnable
<1>0. /\ task \in [Tasks -> TaskRecord] /\ curr \in Tasks \cup {Idle} /\ Idle \notin Tasks
      /\ \A x \in Tasks : task[x] \in TaskRecord /\ TaskInv(task[x])
      /\ \A x \in Tasks : task[x].sched_class \in {"rt", "ras", "fair"}
      /\ curr # Idle => task[curr].on_rq
      /\ curr' # Idle => task'[curr'].on_rq
  BY TaskConstants DEF IInv, TaskRecord
<1>1. ASSUME curr = Idle \/ task[curr].sched_class = "fair", ~need_resched,
             NEW x \in Tasks, task[x].on_rq
      PROVE  curr # Idle /\ task[x].sched_class = "fair"
  BY <1>1 DEF NoClassBelowRasOverlooked, Runnable
<1>2. ASSUME curr' = curr, ~need_resched,
             \A x \in Tasks : task'[x].on_rq =>
               task[x].on_rq /\ task'[x].sched_class = task[x].sched_class
      PROVE  curr' # Idle /\ task'[p].sched_class = "fair"
  <2>1. curr = Idle \/ task[curr].sched_class = "fair"
    BY <1>0, <1>2
  <2> QED BY <1>1, <1>2, <2>1
<1>3. ASSUME NEW r, NEW T, Switches(r, T)
      PROVE  curr' # Idle /\ task'[p].sched_class = "fair"
  BY <1>0, <1>3, SwitchBest
<1>4. ASSUME NEW x \in Tasks, NEW t, Touches(x, t)
      PROVE  curr' # Idle /\ task'[p].sched_class = "fair"
  <2>1. curr' = curr /\ ~need_resched /\ task' = [task EXCEPT ![x] = t]
        /\ (t.on_rq => task[x].on_rq /\ t.sched_class = task[x].sched_class)
    BY <1>4 DEF Touches
  <2> QED BY <1>0, <1>2, <2>1
<1>5. ASSUME NEW t, Ticks(t)
      PROVE  curr' # Idle /\ task'[p].sched_class = "fair"
  <2>1. curr' = curr /\ curr \in Tasks /\ ~need_resched /\ task' = [task EXCEPT ![curr] = t]
        /\ t.on_rq = task[curr].on_rq /\ t.sched_class = task[curr].sched_class
    BY <1>5 DEF Ticks
  <2> QED BY <1>0, <1>2, <2>1
<1>6. ASSUME NEW x \in Tasks, NEW t, Wakes(x, t)
      PROVE  curr' # Idle /\ task'[p].sched_class = "fair"
  <2>1. /\ task'[x].sched_class = task[x].sched_class
        /\ \A y \in Tasks : y # x => task'[y] = task[y]
    BY <1>6, WakesFields
  <2>2. curr' = curr /\ need_resched' \in check_preempt_curr(task', x)
    BY <1>6 DEF Wakes
  <2>3. /\ ~need_resched
        /\ task'[x].sched_class # curr_class(task') =>
             ~higher_class(task'[x].sched_class, curr_class(task'))
    BY <2>2, NoPreempt
  <2>4. curr # Idle
    BY <1>0, <2>1, <2>3, Ranks DEF curr_class
  <2>5. task'[curr].sched_class = "fair" /\ task[curr].sched_class = "fair"
    BY <1>0, <2>1, <2>2, <2>4
  <2>6. curr_class(task') = "fair"
    BY <2>4, <2>5 DEF curr_class
  <2>7. task'[x].sched_class = "fair"
    BY <1>0, <2>1, <2>3, <2>6, Ranks
  <2> QED BY <1>1, <2>1, <2>2, <2>3, <2>4, <2>5, <2>7
<1>7. ASSUME NEW x \in Tasks, NEW t, NEW head, Requeues(x, t, head)
      PROVE  curr' # Idle /\ task'[p].sched_class = "fair"
  <2> DEFINE T == [task EXCEPT ![x] = t]
  <2>1. /\ curr' = curr /\ t \in TaskRecord /\ t.on_rq = task[x].on_rq
        /\ task'[x].on_rq = t.on_rq /\ task'[x].sched_class = t.sched_class
        /\ \A y \in Tasks : y # x => task'[y] = task[y]
    BY <1>7, RequeuesFields
  <2>2. T[x] = t /\ \A y \in Tasks : y # x => T[y] = task[y]
    BY <1>0
  <2>3. TaskFits(t)
    BY <1>7 DEF Requeues
  <2>4. CASE t.sched_class = task[x].sched_class /\ (need_resched => need_resched')
    BY <1>2, <2>1, <2>4
  <2>5. CASE need_resched' \in check_class_changed(T, x)
    <3> HIDE DEF T
    <3>1. /\ ~need_resched
          /\ t.on_rq /\ task[x].sched_class # t.sched_class =>
               /\ t.sched_class = "rt" => curr = x \/ ~(t.prio < curr_prio(T))
               /\ t.sched_class = "ras" => curr = x
               /\ t.sched_class = "fair" => curr # x
      BY <2>2, <2>5, NoClassResched
    <3>2. CASE ~t.on_rq \/ t.sched_class = task[x].sched_class
      BY <1>2, <2>1, <3>1, <3>2
    <3>3. CASE t.on_rq /\ t.sched_class # task[x].sched_class
      <4>1. curr # Idle
        BY <1>1, <2>1, <3>1, <3>3
      <4>2. task'[curr].sched_class = "fair" /\ curr \in Tasks
        BY <1>0, <2>1, <4>1
      <4>3. t.sched_class # "ras"
        BY <2>1, <3>1, <3>3, <4>2
      <4>4. t.sched_class # "rt"
        <5> SUFFICES ASSUME t.sched_class = "rt" PROVE FALSE
          OBVIOUS
        <5>1. curr # x /\ ~(t.prio < curr_prio(T))
          BY <2>1, <3>1, <3>3, <4>2
        <5>2. T[curr] = task[curr] /\ task[curr].sched_class = "fair"
          BY <2>1, <2>2, <4>2, <5>1
        <5>3. curr_prio(T) = task[curr].prio
          BY <4>1, <5>2 DEF curr_prio
        <5>4. task[curr].prio >= MAX_RT_PRIO /\ t.prio < MAX_RT_PRIO
          BY <1>0, <2>3, <4>2, <5>2 DEF TaskInv, TaskFits
        <5>5. task[curr].prio \in Int /\ t.prio \in Int /\ MAX_RT_PRIO \in Int
          BY <1>0, <2>1, <4>2, PrioConstants DEF TaskRecord
        <5> QED BY <5>1, <5>3, <5>4, <5>5
      <4>5. t.sched_class = "fair"
        BY <2>1, <4>3, <4>4 DEF TaskRecord
      <4>6. task[curr].sched_class = "fair"
        BY <2>1, <3>1, <3>3, <4>2, <4>5
      <4> QED BY <1>1, <2>1, <3>1, <4>1, <4>5, <4>6
    <3> QED BY <3>2, <3>3
  <2> QED BY <1>7, <2>4, <2>5 DEF Requeues
<1> QED BY <1>3, <1>4, <1>5, <1>6, <1>7, StepShape

\* A fair or idle CPU never overlooks a RAS or RT task: whatever made it runnable also
\* asked for a reschedule.
THEOREM BelowRasCorrect == Spec => []NoClassBelowRasOverlooked
<1>1. Init => NoClassBelowRasOverlooked
  <2> SUFFICES ASSUME Init PROVE \A p \in Tasks : ~task[p].on_rq
    BY DEF NoClassBelowRasOverlooked, Runnable
  <2> QED BY DEF Init, InitTask
<1>2. IInv /\ IInv' /\ NoClassBelowRasOverlooked /\ [Next]_vars => NoClassBelowRasOverlooked'
  <2>1. CASE UNCHANGED vars
    BY <2>1 DEF vars, NoClassBelowRasOverlooked, Runnable
  <2> QED BY <2>1, BelowStep
<1> QED BY <1>1, <1>2, IInvAlways, PTL DEF Spec

\* Real-time tasks come first, one step: unless the running task is demoted to RAS or
\* is a RAS task with an inherited prio, the order of their priorities is kept.
LEMMA RtStep ==
  ASSUME IInv, IInv', Next, RtSettled, ~Demoted, ~RasBoosted
  PROVE  RtSettled'
<1> SUFFICES ASSUME ~need_resched', NEW p \in Tasks, task'[p].on_rq, task'[p].sched_class = "rt"
             PROVE  curr' # Idle /\ task'[curr'].sched_class = "rt"
                    /\ task'[curr'].prio <= task'[p].prio
  BY Zenon DEF RtSettled, Runnable
<1> DEFINE Goal == curr' # Idle /\ task'[curr'].sched_class = "rt"
                   /\ task'[curr'].prio <= task'[p].prio
<1>0. /\ task \in [Tasks -> TaskRecord] /\ curr \in Tasks \cup {Idle} /\ Idle \notin Tasks
      /\ \A x \in Tasks : task[x] \in TaskRecord /\ TaskInv(task[x])
      /\ \A x \in Tasks : task[x].sched_class \in {"rt", "ras", "fair"} /\ task[x].prio \in Int
      /\ \A x \in Tasks : task'[x].prio \in Int
      /\ curr # Idle => task[curr].on_rq
      /\ curr' # Idle => task'[curr'].on_rq
  BY TaskConstants, PrioConstants DEF IInv, TaskRecord
<1>1. ASSUME ~need_resched, NEW x \in Tasks, task[x].on_rq, task[x].sched_class = "rt"
      PROVE  curr # Idle /\ task[curr].sched_class = "rt" /\ task[curr].prio <= task[x].prio
  BY <1>1 DEF RtSettled, Runnable
<1>2. ASSUME curr' = curr, ~need_resched,
             \A x \in Tasks : task'[x].on_rq => /\ task[x].on_rq
                                                /\ task'[x].sched_class = task[x].sched_class
                                                /\ task[x].sched_class = "rt" =>
                                                     task'[x].prio = task[x].prio
      PROVE  Goal
  <2>1. curr # Idle /\ task[curr].sched_class = "rt" /\ task[curr].prio <= task[p].prio
    BY <1>1, <1>2
  <2> QED BY <1>0, <1>2, <2>1
<1>3. ASSUME NEW r, NEW T, Switches(r, T) PROVE Goal
  BY <1>0, <1>3, SwitchBest
<1>4. ASSUME NEW x \in Tasks, NEW t, Touches(x, t) PROVE Goal
  <2>1. curr' = curr /\ ~need_resched /\ task' = [task EXCEPT ![x] = t]
        /\ (t.on_rq => task[x].on_rq /\ t.sched_class = task[x].sched_class
                       /\ t.prio = task[x].prio)
    BY <1>4 DEF Touches
  <2> QED BY <1>0, <1>2, <2>1
<1>5. ASSUME NEW t, Ticks(t) PROVE Goal
  <2>1. curr' = curr /\ curr \in Tasks /\ ~need_resched /\ task' = [task EXCEPT ![curr] = t]
        /\ t.on_rq = task[curr].on_rq /\ t.sched_class = task[curr].sched_class
        /\ t.prio = task[curr].prio
    BY <1>5 DEF Ticks
  <2> QED BY <1>0, <1>2, <2>1
<1>6. ASSUME NEW x \in Tasks, NEW t, Wakes(x, t) PROVE Goal
  <2>1. /\ task'[x].sched_class = task[x].sched_class /\ task'[x].prio = task[x].prio
        /\ \A y \in Tasks : y # x => task'[y] = task[y]
    BY <1>6, WakesFields
  <2>2. curr' = curr /\ need_resched' \in check_preempt_curr(task', x)
    BY <1>6 DEF Wakes
  <2>3. /\ ~need_resched
        /\ task'[x].sched_class # curr_class(task') =>
             ~higher_class(task'[x].sched_class, curr_class(task'))
        /\ task'[x].sched_class = "rt" /\ curr_class(task') = "rt" =>
             ~(task'[x].prio < curr_prio(task'))
    BY <2>2, NoPreempt
  <2>4. CASE p # x
    BY <1>0, <1>1, <2>1, <2>2, <2>3, <2>4
  <2>5. CASE p = x
    <3>1. curr_class(task') = "rt"
      BY <1>0, <2>1, <2>3, <2>5, Ranks DEF curr_class
    <3>2. curr # Idle /\ task'[curr].sched_class = "rt"
      BY <3>1 DEF curr_class
    <3>3. ~(task'[p].prio < task'[curr].prio)
      BY <2>3, <2>5, <3>1, <3>2 DEF curr_prio
    <3> QED BY <1>0, <2>2, <3>2, <3>3
  <2> QED BY <2>4, <2>5
<1>7. ASSUME NEW x \in Tasks, NEW t, NEW head, Requeues(x, t, head) PROVE Goal
  <2> DEFINE T == [task EXCEPT ![x] = t]
  <2>1. /\ curr' = curr /\ t \in TaskRecord /\ t.on_rq = task[x].on_rq
        /\ task'[x].on_rq = t.on_rq /\ task'[x].sched_class = t.sched_class
        /\ task'[x].prio = t.prio
        /\ \A y \in Tasks : y # x => task'[y] = task[y]
    BY <1>7, RequeuesFields
  <2>2. T[x] = t /\ \A y \in Tasks : y # x => T[y] = task[y]
    BY <1>0
  <2>3. TaskFits(t) /\ t.prio \in Int /\ t.sched_class \in {"rt", "ras", "fair"}
    BY <1>7, <2>1, PrioConstants DEF Requeues, TaskRecord
  <2>4. CASE /\ t.sched_class = task[x].sched_class /\ (need_resched => need_resched')
             /\ t.sched_class = "rt" => t.prio = task[x].prio
    BY <1>2, <2>1, <2>4
  <2>5. CASE need_resched' \in check_class_changed(T, x)
    <3> HIDE DEF T
    <3>1. /\ ~need_resched
          /\ t.on_rq /\ task[x].sched_class # t.sched_class =>
               /\ t.sched_class = "rt" => curr = x \/ ~(t.prio < curr_prio(T))
               /\ t.sched_class = "ras" => curr = x
               /\ t.sched_class = "fair" => curr # x
          /\ t.on_rq /\ task[x].sched_class = t.sched_class /\ t.sched_class = "rt" =>
               \/ task[x].prio = t.prio
               \/ curr = x /\ ~(task[x].prio < t.prio)
               \/ curr # x /\ ~(t.prio < curr_prio(T))
      BY <2>2, <2>5, NoClassResched
    <3>2. CASE ~t.on_rq
      BY <1>2, <2>1, <3>1, <3>2
    <3>3. CASE t.on_rq /\ t.sched_class = task[x].sched_class
      <4>1. CASE t.sched_class # "rt" \/ t.prio = task[x].prio
        BY <1>2, <2>1, <3>1, <3>3, <4>1
      <4>2. CASE t.sched_class = "rt" /\ curr = x /\ ~(task[x].prio < t.prio)
        BY <1>0, <1>1, <2>1, <2>3, <3>1, <3>3, <4>2
      <4>3. CASE t.sched_class = "rt" /\ curr # x /\ ~(t.prio < curr_prio(T))
        <5>1. curr # Idle /\ curr \in Tasks /\ task[curr].sched_class = "rt"
          BY <1>0, <1>1, <2>1, <3>1, <3>3, <4>3
        <5>2. curr_prio(T) = task[curr].prio /\ task'[curr] = task[curr]
          BY <2>1, <2>2, <4>3, <5>1 DEF curr_prio
        <5> QED BY <1>0, <1>1, <2>1, <2>3, <3>1, <4>3, <5>1, <5>2
      <4> QED BY <3>1, <3>3, <4>1, <4>2, <4>3
    <3>4. CASE t.on_rq /\ t.sched_class # task[x].sched_class
      <4>1. CASE t.sched_class = "rt" /\ curr = x
        <5>1. p = x
          BY <1>1, <2>1, <3>1, <3>4, <4>1
        <5> QED BY <1>0, <2>1, <4>1, <5>1
      <4>2. CASE t.sched_class = "rt" /\ curr # x
        <5>1. ~(t.prio < curr_prio(T))
          BY <3>1, <3>4, <4>2
        <5>2. t.prio < MAX_RT_PRIO /\ MAX_RT_PRIO \in Int /\ MAX_RT_PRIO < MAX_PRIO /\ MAX_PRIO \in Int
          BY <2>3, <4>2, PrioConstants DEF TaskFits
        <5>3. curr # Idle
          BY <2>3, <5>1, <5>2 DEF curr_prio
        <5>4. curr \in Tasks /\ curr_prio(T) = task[curr].prio /\ task'[curr] = task[curr]
          BY <1>0, <2>1, <2>2, <4>2, <5>3 DEF curr_prio
        <5>5. task[curr].prio < MAX_RT_PRIO
          BY <1>0, <2>3, <5>1, <5>2, <5>4
        <5>6. task[curr].sched_class # "fair"
          BY <1>0, <5>2, <5>4, <5>5 DEF TaskInv, TaskFits
        <5>7. task[curr].sched_class = "rt"
          BY <1>0, <5>3, <5>4, <5>5, <5>6 DEF RasBoosted
        <5> QED BY <1>0, <1>1, <2>1, <2>3, <3>1, <5>1, <5>3, <5>4, <5>7
      <4>3. CASE t.sched_class = "ras"
        <5>1. curr = x
          BY <3>1, <3>4, <4>3
        <5>2. task[curr].sched_class # "rt"
          BY <1>0, <2>1, <4>3, <5>1 DEF Demoted
        <5> QED BY <1>1, <2>1, <3>1, <4>3, <5>1, <5>2
      <4>4. CASE t.sched_class = "fair"
        <5>1. curr # x
          BY <3>1, <3>4, <4>4
        <5> QED BY <1>0, <1>1, <2>1, <3>1, <4>4, <5>1
      <4> QED BY <2>3, <4>1, <4>2, <4>3, <4>4
    <3> QED BY <3>2, <3>3, <3>4
  <2> QED BY <1>7, <2>4, <2>5 DEF Requeues
<1> QED BY <1>3, <1>4, <1>5, <1>6, <1>7, StepShape

\* No wakeup, priority change or change of class leaves a better real-time task waiting
\* without a reschedule, unless a RAS task is involved.
THEOREM RtFirst == Spec => OnlyRasOverlooksRt
<1>1. IInv /\ IInv' /\ [Next]_vars => [RtSettled /\ ~Demoted /\ ~RasBoosted => RtSettled']_vars
  BY RtStep
<1> QED BY <1>1, IInvAlways, PTL DEF Spec, OnlyRasOverlooksRt
=============================================================================
