-------------------------- MODULE RtBalanceProofs --------------------------
(***************************************************************************)
(* TLAPS proofs about RtBalance, for any number of CPUs and tasks and any  *)
(* affinity masks: a task runs at home, what the root domain says of a run *)
(* queue is true, and the contexts take the locks in one order.            *)
(***************************************************************************)
EXTENDS RtBalance, SumProofs, SequenceTheorems, TLAPS

(***************************************************************************)
(* The inductive invariant.                                                *)
(***************************************************************************)
Prios == 0 .. MAX_RT_PRIO
RunQueue ==
  [queue : Seq(Tasks), pushable : Seq(Tasks), highest : Prios, next : Prios,
   total : Int, migratory : Int, overloaded : BOOLEAN,
   curr : Tasks \cup {other}, need_resched : BOOLEAN]
RootDomain == [rto_mask : SUBSET CPUs, rto_count : Int, cpupri : [CPUs -> Prios]]
TaskRecord == [cpu : CPUs, cpus_allowed : Masks]
System == [rq : [CPUs -> RunQueue], rd : RootDomain, task : [Tasks -> TaskRecord]]

\* s lists tasks, each once, the best priorities first.
SortedList(s) ==
  /\ s \in Seq(Tasks)
  /\ \A i, j \in 1 .. Len(s) : s[i] = s[j] => i = j
  /\ \A i, j \in 1 .. Len(s) : i < j => Prio[s[i]] <= Prio[s[j]]

\* The tasks that may use more than one CPU.
Mobile(T) == {p \in Tasks : Cardinality(T[p].cpus_allowed) > 1}

\* The list of pushable tasks is right for the tasks M that can move.
PushOK(r, M) ==
  /\ SortedList(r.pushable)
  /\ ToSet(r.pushable) = {p \in ToSet(r.queue) : r.curr # p /\ p \in M}
  /\ r.next = FirstPrio(r.pushable)

CountsOK(r, M) ==
  /\ r.total = Len(r.queue)
  /\ r.migratory = Cardinality(ToSet(r.queue) \cap M)

Overloaded(r) == r.migratory > 0 /\ r.total > 1

\* The root domain knows the CPU's first priority and whether it is overloaded.
KnownOK(S, c) ==
  /\ S.rq[c].highest = FirstPrio(S.rq[c].queue)
  /\ S.rd.cpupri[c] = S.rq[c].highest
  /\ c \in S.rd.rto_mask <=> S.rq[c].overloaded

CpuOK(S, c) ==
  /\ SortedList(S.rq[c].queue)
  /\ PushOK(S.rq[c], Mobile(S.task))
  /\ CountsOK(S.rq[c], Mobile(S.task))
  /\ S.rq[c].overloaded = Overloaded(S.rq[c])
  /\ KnownOK(S, c)

\* What is queued or runs on a CPU belongs to it and, if queued, may run there.
HomeOK(S) ==
  \A c \in CPUs :
    /\ \A p \in ToSet(S.rq[c].queue) : S.task[p].cpu = c /\ c \in S.task[p].cpus_allowed
    /\ S.rq[c].curr # other => S.task[S.rq[c].curr].cpu = c

SystemOK(S) ==
  /\ S \in System
  /\ \A c \in CPUs : CpuOK(S, c)
  /\ S.rd.rto_count = Cardinality(S.rd.rto_mask)
  /\ HomeOK(S)

\* Where a context may stand, and with what.
Pulls == {"pull", "pull_lock"}
CtxRecord == [pc : {"none", "queue", "push", "find", "push_lock", "post"} \cup Pulls,
              rq : Int, task : Tasks \cup {other}, target : Int, tries : Int]
CtxOK(x, r) ==
  /\ r \in CtxRecord
  /\ r.pc # "none" => r.rq \in CPUs
  /\ r.pc \in {"find", "push_lock"} => r.task \in Tasks
  /\ r.pc \in {"push_lock", "pull_lock"} => r.target \in CPUs /\ r.target # r.rq
  /\ r.pc \in {"post"} \cup Pulls => x \in CPUs /\ r.rq = x
  /\ r.pc = "queue" => x \in Tasks

\* The lock a context has where the code relies on it, and the one it may have
\* while it waits for the second.
Owns(r, c) == r.pc \in {"push", "find", "pull"} /\ c = r.rq
Half(r, c) == r.pc \in {"push_lock", "pull_lock"} /\ c = Lower(r.rq, r.target)

\* The contexts X and the holders K of the locks.
LocksOK(X, K) ==
  /\ K \in [CPUs -> Contexts \cup {free}] /\ DOMAIN X = Contexts
  /\ \A x \in Contexts : CtxOK(x, X[x])
  /\ \A c \in CPUs, x \in Contexts : /\ K[c] = x => Owns(X[x], c) \/ Half(X[x], c)
                                     /\ Owns(X[x], c) => K[c] = x

\* A task being woken is on no queue; a CPU runs what it has queued, except while
\* __schedule() pulls.
PlacesOK(X, S) ==
  /\ \A p \in Tasks : X[p].pc = "queue" =>
       /\ X[p].rq = S.task[p].cpu /\ S.task[p].cpu \in S.task[p].cpus_allowed
       /\ p \notin ToSet(S.rq[S.task[p].cpu].queue) /\ S.rq[S.task[p].cpu].curr # p
  /\ \A c \in CPUs : S.rq[c].curr # other /\ X[c].pc \notin Pulls =>
       S.rq[c].curr \in ToSet(S.rq[c].queue)

IInv ==
  /\ SystemOK(Sys)
  /\ LocksOK(ctx, lock)
  /\ PlacesOK(ctx, Sys)
  /\ widened \subseteq Tasks

-----------------------------------------------------------------------------
(* Lists. *)

\* The entries of a sorted list that are at most v are the first n of them.
LEMMA Prefix ==
  ASSUME NEW s, SortedList(s), NEW v \in Int
  PROVE  \E n \in 0 .. Len(s) : \A i \in 1 .. Len(s) : Prio[s[i]] <= v <=> i <= n
<1> DEFINE above == {i \in 1 .. (Len(s) + 1) : i = Len(s) + 1 \/ ~(Prio[s[i]] <= v)}
<1>1. s \in Seq(Tasks) /\ Len(s) \in Nat /\ \A i \in 1 .. Len(s) : s[i] \in Tasks
  BY DEF SortedList
<1>2. \A i \in 1 .. Len(s) : Prio[s[i]] \in Int
  BY <1>1, RtBalanceConstants
<1>3. above \subseteq Nat /\ Len(s) + 1 \in above
  BY <1>1
<1>4. PICK m \in above : \A k \in above : m <= k
  BY <1>3, LeastNat
<1>5. m - 1 \in 0 .. Len(s)
  BY <1>1, <1>4
<1>6. ASSUME NEW i \in 1 .. Len(s)
      PROVE  Prio[s[i]] <= v <=> i <= m - 1
  <2>1. CASE i < m
    <3>1. i \notin above
      BY <2>1, <1>1, <1>4
    <3> QED BY <3>1, <2>1, <1>1, <1>4
  <2>2. CASE ~(i < m)
    <3>1. m \in 1 .. Len(s) /\ ~(Prio[s[m]] <= v)
      BY <2>2, <1>1, <1>4
    <3>2. Prio[s[m]] <= Prio[s[i]]
      <4>1. CASE i = m
        BY <4>1, <1>2, <3>1
      <4>2. CASE m < i
        BY <4>2, <3>1 DEF SortedList
      <4> QED BY <4>1, <4>2, <2>2, <1>1, <3>1
    <3> QED BY <3>1, <3>2, <2>2, <1>1, <1>2
  <2> QED BY <2>1, <2>2
<1> QED BY <1>5, <1>6

\* What InsertAt of the community modules returns.
LEMMA InsertIs ==
  ASSUME NEW s \in Seq(Tasks), NEW k \in 1 .. (Len(s) + 1), NEW p \in Tasks
  PROVE  /\ InsertAt(s, k, p) \in Seq(Tasks)
         /\ Len(InsertAt(s, k, p)) = Len(s) + 1
         /\ \A i \in 1 .. (Len(s) + 1) :
              InsertAt(s, k, p)[i] = IF i < k THEN s[i] ELSE IF i = k THEN p ELSE s[i - 1]
<1> DEFINE n == k - 1
           a == SubSeq(s, 1, n)
           b == <<p>>
           ab == a \o b
           c == SubSeq(s, n + 1, Len(s))
<1>0. Len(s) \in Nat /\ n \in 0 .. Len(s) /\ n \in Int /\ n + 1 = k /\ \A i \in 1 .. Len(s) : s[i] \in Tasks
  OBVIOUS
<1>1. a \in Seq(Tasks) /\ Len(a) = n /\ \A i \in 1 .. n : a[i] = s[i]
  <2>1. \A i \in 1 .. n : s[i] \in Tasks
    BY <1>0
  <2>2. /\ SubSeq(s, 1, n) \in Seq(Tasks)
        /\ Len(SubSeq(s, 1, n)) = IF 1 <= n THEN n - 1 + 1 ELSE 0
        /\ \A i \in 1 .. n - 1 + 1 : SubSeq(s, 1, n)[i] = s[1 + i - 1]
    BY <1>0, <2>1, SubSeqProperties
  <2> QED BY <2>2, <1>0
<1>2. /\ c \in Seq(Tasks) /\ Len(c) = Len(s) - n
      /\ \A i \in 1 .. (Len(s) - n) : c[i] = s[n + i]
  <2>1. \A i \in (n + 1) .. Len(s) : s[i] \in Tasks
    BY <1>0
  <2> DEFINE m == n + 1
             l == Len(s)
  <2>2. m \in Int /\ l \in Int /\ \A i \in m .. l : s[i] \in Tasks
    BY <1>0, <2>1
  <2> HIDE DEF m, l
  <2>3. /\ SubSeq(s, m, l) \in Seq(Tasks)
        /\ Len(SubSeq(s, m, l)) = IF m <= l THEN l - m + 1 ELSE 0
        /\ \A i \in 1 .. l - m + 1 : SubSeq(s, m, l)[i] = s[m + i - 1]
    BY <2>2, SubSeqProperties
  <2>4. Len(c) = Len(s) - n /\ c \in Seq(Tasks)
    BY <2>3, <1>0 DEF m, l
  <2>5. ASSUME NEW i \in 1 .. (Len(s) - n)
        PROVE  c[i] = s[n + i]
    <3>1. i \in 1 .. l - m + 1 /\ m + i - 1 = n + i
      BY <1>0 DEF m, l
    <3>2. SubSeq(s, m, l)[i] = s[m + i - 1]
      BY <2>3, <3>1
    <3> QED BY <3>1, <3>2 DEF m, l
  <2> QED BY <2>4, <2>5
<1>3. b \in Seq(Tasks) /\ Len(b) = 1 /\ b[1] = p
  OBVIOUS
<1>4. InsertAt(s, k, p) = ab \o c
  <2>1. InsertAt(s, k, p) = SubSeq(s, 1, k - 1) \o <<p>> \o SubSeq(s, k, Len(s))
    BY DEF InsertAt
  <2>2. n = k - 1
    OBVIOUS
  <2> HIDE DEF n
  <2> QED BY <2>1, <2>2, <1>0
<1> HIDE DEF a, b, c, n
<1>5. /\ ab \in Seq(Tasks) /\ Len(ab) = n + 1
      /\ \A i \in 1 .. (n + 1) : ab[i] = IF i <= n THEN s[i] ELSE p
  <2>1. /\ ab \in Seq(Tasks) /\ Len(ab) = Len(a) + Len(b)
        /\ \A i \in 1 .. Len(a) + Len(b) :
             ab[i] = IF i <= Len(a) THEN a[i] ELSE b[i - Len(a)]
    BY <1>1, <1>3, ConcatProperties
  <2> HIDE DEF ab
  <2> QED BY <2>1, <1>0, <1>1, <1>3
<1> HIDE DEF ab
<1>6. /\ ab \o c \in Seq(Tasks) /\ Len(ab \o c) = Len(ab) + Len(c)
      /\ \A i \in 1 .. Len(ab) + Len(c) :
           (ab \o c)[i] = IF i <= Len(ab) THEN ab[i] ELSE c[i - Len(ab)]
  BY <1>2, <1>5, ConcatProperties
<1> DEFINE q == ab \o c
<1> HIDE DEF q
<1>7. /\ q \in Seq(Tasks) /\ Len(q) = Len(s) + 1
      /\ \A i \in 1 .. (Len(s) + 1) : q[i] = IF i <= n + 1 THEN ab[i] ELSE c[i - (n + 1)]
  BY <1>0, <1>2, <1>5, <1>6 DEF q
<1>8. ASSUME NEW i \in 1 .. (Len(s) + 1)
      PROVE  q[i] = IF i < k THEN s[i] ELSE IF i = k THEN p ELSE s[i - 1]
  <2>1. CASE i <= n + 1
    BY <2>1, <1>0, <1>5, <1>7
  <2>2. CASE i > n + 1
    <3>1. i - (n + 1) \in 1 .. (Len(s) - n) /\ n + (i - (n + 1)) = i - 1
      BY <2>2, <1>0
    <3>2. c[i - (n + 1)] = s[i - 1]
      BY <1>2, <3>1
    <3> QED BY <2>2, <3>2, <1>0, <1>7
  <2> QED BY <2>1, <2>2, <1>0
<1>9. InsertAt(s, k, p) = q
  BY <1>4 DEF q
<1> QED BY <1>7, <1>8, <1>9, Zenon

\* Inserting a task behind the better ones and before the worse ones.
LEMMA InsertSorted ==
  ASSUME NEW s, SortedList(s), NEW p \in Tasks, p \notin ToSet(s), NEW k \in 1 .. (Len(s) + 1),
         \A i \in 1 .. (k - 1) : Prio[s[i]] <= Prio[p],
         \A i \in k .. Len(s) : Prio[p] <= Prio[s[i]]
  PROVE  LET q == InsertAt(s, k, p)
         IN  SortedList(q) /\ ToSet(q) = ToSet(s) \cup {p} /\ Len(q) = Len(s) + 1
<1> DEFINE q == InsertAt(s, k, p)
<1>0. s \in Seq(Tasks) /\ Len(s) \in Nat /\ k \in Nat /\ DOMAIN s = 1 .. Len(s)
  BY DEF SortedList
<1>1. /\ q \in Seq(Tasks) /\ Len(q) = Len(s) + 1
      /\ \A i \in 1 .. (Len(s) + 1) :
           q[i] = IF i < k THEN s[i] ELSE IF i = k THEN p ELSE s[i - 1]
  <2>1. s \in Seq(Tasks)
    BY <1>0
  <2>2. /\ InsertAt(s, k, p) \in Seq(Tasks)
        /\ Len(InsertAt(s, k, p)) = Len(s) + 1
    BY <2>1, InsertIs
  <2>3. \A i \in 1 .. (Len(s) + 1) :
          InsertAt(s, k, p)[i] = IF i < k THEN s[i] ELSE IF i = k THEN p ELSE s[i - 1]
    BY <2>1, InsertIs
  <2> QED BY <2>2, <2>3
<1> HIDE DEF q
<1> DEFINE From(i) == IF i < k THEN i ELSE i - 1
<1>2. \A i \in 1 .. Len(q) : i # k => From(i) \in 1 .. Len(s) /\ q[i] = s[From(i)]
  BY <1>0, <1>1
<1>3. \A i \in 1 .. Len(s) : s[i] # p /\ s[i] \in Tasks
  BY <1>0 DEF ToSet
<1>4. k \in 1 .. Len(q) /\ q[k] = p
  BY <1>0, <1>1
<1>5. ASSUME NEW i \in 1 .. Len(q), NEW j \in 1 .. Len(q), q[i] = q[j]
      PROVE  i = j
  <2>1. CASE i = k \/ j = k
    <3> HIDE DEF From
    <3>1. \A m \in 1 .. Len(q) : q[m] = p => m = k
      BY <1>2, <1>3
    <3> QED BY <2>1, <1>4, <1>5, <3>1
  <2>2. CASE i # k /\ j # k
    <3>1. From(i) = From(j)
      <4> HIDE DEF From
      <4> QED BY <2>2, <1>2, <1>5 DEF SortedList
    <3> QED BY <3>1, <2>2, <1>0, <1>1
  <2> QED BY <2>1, <2>2
<1>6. ASSUME NEW i \in 1 .. Len(q), NEW j \in 1 .. Len(q), i < j
      PROVE  Prio[q[i]] <= Prio[q[j]]
  <2>1. CASE i = k
    <3>1. q[i] = p /\ q[j] = s[j - 1] /\ j - 1 \in k .. Len(s)
      BY <2>1, <1>0, <1>1, <1>6
    <3> QED BY <3>1
  <2>2. CASE j = k
    <3>1. q[j] = p /\ q[i] = s[i] /\ i \in 1 .. (k - 1)
      BY <2>2, <1>0, <1>1, <1>6
    <3> QED BY <3>1
  <2>3. CASE i # k /\ j # k
    <3>1. From(i) < From(j)
      BY <2>3, <1>0, <1>1, <1>6
    <3> HIDE DEF From
    <3> QED BY <3>1, <2>3, <1>2 DEF SortedList
  <2> QED BY <2>1, <2>2, <2>3
<1>7. ToSet(q) = ToSet(s) \cup {p}
  <2>0. DOMAIN q = 1 .. Len(q)
    BY <1>1
  <2>1. ASSUME NEW x \in ToSet(q) PROVE x \in ToSet(s) \cup {p}
    <3> PICK i \in 1 .. Len(q) : q[i] = x
      BY <2>0 DEF ToSet
    <3> HIDE DEF From
    <3> QED BY <1>0, <1>2, <1>4 DEF ToSet
  <2>2. ASSUME NEW x \in ToSet(s) PROVE x \in ToSet(q)
    <3> PICK i \in 1 .. Len(s) : s[i] = x
      BY <1>0 DEF ToSet
    <3>1. CASE i < k
      <4>1. i \in 1 .. Len(q) /\ q[i] = x
        BY <3>1, <1>0, <1>1
      <4> QED BY <4>1, <2>0 DEF ToSet
    <3>2. CASE i >= k
      <4>1. i + 1 \in 1 .. Len(q) /\ q[i + 1] = x
        BY <3>2, <1>0, <1>1
      <4> QED BY <4>1, <2>0 DEF ToSet
    <3> QED BY <3>1, <3>2, <1>0
  <2>3. p \in ToSet(q)
    BY <1>4, <2>0 DEF ToSet
  <2> QED BY <2>1, <2>2, <2>3
<1> QED BY <1>1, <1>5, <1>6, <1>7 DEF SortedList, q

\* Both ways of queueing a task keep the list sorted.
LEMMA AddSorted ==
  ASSUME NEW s, SortedList(s), NEW p \in Tasks, p \notin ToSet(s), NEW q,
         q = AddTail(s, p) \/ q = AddHead(s, p)
  PROVE  SortedList(q) /\ ToSet(q) = ToSet(s) \cup {p} /\ Len(q) = Len(s) + 1
<1>0. /\ s \in Seq(Tasks) /\ Len(s) \in Nat /\ DOMAIN s = 1 .. Len(s)
      /\ Prio[p] \in Int /\ \A i \in 1 .. Len(s) : Prio[s[i]] \in Int
  BY RtBalanceConstants DEF SortedList
<1>1. ASSUME NEW n \in 0 .. Len(s), NEW I,
             I = 1 .. n
      PROVE  Cardinality(I) = n /\ 1 + Cardinality(I) = n + 1
  <2>1. 1 \in Int /\ n \in Int
    BY <1>0
  <2>2. Cardinality(1 .. n) = IF 1 > n THEN 0 ELSE n - 1 + 1
    BY <2>1, FS_Interval
  <2> QED BY <2>2, <1>0, <1>1
<1>2. CASE q = AddTail(s, p)
  <2>1. PICK n \in 0 .. Len(s) : \A i \in 1 .. Len(s) : Prio[s[i]] <= Prio[p] <=> i <= n
    BY <1>0, Prefix
  <2>2. {i \in DOMAIN s : Prio[s[i]] <= Prio[p]} = 1 .. n
    BY <1>0, <2>1
  <2> DEFINE k == 1 + Cardinality({i \in DOMAIN s : Prio[s[i]] <= Prio[p]})
  <2>3. k = n + 1
    BY <1>1, <2>2
  <2>4. q = InsertAt(s, k, p)
    BY <1>2 DEF AddTail
  <2> HIDE DEF k
  <2>5. /\ k \in 1 .. (Len(s) + 1)
        /\ \A i \in 1 .. (k - 1) : Prio[s[i]] <= Prio[p]
        /\ \A i \in k .. Len(s) : Prio[p] <= Prio[s[i]]
    BY <1>0, <2>1, <2>3
  <2> QED BY <2>4, <2>5, InsertSorted
<1>3. CASE q = AddHead(s, p)
  <2>0. Prio[p] - 1 \in Int
    BY <1>0
  <2>1. PICK n \in 0 .. Len(s) : \A i \in 1 .. Len(s) : Prio[s[i]] <= Prio[p] - 1 <=> i <= n
    BY <2>0, Prefix
  <2>2. {i \in DOMAIN s : Prio[s[i]] < Prio[p]} = 1 .. n
    BY <1>0, <2>1
  <2> DEFINE k == 1 + Cardinality({i \in DOMAIN s : Prio[s[i]] < Prio[p]})
  <2>3. k = n + 1
    BY <1>1, <2>2
  <2>4. q = InsertAt(s, k, p)
    BY <1>3 DEF AddHead
  <2> HIDE DEF k
  <2>5. /\ k \in 1 .. (Len(s) + 1)
        /\ \A i \in 1 .. (k - 1) : Prio[s[i]] <= Prio[p]
        /\ \A i \in k .. Len(s) : Prio[p] <= Prio[s[i]]
    BY <1>0, <2>1, <2>3
  <2> QED BY <2>4, <2>5, InsertSorted
<1> QED BY <1>2, <1>3

\* What RemoveFirst of the community modules returns for a task on the list.
LEMMA RemoveIs ==
  ASSUME NEW s \in Seq(Tasks), NEW p, p \in ToSet(s)
  PROVE  \E k \in 1 .. Len(s) :
           /\ s[k] = p
           /\ RemoveFirst(s, p) \in Seq(Tasks)
           /\ Len(RemoveFirst(s, p)) = Len(s) - 1
           /\ \A i \in 1 .. (Len(s) - 1) :
                RemoveFirst(s, p)[i] = IF i < k THEN s[i] ELSE s[i + 1]
<1> DEFINE I == {i \in 1 .. Len(s) : s[i] = p}
           k == Min(I)
<1>0. Len(s) \in Nat /\ DOMAIN s = 1 .. Len(s) /\ \A i \in 1 .. Len(s) : s[i] \in Tasks
  OBVIOUS
<1>1. I # {} /\ I \subseteq Nat
  BY <1>0 DEF ToSet
<1>2. k \in I
  <2>1. \E m \in I : \A y \in I : m <= y
    BY <1>1, LeastNat
  <2> QED BY <2>1 DEF Min
<1>3. RemoveFirst(s, p) = SubSeq(s, 1, k - 1) \o SubSeq(s, k + 1, Len(s))
  <2>1. SelectInSeq(s, LAMBDA v : v = p) = k
    BY <1>1 DEF SelectInSeq
  <2>2. \E i \in 1 .. Len(s) : s[i] = p
    BY <1>1
  <2>3. RemoveFirst(s, p) = RemoveAt(s, k)
    BY <2>1, <2>2 DEF RemoveFirst
  <2> HIDE DEF k
  <2> QED BY <2>3 DEF RemoveAt
<1>4. k \in 1 .. Len(s) /\ s[k] = p
  BY <1>2
<1> HIDE DEF k, I
<1> DEFINE n == k - 1
           m == k + 1
           l == Len(s)
           a == SubSeq(s, 1, n)
           b == SubSeq(s, m, l)
           q == a \o b
<1>5. /\ n \in Int /\ m \in Int /\ l \in Int
      /\ \A i \in 1 .. n : s[i] \in Tasks
      /\ \A i \in m .. l : s[i] \in Tasks
  BY <1>0, <1>4
<1>6. RemoveFirst(s, p) = q
  BY <1>3
<1>7. l = Len(s) /\ n = k - 1 /\ m = k + 1
  OBVIOUS
<1> HIDE DEF n, m, l
<1>8. /\ a \in Seq(Tasks) /\ Len(a) = (IF 1 <= n THEN n - 1 + 1 ELSE 0)
      /\ \A i \in 1 .. n - 1 + 1 : a[i] = s[1 + i - 1]
  BY <1>5, SubSeqProperties
<1>9. /\ b \in Seq(Tasks) /\ Len(b) = (IF m <= l THEN l - m + 1 ELSE 0)
      /\ \A i \in 1 .. l - m + 1 : b[i] = s[m + i - 1]
  BY <1>5, SubSeqProperties
<1> HIDE DEF a, b
<1>10. /\ q \in Seq(Tasks) /\ Len(q) = Len(a) + Len(b)
       /\ \A i \in 1 .. Len(a) + Len(b) : q[i] = IF i <= Len(a) THEN a[i] ELSE b[i - Len(a)]
  BY <1>8, <1>9, ConcatProperties
<1> HIDE DEF q
<1>11. Len(a) = k - 1 /\ Len(b) = Len(s) - k /\ Len(q) = Len(s) - 1
  <2>1. Len(a) = k - 1
    BY <1>4, <1>7, <1>8
  <2>2. Len(b) = Len(s) - k
    <3>1. Len(b) = IF m <= l THEN l - m + 1 ELSE 0
      BY <1>9
    <3>2. k \in Nat /\ Len(s) \in Nat /\ k <= Len(s)
      BY <1>0, <1>4
    <3> QED BY <3>1, <3>2, <1>7
  <2> QED BY <2>1, <2>2, <1>0, <1>4, <1>10
<1>12. \A i \in 1 .. (k - 1) : a[i] = s[i]
  BY <1>0, <1>4, <1>7, <1>8
<1>13. ASSUME NEW i \in 1 .. (Len(s) - 1)
       PROVE  q[i] = IF i < k THEN s[i] ELSE s[i + 1]
  <2>1. CASE i < k
    <3>1. i \in 1 .. Len(a) + Len(b) /\ i <= Len(a) /\ i \in 1 .. (k - 1)
      BY <2>1, <1>0, <1>4, <1>11
    <3>2. q[i] = a[i]
      BY <3>1, <1>10
    <3> QED BY <2>1, <3>1, <3>2, <1>12
  <2>2. CASE i >= k
    <3> DEFINE j == i - (k - 1)
    <3>1. j \in 1 .. l - m + 1 /\ m + j - 1 = i + 1
      BY <2>2, <1>0, <1>4, <1>7
    <3>2. b[j] = s[m + j - 1]
      BY <3>1, <1>9
    <3>3. q[i] = b[j]
      BY <2>2, <1>0, <1>4, <1>10, <1>11
    <3> HIDE DEF j
    <3>4. q[i] = s[i + 1]
      BY <3>1, <3>2, <3>3
    <3> QED BY <3>4, <2>2, <1>4
  <2> QED BY <2>1, <2>2, <1>0, <1>4
<1> QED BY <1>4, <1>6, <1>10, <1>11, <1>13

\* Taking a task off a sorted list.
LEMMA RemoveSorted ==
  ASSUME NEW s, SortedList(s), NEW p
  PROVE  LET q == RemoveFirst(s, p)
         IN  /\ SortedList(q) /\ ToSet(q) = ToSet(s) \ {p}
             /\ p \in ToSet(s) => Len(q) = Len(s) - 1
             /\ p \notin ToSet(s) => q = s
<1> DEFINE q == RemoveFirst(s, p)
<1>0. s \in Seq(Tasks) /\ Len(s) \in Nat /\ DOMAIN s = 1 .. Len(s)
  BY DEF SortedList
<1>1. CASE p \notin ToSet(s)
  <2>1. q = s
    BY <1>0, <1>1 DEF RemoveFirst, ToSet
  <2> QED BY <2>1, <1>1
<1>2. CASE p \in ToSet(s)
  <2>1. PICK k \in 1 .. Len(s) :
          /\ s[k] = p /\ q \in Seq(Tasks) /\ Len(q) = Len(s) - 1
          /\ \A i \in 1 .. (Len(s) - 1) : q[i] = IF i < k THEN s[i] ELSE s[i + 1]
    <3>1. \E k \in 1 .. Len(s) :
            /\ s[k] = p
            /\ RemoveFirst(s, p) \in Seq(Tasks)
            /\ Len(RemoveFirst(s, p)) = Len(s) - 1
            /\ \A i \in 1 .. (Len(s) - 1) :
                 RemoveFirst(s, p)[i] = IF i < k THEN s[i] ELSE s[i + 1]
      <4>1. s \in Seq(Tasks)
        BY <1>0
      <4> QED BY <4>1, <1>2, RemoveIs
    <3>2. q = RemoveFirst(s, p)
      OBVIOUS
    <3> HIDE DEF q
    <3> QED BY <3>1, <3>2
  <2> HIDE DEF q
  <2> DEFINE From(i) == IF i < k THEN i ELSE i + 1
  <2>2. \A i \in 1 .. Len(q) : From(i) \in 1 .. Len(s) /\ From(i) # k /\ q[i] = s[From(i)]
    BY <1>0, <2>1
  <2>3. \A i, j \in 1 .. Len(q) : (From(i) = From(j) => i = j) /\ (i < j => From(i) < From(j))
    BY <1>0, <2>1
  <2>4. \A i \in 1 .. Len(s) : i # k => \E j \in 1 .. Len(q) : From(j) = i
    <3> TAKE i \in 1 .. Len(s)
    <3> HAVE i # k
    <3>1. CASE i < k
      <4>1. i \in 1 .. Len(q) /\ From(i) = i
        BY <3>1, <1>0, <2>1
      <4> QED BY <4>1
    <3>2. CASE i > k
      <4>1. i - 1 \in 1 .. Len(q) /\ From(i - 1) = i
        BY <3>2, <1>0, <2>1
      <4> QED BY <4>1
    <3> QED BY <3>1, <3>2
  <2>5. DOMAIN q = 1 .. Len(q)
    BY <2>1
  <2> HIDE DEF From
  <2>6. /\ \A i, j \in 1 .. Len(q) : q[i] = q[j] => i = j
        /\ \A i, j \in 1 .. Len(q) : i < j => Prio[q[i]] <= Prio[q[j]]
    <3>1. ASSUME NEW i \in 1 .. Len(q), NEW j \in 1 .. Len(q), q[i] = q[j] PROVE i = j
      BY <3>1, <2>2, <2>3 DEF SortedList
    <3>2. ASSUME NEW i \in 1 .. Len(q), NEW j \in 1 .. Len(q), i < j
          PROVE  Prio[q[i]] <= Prio[q[j]]
      <4>1. From(i) < From(j) /\ From(i) \in 1 .. Len(s) /\ From(j) \in 1 .. Len(s)
        BY <3>2, <2>2, <2>3
      <4>2. Prio[s[From(i)]] <= Prio[s[From(j)]]
        BY <4>1 DEF SortedList
      <4> QED BY <4>2, <2>2
    <3> QED BY <3>1, <3>2
  <2>7. ToSet(q) = ToSet(s) \ {p}
    <3>1. ASSUME NEW x \in ToSet(q) PROVE x \in ToSet(s) \ {p}
      <4> PICK i \in 1 .. Len(q) : q[i] = x
        BY <2>5 DEF ToSet
      <4>1. x = s[From(i)] /\ From(i) \in 1 .. Len(s) /\ From(i) # k
        BY <2>2
      <4>2. x # p
        BY <4>1, <2>1 DEF SortedList
      <4> QED BY <4>1, <4>2, <1>0 DEF ToSet
    <3>2. ASSUME NEW x \in ToSet(s), x # p PROVE x \in ToSet(q)
      <4> PICK i \in 1 .. Len(s) : s[i] = x
        BY <1>0 DEF ToSet
      <4> PICK j \in 1 .. Len(q) : From(j) = i
        BY <3>2, <2>1, <2>4
      <4> QED BY <2>2, <2>5 DEF ToSet
    <3> QED BY <3>1, <3>2
  <2> QED BY <1>2, <2>1, <2>6, <2>7 DEF SortedList, q
<1> QED BY <1>1, <1>2

\* The first priority is that of the best task listed, or MAX_RT_PRIO.
LEMMA FirstLeast ==
  ASSUME NEW s, SortedList(s)
  PROVE  /\ FirstPrio(s) \in Prios /\ ToSet(s) \subseteq Tasks
         /\ s = <<>> <=> ToSet(s) = {}
         /\ \A x \in ToSet(s) : FirstPrio(s) <= Prio[x]
         /\ ToSet(s) = {} => FirstPrio(s) = MAX_RT_PRIO
         /\ ToSet(s) # {} => \E x \in ToSet(s) : FirstPrio(s) = Prio[x]
<1>0. /\ s \in Seq(Tasks) /\ Len(s) \in Nat /\ DOMAIN s = 1 .. Len(s)
      /\ \A i \in 1 .. Len(s) : s[i] \in Tasks
  BY DEF SortedList
<1>1. MAX_RT_PRIO \in Nat /\ \A x \in Tasks : Prio[x] \in 0 .. (MAX_RT_PRIO - 1)
  BY RtBalanceConstants
<1>2. ToSet(s) \subseteq Tasks /\ (s = <<>> <=> ToSet(s) = {})
  BY <1>0 DEF ToSet
<1>3. CASE s = <<>>
  BY <1>1, <1>2, <1>3 DEF FirstPrio, Prios
<1>4. CASE s # <<>>
  <2>1. 1 \in 1 .. Len(s) /\ FirstPrio(s) = Prio[s[1]] /\ s[1] \in Tasks /\ s[1] \in ToSet(s)
    BY <1>0, <1>4 DEF FirstPrio, ToSet
  <2>2. ASSUME NEW x \in ToSet(s) PROVE Prio[s[1]] <= Prio[x]
    <3> PICK i \in 1 .. Len(s) : s[i] = x
      BY <1>0 DEF ToSet
    <3>1. CASE i = 1
      BY <3>1, <2>1, <1>1
    <3>2. CASE 1 < i
      BY <3>2, <2>1 DEF SortedList
    <3> QED BY <3>1, <3>2, <1>0
  <2> QED BY <1>1, <1>2, <1>4, <2>1, <2>2 DEF Prios
<1> QED BY <1>3, <1>4

\* So it follows from what is listed.
LEMMA FirstSame ==
  ASSUME NEW s, NEW q, SortedList(s), SortedList(q), ToSet(s) = ToSet(q)
  PROVE  FirstPrio(s) = FirstPrio(q)
<1>1. \A x \in Tasks : Prio[x] \in Int
  BY RtBalanceConstants
<1>2. CASE ToSet(s) = {}
  BY <1>2, FirstLeast
<1>3. CASE ToSet(s) # {}
  <2>1. PICK x \in ToSet(s) : FirstPrio(s) = Prio[x]
    BY <1>3, FirstLeast
  <2>2. PICK y \in ToSet(q) : FirstPrio(q) = Prio[y]
    BY <1>3, FirstLeast
  <2>3. Prio[x] <= Prio[y] /\ Prio[y] <= Prio[x] /\ x \in Tasks /\ y \in Tasks
    BY <2>1, <2>2, FirstLeast
  <2> QED BY <1>1, <2>1, <2>2, <2>3
<1> QED BY <1>2, <1>3

\* And of one more task, from the lesser of the two priorities.
LEMMA FirstAdd ==
  ASSUME NEW s, NEW q, NEW p \in Tasks, SortedList(s), SortedList(q), ToSet(q) = ToSet(s) \cup {p}
  PROVE  FirstPrio(q) = IF Prio[p] < FirstPrio(s) THEN Prio[p] ELSE FirstPrio(s)
<1>1. MAX_RT_PRIO \in Nat /\ \A x \in Tasks : Prio[x] \in 0 .. (MAX_RT_PRIO - 1)
  BY RtBalanceConstants
<1>2. PICK y \in ToSet(q) : FirstPrio(q) = Prio[y]
  BY FirstLeast
<1>3. FirstPrio(q) <= Prio[p] /\ \A x \in ToSet(s) : FirstPrio(q) <= Prio[x]
  BY FirstLeast
<1>4. FirstPrio(s) \in Prios /\ FirstPrio(q) \in Prios
  BY FirstLeast
<1>5. CASE ToSet(s) = {}
  <2>1. y = p /\ FirstPrio(s) = MAX_RT_PRIO
    BY <1>5, FirstLeast
  <2> QED BY <2>1, <1>1, <1>2
<1>6. CASE ToSet(s) # {}
  <2>1. PICK x \in ToSet(s) : FirstPrio(s) = Prio[x]
    BY <1>6, FirstLeast
  <2>2. y = p \/ FirstPrio(s) <= Prio[y]
    BY FirstLeast
  <2>3. FirstPrio(q) <= FirstPrio(s)
    BY <2>1, <1>3
  <2> QED BY <2>2, <2>3, <1>1, <1>2, <1>3, <1>4 DEF Prios
<1> QED BY <1>5, <1>6

-----------------------------------------------------------------------------
(* The run queue's operations. *)

\* A state with another run queue for one CPU.
LEMMA OnIs ==
  ASSUME NEW S \in System, NEW c \in CPUs, NEW r \in RunQueue
  PROVE  /\ On(S, c, r) \in System
         /\ On(S, c, r).rd = S.rd /\ On(S, c, r).task = S.task
         /\ On(S, c, r).rq[c] = r
         /\ \A d \in CPUs \ {c} : On(S, c, r).rq[d] = S.rq[d]
BY DEF On, System

\* The parts of a state.
LEMMA Parts ==
  ASSUME NEW S \in System, NEW c \in CPUs
  PROVE  /\ S.rq[c] \in RunQueue /\ S.rd \in RootDomain
         /\ \A p \in Tasks : S.task[p] \in TaskRecord
         /\ S.rd.rto_mask \subseteq CPUs /\ S.rd.rto_count \in Int
         /\ IsFiniteSet(S.rd.rto_mask) /\ S.rd.cpupri[c] \in Prios
<1>1. S.rq[c] \in RunQueue /\ S.rd \in RootDomain /\ \A p \in Tasks : S.task[p] \in TaskRecord
  BY DEF System
<1>2. S.rd.rto_mask \subseteq CPUs /\ S.rd.rto_count \in Int /\ S.rd.cpupri[c] \in Prios
  BY <1>1 DEF RootDomain
<1>3. IsFiniteSet(S.rd.rto_mask)
  BY <1>2, RtBalanceConstants, FS_Subset
<1> QED BY <1>1, <1>2, <1>3

\* T differs from S at most in the run queue of c and what the domain says of it.
Near(S, T, c) ==
  /\ T \in System /\ T.task = S.task
  /\ \A d \in CPUs \ {c} : /\ T.rq[d] = S.rq[d] /\ T.rd.cpupri[d] = S.rd.cpupri[d]
                           /\ d \in T.rd.rto_mask <=> d \in S.rd.rto_mask

\* The fields that no operation of the domain's marks changes.
SameTask(r, t) ==
  /\ t.pushable = r.pushable /\ t.next = r.next
  /\ t.curr = r.curr /\ t.need_resched = r.need_resched

\* Steps at the same CPU add up.
LEMMA NearTwice ==
  ASSUME NEW S, NEW T, NEW U, NEW c, Near(S, T, c), Near(T, U, c)
  PROVE  Near(S, U, c)
BY DEF Near

\* Replacing the run queue of c alone.
LEMMA NearOn ==
  ASSUME NEW S \in System, NEW c \in CPUs, NEW r \in RunQueue
  PROVE  Near(S, On(S, c, r), c)
BY OnIs DEF Near

\* update_rt_migration marks the CPU as its counts say, in the queue and in the domain.
LEMMA UpdateMigration ==
  ASSUME NEW S \in System, NEW c \in CPUs,
         c \in S.rd.rto_mask <=> S.rq[c].overloaded,
         S.rd.rto_count = Cardinality(S.rd.rto_mask)
  PROVE  LET T == update_rt_migration(S, c)
             r == S.rq[c]
             t == T.rq[c]
         IN  /\ Near(S, T, c) /\ SameTask(r, t)
             /\ t.queue = r.queue /\ t.highest = r.highest
             /\ t.total = r.total /\ t.migratory = r.migratory
             /\ t.overloaded = Overloaded(r)
             /\ T.rd.cpupri = S.rd.cpupri
             /\ c \in T.rd.rto_mask <=> t.overloaded
             /\ T.rd.rto_count = Cardinality(T.rd.rto_mask)
<1> DEFINE T == update_rt_migration(S, c)
           r == S.rq[c]
           over == Overloaded(r)
           m == [r EXCEPT !.overloaded = over]
           N == On(S, c, m)
<1>0. r \in RunQueue /\ S.rd \in RootDomain /\ IsFiniteSet(S.rd.rto_mask)
  BY Parts
<1>1. r.overloaded \in BOOLEAN /\ over \in BOOLEAN
  BY <1>0 DEF RunQueue, Overloaded
<1>2. /\ m \in RunQueue /\ SameTask(r, m) /\ m.queue = r.queue /\ m.highest = r.highest
      /\ m.total = r.total /\ m.migratory = r.migratory /\ m.overloaded = over
  <2> HIDE DEF over
  <2> QED BY <1>0, <1>1 DEF RunQueue, SameTask
<1>3. T = CASE over /\ ~r.overloaded -> [N EXCEPT !.rd = rt_set_overload(@, c)]
            [] ~over /\ r.overloaded -> [N EXCEPT !.rd = rt_clear_overload(@, c)]
            [] OTHER -> S
  BY DEF update_rt_migration, Overloaded
<1> HIDE DEF m, over, T
<1>4. N \in System /\ N.rd = S.rd /\ N.task = S.task /\ N.rq[c] = m
      /\ \A d \in CPUs \ {c} : N.rq[d] = S.rq[d]
  BY <1>2, OnIs
<1> HIDE DEF N
<1>5. ASSUME NEW e \in RootDomain
      PROVE  LET U == [N EXCEPT !.rd = e]
             IN  /\ U \in System /\ U.rd = e /\ U.task = S.task /\ U.rq[c] = m
                 /\ \A d \in CPUs \ {c} : U.rq[d] = S.rq[d]
  BY <1>4 DEF System
<1>6. CASE over /\ ~r.overloaded
  <2> DEFINE e == rt_set_overload(S.rd, c)
  <2>1. /\ e \in RootDomain /\ e.rto_mask = S.rd.rto_mask \cup {c}
        /\ e.rto_count = S.rd.rto_count + 1 /\ e.cpupri = S.rd.cpupri
    <3>1. S.rd.rto_mask \in SUBSET CPUs /\ S.rd.rto_count \in Int
      BY <1>0 DEF RootDomain
    <3> DEFINE k == S.rd.rto_mask \cup {c}
               n == S.rd.rto_count + 1
    <3>2. k \in SUBSET CPUs /\ n \in Int
      BY <3>1
    <3>3. e = [S.rd EXCEPT !.rto_mask = k, !.rto_count = n]
      BY DEF rt_set_overload
    <3> HIDE DEF e, k, n
    <3>4. e \in RootDomain /\ e.rto_mask = k /\ e.rto_count = n /\ e.cpupri = S.rd.cpupri
      BY <1>0, <3>2, <3>3 DEF RootDomain
    <3> QED BY <3>4 DEF k, n
  <2>2. Cardinality(e.rto_mask) = e.rto_count
    BY <1>0, <1>6, <2>1, FS_AddElement
  <2>3. T = [N EXCEPT !.rd = e]
    BY <1>3, <1>4, <1>6
  <2> HIDE DEF e
  <2>4. /\ T \in System /\ T.rd = e /\ T.task = S.task /\ T.rq[c] = m
        /\ \A d \in CPUs \ {c} : T.rq[d] = S.rq[d]
    BY <1>5, <2>1, <2>3
  <2>5. Near(S, T, c)
    BY <2>1, <2>4 DEF Near
  <2> QED BY <1>2, <1>6, <2>1, <2>2, <2>4, <2>5 DEF T, over
<1>7. CASE ~over /\ r.overloaded
  <2> DEFINE e == rt_clear_overload(S.rd, c)
  <2>1. /\ e \in RootDomain /\ e.rto_mask = S.rd.rto_mask \ {c}
        /\ e.rto_count = S.rd.rto_count - 1 /\ e.cpupri = S.rd.cpupri
    <3>1. S.rd.rto_mask \in SUBSET CPUs /\ S.rd.rto_count \in Int
      BY <1>0 DEF RootDomain
    <3> DEFINE k == S.rd.rto_mask \ {c}
               n == S.rd.rto_count - 1
    <3>2. k \in SUBSET CPUs /\ n \in Int
      BY <3>1
    <3>3. e = [S.rd EXCEPT !.rto_mask = k, !.rto_count = n]
      BY DEF rt_clear_overload
    <3> HIDE DEF e, k, n
    <3>4. e \in RootDomain /\ e.rto_mask = k /\ e.rto_count = n /\ e.cpupri = S.rd.cpupri
      BY <1>0, <3>2, <3>3 DEF RootDomain
    <3> QED BY <3>4 DEF k, n
  <2>2. Cardinality(e.rto_mask) = e.rto_count
    <3>1. c \in S.rd.rto_mask
      BY <1>7
    <3>2. Cardinality(S.rd.rto_mask \ {c}) = Cardinality(S.rd.rto_mask) - 1
      BY <1>0, <3>1, FS_RemoveElement
    <3> HIDE DEF e
    <3> QED BY <2>1, <3>2
  <2>3. T = [N EXCEPT !.rd = e]
    BY <1>3, <1>4, <1>7
  <2> HIDE DEF e
  <2>4. /\ T \in System /\ T.rd = e /\ T.task = S.task /\ T.rq[c] = m
        /\ \A d \in CPUs \ {c} : T.rq[d] = S.rq[d]
    BY <1>5, <2>1, <2>3
  <2>5. Near(S, T, c)
    BY <2>1, <2>4 DEF Near
  <2> QED BY <1>2, <1>7, <2>1, <2>2, <2>4, <2>5 DEF T, over
<1>8. CASE over <=> r.overloaded
  <2>1. T = S
    BY <1>1, <1>3, <1>8
  <2>2. Near(S, S, c) /\ SameTask(r, r)
    BY DEF Near, SameTask
  <2>3. r.overloaded = over
    BY <1>1, <1>8
  <2> QED BY <2>1, <2>2, <2>3 DEF T, over
<1> QED BY <1>1, <1>6, <1>7, <1>8

\* SetHighest tells the domain the first priority of the queue.
LEMMA HighestSet ==
  ASSUME NEW S \in System, NEW c \in CPUs, SortedList(S.rq[c].queue),
         S.rd.cpupri[c] = S.rq[c].highest
  PROVE  LET T == SetHighest(S, c)
             r == S.rq[c]
             t == T.rq[c]
         IN  /\ Near(S, T, c) /\ SameTask(r, t)
             /\ t.queue = r.queue /\ t.highest = FirstPrio(r.queue)
             /\ t.total = r.total /\ t.migratory = r.migratory /\ t.overloaded = r.overloaded
             /\ T.rd.cpupri[c] = FirstPrio(r.queue)
             /\ T.rd.rto_mask = S.rd.rto_mask /\ T.rd.rto_count = S.rd.rto_count
<1> DEFINE T == SetHighest(S, c)
           r == S.rq[c]
           prio == FirstPrio(r.queue)
           h == [r EXCEPT !.highest = prio]
           N == On(S, c, h)
<1>0. r \in RunQueue /\ S.rd \in RootDomain /\ prio \in Prios
  BY Parts, FirstLeast
<1>1. T = IF prio = r.highest THEN S ELSE [N EXCEPT !.rd.cpupri[c] = prio]
  BY DEF SetHighest
<1> HIDE DEF prio
<1>2. /\ h \in RunQueue /\ SameTask(r, h) /\ h.queue = r.queue /\ h.highest = prio
      /\ h.total = r.total /\ h.migratory = r.migratory /\ h.overloaded = r.overloaded
  BY <1>0 DEF RunQueue, SameTask
<1> HIDE DEF h
<1>3. CASE prio = r.highest
  <2>1. T = S
    BY <1>1, <1>3
  <2>2. Near(S, S, c) /\ SameTask(r, r)
    BY DEF Near, SameTask
  <2> HIDE DEF T
  <2> QED BY <1>3, <2>1, <2>2 DEF T, prio
<1>4. CASE prio # r.highest
  <2>1. N \in System /\ N.rd = S.rd /\ N.task = S.task /\ N.rq[c] = h
        /\ \A d \in CPUs \ {c} : N.rq[d] = S.rq[d]
    BY <1>2, OnIs
  <2>2. T = [N EXCEPT !.rd.cpupri[c] = prio]
    BY <1>1, <1>4
  <2> HIDE DEF N, T
  <2>3. T \in System /\ T.rq = N.rq /\ T.task = N.task /\ T.rd = [N.rd EXCEPT !.cpupri[c] = prio]
    BY <1>0, <2>1, <2>2 DEF System, RootDomain
  <2>4. /\ T.rd.rto_mask = S.rd.rto_mask /\ T.rd.rto_count = S.rd.rto_count
        /\ T.rd.cpupri[c] = prio /\ \A d \in CPUs \ {c} : T.rd.cpupri[d] = S.rd.cpupri[d]
    BY <1>0, <2>1, <2>3 DEF RootDomain
  <2>5. Near(S, T, c)
    BY <2>1, <2>3, <2>4 DEF Near
  <2> QED BY <1>2, <2>1, <2>3, <2>4, <2>5 DEF T, prio
<1> QED BY <1>3, <1>4

\* A new queue, the counts changed by n: the domain knows them.
LEMMA RequeueIs ==
  ASSUME NEW S \in System, NEW c \in CPUs, NEW p \in Tasks, NEW s, NEW n \in Int,
         SortedList(s), KnownOK(S, c), S.rd.rto_count = Cardinality(S.rd.rto_mask)
  PROVE  LET T == Requeue(S, c, p, s, n)
             r == S.rq[c]
             t == T.rq[c]
         IN  /\ Near(S, T, c) /\ SameTask(r, t) /\ KnownOK(T, c)
             /\ t.queue = s /\ t.total = r.total + n
             /\ t.migratory = IF p \in Mobile(S.task) THEN r.migratory + n ELSE r.migratory
             /\ t.overloaded = Overloaded(t)
             /\ T.rd.rto_count = Cardinality(T.rd.rto_mask)
<1> DEFINE r == S.rq[c]
           q == [r EXCEPT !.queue = s]
           A == On(S, c, q)
           B == SetHighest(A, c)
           b == B.rq[c]
           k == [b EXCEPT !.total = b.total + n,
                          !.migratory = IF Migratory(B, p) THEN b.migratory + n ELSE b.migratory]
           C == On(B, c, k)
           T == update_rt_migration(C, c)
           t == T.rq[c]
<1>0. r \in RunQueue /\ s \in Seq(Tasks)
  BY Parts DEF SortedList
<1>1. /\ q \in RunQueue /\ SameTask(r, q) /\ q.queue = s /\ q.highest = r.highest
      /\ q.total = r.total /\ q.migratory = r.migratory /\ q.overloaded = r.overloaded
  BY <1>0 DEF RunQueue, SameTask
<1>2. Requeue(S, c, p, s, n) = T
  BY DEF Requeue, CountMigration
<1> HIDE DEF q, T
<1>3. A \in System /\ A.rd = S.rd /\ A.task = S.task /\ A.rq[c] = q /\ Near(S, A, c)
  BY <1>1, OnIs, NearOn
<1> HIDE DEF A
<1>4. A.rd.cpupri[c] = A.rq[c].highest /\ SortedList(A.rq[c].queue)
  BY <1>1, <1>3 DEF KnownOK
<1>5. /\ Near(A, B, c) /\ SameTask(q, b)
      /\ b.queue = s /\ b.highest = FirstPrio(s)
      /\ b.total = q.total /\ b.migratory = q.migratory /\ b.overloaded = q.overloaded
      /\ B.rd.cpupri[c] = FirstPrio(s)
      /\ B.rd.rto_mask = S.rd.rto_mask /\ B.rd.rto_count = S.rd.rto_count
  BY <1>1, <1>3, <1>4, HighestSet
<1> HIDE DEF B
<1>6. B \in System /\ B.task = S.task
  BY <1>3, <1>5 DEF Near
<1>7. b \in RunQueue
  BY <1>6, Parts
<1>8. Migratory(B, p) <=> p \in Mobile(S.task)
  BY <1>6 DEF Migratory, Mobile
<1>9. /\ k \in RunQueue /\ SameTask(b, k) /\ k.queue = b.queue /\ k.highest = b.highest
      /\ k.total = b.total + n /\ k.overloaded = b.overloaded
      /\ k.migratory = IF p \in Mobile(S.task) THEN b.migratory + n ELSE b.migratory
  <2> DEFINE x == b.total + n
             y == IF Migratory(B, p) THEN b.migratory + n ELSE b.migratory
  <2>1. x \in Int /\ y \in Int
    BY <1>7 DEF RunQueue
  <2>2. k = [b EXCEPT !.total = x, !.migratory = y]
    OBVIOUS
  <2>3. x = b.total + n /\ y = IF p \in Mobile(S.task) THEN b.migratory + n ELSE b.migratory
    BY <1>8
  <2> HIDE DEF x, y, k, b
  <2>4. /\ k \in RunQueue /\ SameTask(b, k) /\ k.queue = b.queue /\ k.highest = b.highest
        /\ k.total = x /\ k.overloaded = b.overloaded /\ k.migratory = y
    BY <1>7, <2>1, <2>2 DEF RunQueue, SameTask
  <2> QED BY <2>3, <2>4
<1> HIDE DEF k
<1>10. C \in System /\ C.rd = B.rd /\ C.task = S.task /\ C.rq[c] = k /\ Near(B, C, c)
  BY <1>6, <1>9, OnIs, NearOn
<1> HIDE DEF C
<1>11. /\ c \in C.rd.rto_mask <=> C.rq[c].overloaded
       /\ C.rd.rto_count = Cardinality(C.rd.rto_mask)
  BY <1>1, <1>5, <1>9, <1>10 DEF KnownOK
<1>12. /\ Near(C, T, c) /\ SameTask(k, t)
       /\ t.queue = k.queue /\ t.highest = k.highest
       /\ t.total = k.total /\ t.migratory = k.migratory /\ t.overloaded = Overloaded(k)
       /\ T.rd.cpupri = B.rd.cpupri
       /\ c \in T.rd.rto_mask <=> t.overloaded
       /\ T.rd.rto_count = Cardinality(T.rd.rto_mask)
  BY <1>10, <1>11, UpdateMigration DEF T
<1> HIDE DEF t
<1>13. Near(S, T, c)
  BY <1>3, <1>5, <1>10, <1>12, NearTwice
<1>14. SameTask(r, t)
  BY <1>1, <1>5, <1>9, <1>12 DEF SameTask
<1>15. KnownOK(T, c)
  BY <1>5, <1>9, <1>12 DEF KnownOK, t
<1>16. /\ t.queue = s /\ t.total = r.total + n
       /\ t.migratory = IF p \in Mobile(S.task) THEN r.migratory + n ELSE r.migratory
       /\ t.overloaded = Overloaded(t)
  <2>1. t.queue = s /\ t.total = r.total + n
    BY <1>1, <1>5, <1>9, <1>12
  <2>2. t.migratory = IF p \in Mobile(S.task) THEN r.migratory + n ELSE r.migratory
    BY <1>1, <1>5, <1>9, <1>12
  <2>3. t.overloaded = Overloaded(t)
    BY <1>12 DEF Overloaded
  <2> QED BY <2>1, <2>2, <2>3
<1> QED BY <1>2, <1>12, <1>13, <1>14, <1>15, <1>16 DEF t

\* A task added to the pushable ones.
LEMMA PushAdded ==
  ASSUME NEW r \in RunQueue, NEW p \in Tasks, SortedList(r.pushable),
         r.next = FirstPrio(r.pushable), p \notin ToSet(r.pushable)
  PROVE  LET t == enqueue_pushable_task(r, p)
         IN  /\ t \in RunQueue /\ SortedList(t.pushable)
             /\ ToSet(t.pushable) = ToSet(r.pushable) \cup {p}
             /\ t.next = FirstPrio(t.pushable)
             /\ t.queue = r.queue /\ t.highest = r.highest /\ t.total = r.total
             /\ t.migratory = r.migratory /\ t.overloaded = r.overloaded
             /\ t.curr = r.curr /\ t.need_resched = r.need_resched
<1> DEFINE t == enqueue_pushable_task(r, p)
           s == RemoveFirst(r.pushable, p)
           a == AddTail(s, p)
           v == IF Prio[p] < r.next THEN Prio[p] ELSE r.next
<1>1. t = [r EXCEPT !.pushable = a, !.next = v]
  BY DEF enqueue_pushable_task
<1>2. s = r.pushable
  BY RemoveSorted
<1> HIDE DEF s
<1>3. SortedList(a) /\ ToSet(a) = ToSet(r.pushable) \cup {p}
  BY <1>2, AddSorted
<1> HIDE DEF a
<1>4. FirstPrio(a) = v
  BY <1>3, FirstAdd
<1>5. v \in Prios /\ a \in Seq(Tasks)
  BY <1>3, <1>4, FirstLeast DEF SortedList
<1> HIDE DEF v, t
<1>6. /\ t \in RunQueue /\ t.pushable = a /\ t.next = v
      /\ t.queue = r.queue /\ t.highest = r.highest /\ t.total = r.total
      /\ t.migratory = r.migratory /\ t.overloaded = r.overloaded
      /\ t.curr = r.curr /\ t.need_resched = r.need_resched
  BY <1>1, <1>5 DEF RunQueue
<1> QED BY <1>3, <1>4, <1>6 DEF t

\* A task taken off the pushable ones.
LEMMA PushTaken ==
  ASSUME NEW r \in RunQueue, NEW p, SortedList(r.pushable)
  PROVE  LET t == dequeue_pushable_task(r, p)
         IN  /\ t \in RunQueue /\ SortedList(t.pushable)
             /\ ToSet(t.pushable) = ToSet(r.pushable) \ {p}
             /\ t.next = FirstPrio(t.pushable)
             /\ t.queue = r.queue /\ t.highest = r.highest /\ t.total = r.total
             /\ t.migratory = r.migratory /\ t.overloaded = r.overloaded
             /\ t.curr = r.curr /\ t.need_resched = r.need_resched
<1> DEFINE t == dequeue_pushable_task(r, p)
           s == RemoveFirst(r.pushable, p)
           v == FirstPrio(s)
<1>1. t = [r EXCEPT !.pushable = s, !.next = v]
  BY DEF dequeue_pushable_task
<1>2. SortedList(s) /\ ToSet(s) = ToSet(r.pushable) \ {p}
  BY RemoveSorted
<1> HIDE DEF s
<1>3. v \in Prios /\ s \in Seq(Tasks)
  BY <1>2, FirstLeast DEF SortedList
<1>4. v = FirstPrio(s)
  OBVIOUS
<1> HIDE DEF v, t
<1>5. /\ t \in RunQueue /\ t.pushable = s /\ t.next = v
      /\ t.queue = r.queue /\ t.highest = r.highest /\ t.total = r.total
      /\ t.migratory = r.migratory /\ t.overloaded = r.overloaded
      /\ t.curr = r.curr /\ t.need_resched = r.need_resched
  BY <1>1, <1>3 DEF RunQueue
<1> QED BY <1>2, <1>4, <1>5 DEF t

\* What is queued is a finite set of tasks.
LEMMA QueuedFinite ==
  ASSUME NEW s, SortedList(s), NEW M
  PROVE  ToSet(s) \subseteq Tasks /\ IsFiniteSet(ToSet(s) \cap M) /\ Cardinality(ToSet(s) \cap M) \in Nat
<1>1. ToSet(s) \subseteq Tasks
  BY FirstLeast
<1>2. ToSet(s) \cap M \in SUBSET Tasks /\ IsFiniteSet(Tasks)
  BY <1>1, RtBalanceConstants
<1> QED BY <1>1, <1>2, FS_Subset, FS_CardinalityType

\* T is S with Q queued on c, and all that is said of c is true.
QueueIs(S, T, c, Q) ==
  /\ Near(S, T, c) /\ CpuOK(T, c)
  /\ T.rd.rto_count = Cardinality(T.rd.rto_mask)
  /\ ToSet(T.rq[c].queue) = Q
  /\ T.rq[c].curr = S.rq[c].curr

\* What is true of a CPU stays true when its queue, what the domain says of it and
\* the affinity of its tasks stay.
LEMMA CpuKept ==
  ASSUME NEW S, NEW T, NEW d, CpuOK(S, d), T.rq[d] = S.rq[d],
         T.rd.cpupri[d] = S.rd.cpupri[d], d \in T.rd.rto_mask <=> d \in S.rd.rto_mask,
         \A p \in ToSet(S.rq[d].queue) : p \in Mobile(T.task) <=> p \in Mobile(S.task)
  PROVE  CpuOK(T, d)
<1>1. PushOK(T.rq[d], Mobile(T.task))
  <2>1. {p \in ToSet(S.rq[d].queue) : S.rq[d].curr # p /\ p \in Mobile(S.task)}
          = {p \in ToSet(S.rq[d].queue) : S.rq[d].curr # p /\ p \in Mobile(T.task)}
    OBVIOUS
  <2> QED BY <2>1 DEF CpuOK, PushOK
<1>2. CountsOK(T.rq[d], Mobile(T.task))
  <2>1. ToSet(S.rq[d].queue) \cap Mobile(S.task) = ToSet(S.rq[d].queue) \cap Mobile(T.task)
    OBVIOUS
  <2> QED BY <2>1 DEF CpuOK, CountsOK
<1> QED BY <1>1, <1>2 DEF CpuOK, KnownOK

\* enqueue_task_rt of a task that is on no queue.
LEMMA Enqueued ==
  ASSUME NEW S \in System, NEW c \in CPUs, NEW p \in Tasks, CpuOK(S, c),
         S.rd.rto_count = Cardinality(S.rd.rto_mask),
         p \notin ToSet(S.rq[c].queue), S.rq[c].curr # p
  PROVE  QueueIs(S, enqueue_task_rt(S, c, p), c, ToSet(S.rq[c].queue) \cup {p})
<1> DEFINE r == S.rq[c]
           M == Mobile(S.task)
           s == AddTail(r.queue, p)
           E == Requeue(S, c, p, s, 1)
           e == E.rq[c]
           T == enqueue_task_rt(S, c, p)
<1>1. SortedList(r.queue) /\ PushOK(r, M) /\ CountsOK(r, M) /\ KnownOK(S, c)
  BY DEF CpuOK
<1>2. SortedList(s) /\ ToSet(s) = ToSet(r.queue) \cup {p} /\ Len(s) = Len(r.queue) + 1
  BY <1>1, AddSorted
<1>3. T = IF r.curr # p /\ Migratory(S, p) THEN On(E, c, enqueue_pushable_task(e, p)) ELSE E
  BY DEF enqueue_task_rt
<1> HIDE DEF s, T
<1>4. /\ Near(S, E, c) /\ SameTask(r, e) /\ KnownOK(E, c)
      /\ e.queue = s /\ e.total = r.total + 1
      /\ e.migratory = (IF p \in M THEN r.migratory + 1 ELSE r.migratory)
      /\ e.overloaded = Overloaded(e)
      /\ E.rd.rto_count = Cardinality(E.rd.rto_mask)
  <2>1. 1 \in Int
    OBVIOUS
  <2> QED BY <1>1, <1>2, <2>1, RequeueIs
<1> HIDE DEF E
<1>5. E \in System /\ E.task = S.task /\ e \in RunQueue
  BY <1>4, Parts DEF Near
<1>6. CountsOK(e, M)
  <2>1. e.total = Len(e.queue)
    BY <1>1, <1>2, <1>4 DEF CountsOK
  <2>2. IsFiniteSet(ToSet(r.queue) \cap M)
    BY <1>1, QueuedFinite
  <2>3. CASE p \in M
    <3>1. ToSet(s) \cap M = (ToSet(r.queue) \cap M) \cup {p} /\ p \notin ToSet(r.queue) \cap M
      BY <1>2, <2>3
    <3>2. Cardinality(ToSet(s) \cap M) = Cardinality(ToSet(r.queue) \cap M) + 1
      BY <2>2, <3>1, FS_AddElement
    <3> QED BY <1>1, <1>4, <2>1, <2>3, <3>2 DEF CountsOK
  <2>4. CASE p \notin M
    <3>1. ToSet(s) \cap M = ToSet(r.queue) \cap M
      BY <1>2, <2>4
    <3> QED BY <1>1, <1>4, <2>1, <2>4, <3>1 DEF CountsOK
  <2> QED BY <2>3, <2>4
<1>7. Migratory(S, p) <=> p \in M
  BY DEF Migratory, Mobile
<1>8. CASE p \notin M
  <2>1. T = E
    BY <1>3, <1>7, <1>8
  <2>2. {x \in ToSet(r.queue) : r.curr # x /\ x \in M} = {x \in ToSet(s) : r.curr # x /\ x \in M}
    BY <1>2, <1>8
  <2>3. PushOK(e, M)
    BY <1>1, <1>4, <2>2 DEF PushOK, SameTask
  <2>4. CpuOK(E, c)
    BY <1>2, <1>4, <1>5, <1>6, <2>3 DEF CpuOK
  <2> QED BY <1>2, <1>4, <2>1, <2>4 DEF QueueIs, SameTask, T
<1>9. CASE p \in M
  <2> DEFINE t == enqueue_pushable_task(e, p)
  <2>1. SortedList(e.pushable) /\ e.next = FirstPrio(e.pushable)
        /\ ToSet(e.pushable) = {x \in ToSet(r.queue) : r.curr # x /\ x \in M}
    BY <1>1, <1>4 DEF PushOK, SameTask
  <2>2. p \notin ToSet(e.pushable)
    BY <2>1
  <2>3. /\ t \in RunQueue /\ SortedList(t.pushable)
        /\ ToSet(t.pushable) = ToSet(e.pushable) \cup {p}
        /\ t.next = FirstPrio(t.pushable)
        /\ t.queue = e.queue /\ t.highest = e.highest /\ t.total = e.total
        /\ t.migratory = e.migratory /\ t.overloaded = e.overloaded
        /\ t.curr = e.curr /\ t.need_resched = e.need_resched
    BY <1>5, <2>1, <2>2, PushAdded
  <2>4. T = On(E, c, t)
    BY <1>3, <1>7, <1>9
  <2> HIDE DEF t
  <2>5. T \in System /\ T.rd = E.rd /\ T.task = S.task /\ T.rq[c] = t /\ Near(E, T, c)
    BY <1>5, <2>3, <2>4, OnIs, NearOn
  <2>6. ToSet(t.pushable) = {x \in ToSet(t.queue) : t.curr # x /\ x \in M}
    BY <1>2, <1>4, <1>9, <2>1, <2>3 DEF SameTask
  <2>7. PushOK(t, M) /\ CountsOK(t, M) /\ t.overloaded = Overloaded(t)
    BY <1>4, <1>6, <2>3, <2>6 DEF PushOK, CountsOK, Overloaded
  <2>8. KnownOK(T, c)
    BY <1>4, <2>3, <2>5 DEF KnownOK
  <2>9. CpuOK(T, c)
    BY <1>2, <1>4, <2>3, <2>5, <2>7, <2>8 DEF CpuOK
  <2>10. Near(S, T, c)
    BY <1>4, <2>5, NearTwice
  <2> QED BY <1>2, <1>4, <2>3, <2>5, <2>9, <2>10 DEF QueueIs, SameTask, T
<1> QED BY <1>8, <1>9

\* dequeue_task_rt of a task that is on the queue.
LEMMA Dequeued ==
  ASSUME NEW S \in System, NEW c \in CPUs, CpuOK(S, c),
         S.rd.rto_count = Cardinality(S.rd.rto_mask),
         NEW p \in ToSet(S.rq[c].queue)
  PROVE  QueueIs(S, dequeue_task_rt(S, c, p), c, ToSet(S.rq[c].queue) \ {p})
<1> DEFINE r == S.rq[c]
           M == Mobile(S.task)
           s == RemoveFirst(r.queue, p)
           n == -1
           E == Requeue(S, c, p, s, n)
           e == E.rq[c]
           t == dequeue_pushable_task(e, p)
           T == dequeue_task_rt(S, c, p)
<1>1. /\ SortedList(r.queue) /\ PushOK(r, M) /\ CountsOK(r, M) /\ KnownOK(S, c)
      /\ p \in Tasks /\ n \in Int
  BY QueuedFinite DEF CpuOK
<1>2. SortedList(s) /\ ToSet(s) = ToSet(r.queue) \ {p} /\ Len(s) = Len(r.queue) - 1
  BY <1>1, RemoveSorted
<1>3. T = On(E, c, t)
  BY DEF dequeue_task_rt
<1>4. n = -1
  OBVIOUS
<1> HIDE DEF s, n, T
<1>5. /\ Near(S, E, c) /\ SameTask(r, e) /\ KnownOK(E, c)
      /\ e.queue = s /\ e.total = r.total + n
      /\ e.migratory = (IF p \in M THEN r.migratory + n ELSE r.migratory)
      /\ e.overloaded = Overloaded(e)
      /\ E.rd.rto_count = Cardinality(E.rd.rto_mask)
  BY <1>1, <1>2, RequeueIs
<1> HIDE DEF E
<1>6. E \in System /\ E.task = S.task /\ e \in RunQueue
  BY <1>5, Parts DEF Near
<1>7. CountsOK(e, M)
  <2>1. e.total = Len(e.queue)
    <3>1. Len(r.queue) \in Nat
      BY <1>1 DEF SortedList
    <3> QED BY <1>1, <1>2, <1>4, <1>5, <3>1 DEF CountsOK
  <2>2. IsFiniteSet(ToSet(r.queue) \cap M) /\ Cardinality(ToSet(r.queue) \cap M) \in Nat
    BY <1>1, QueuedFinite
  <2>3. CASE p \in M
    <3>1. ToSet(s) \cap M = (ToSet(r.queue) \cap M) \ {p} /\ p \in ToSet(r.queue) \cap M
      BY <1>2, <2>3
    <3> DEFINE X == ToSet(r.queue) \cap M
    <3>2. Cardinality(ToSet(s) \cap M) = Cardinality(ToSet(r.queue) \cap M) - 1
      <4>1. IsFiniteSet(X) /\ p \in X /\ ToSet(s) \cap M = X \ {p}
        BY <2>2, <3>1
      <4> HIDE DEF X
      <4>2. Cardinality(X \ {p}) = Cardinality(X) - 1
        BY <4>1, FS_RemoveElement
      <4> QED BY <4>1, <4>2 DEF X
    <3>3. e.migratory = r.migratory + n /\ r.migratory = Cardinality(ToSet(r.queue) \cap M)
      BY <1>1, <1>5, <2>3 DEF CountsOK
    <3>4. e.migratory = Cardinality(ToSet(s) \cap M)
      BY <3>2, <3>3, <1>4, <2>2
    <3> QED BY <1>5, <2>1, <3>4 DEF CountsOK
  <2>4. CASE p \notin M
    <3>1. ToSet(s) \cap M = ToSet(r.queue) \cap M
      BY <1>2, <2>4
    <3> QED BY <1>1, <1>5, <2>1, <2>4, <3>1 DEF CountsOK
  <2> QED BY <2>3, <2>4
<1>8. SortedList(e.pushable) /\ ToSet(e.pushable) = {x \in ToSet(r.queue) : r.curr # x /\ x \in M}
  BY <1>1, <1>5 DEF PushOK, SameTask
<1>9. /\ t \in RunQueue /\ SortedList(t.pushable)
      /\ ToSet(t.pushable) = ToSet(e.pushable) \ {p}
      /\ t.next = FirstPrio(t.pushable)
      /\ t.queue = e.queue /\ t.highest = e.highest /\ t.total = e.total
      /\ t.migratory = e.migratory /\ t.overloaded = e.overloaded
      /\ t.curr = e.curr /\ t.need_resched = e.need_resched
  BY <1>6, <1>8, PushTaken
<1> HIDE DEF t
<1>10. T \in System /\ T.rd = E.rd /\ T.task = S.task /\ T.rq[c] = t /\ Near(E, T, c)
  BY <1>3, <1>6, <1>9, OnIs, NearOn
<1>11. ToSet(t.pushable) = {x \in ToSet(t.queue) : t.curr # x /\ x \in M}
  BY <1>2, <1>5, <1>8, <1>9 DEF SameTask
<1>12. PushOK(t, M) /\ CountsOK(t, M) /\ t.overloaded = Overloaded(t)
  BY <1>5, <1>7, <1>9, <1>11 DEF PushOK, CountsOK, Overloaded
<1>13. KnownOK(T, c)
  BY <1>5, <1>9, <1>10 DEF KnownOK
<1>14. CpuOK(T, c)
  BY <1>2, <1>5, <1>9, <1>10, <1>12, <1>13 DEF CpuOK
<1>15. Near(S, T, c)
  BY <1>5, <1>10, NearTwice
<1> QED BY <1>2, <1>5, <1>9, <1>10, <1>14, <1>15 DEF QueueIs, SameTask, T

-----------------------------------------------------------------------------
(* The whole state. *)

\* One CPU changed: the state is right if that CPU is, and its tasks are at home.
LEMMA OneCpu ==
  ASSUME NEW S, NEW T, NEW c \in CPUs, SystemOK(S), Near(S, T, c), CpuOK(T, c),
         T.rd.rto_count = Cardinality(T.rd.rto_mask),
         \A p \in ToSet(T.rq[c].queue) : S.task[p].cpu = c /\ c \in S.task[p].cpus_allowed,
         T.rq[c].curr # other => S.task[T.rq[c].curr].cpu = c
  PROVE  SystemOK(T)
<1>1. T \in System /\ T.task = S.task
  BY DEF Near
<1>2. ASSUME NEW d \in CPUs PROVE CpuOK(T, d)
  <2>1. CASE d = c
    BY <2>1
  <2>2. CASE d # c
    <3>1. /\ CpuOK(S, d) /\ T.rq[d] = S.rq[d] /\ T.rd.cpupri[d] = S.rd.cpupri[d]
          /\ d \in T.rd.rto_mask <=> d \in S.rd.rto_mask
      BY <2>2 DEF SystemOK, Near
    <3> QED BY <1>1, <3>1, CpuKept
  <2> QED BY <2>1, <2>2
<1>3. HomeOK(T)
  <2> SUFFICES ASSUME NEW d \in CPUs
               PROVE  /\ \A p \in ToSet(T.rq[d].queue) : T.task[p].cpu = d /\ d \in T.task[p].cpus_allowed
                      /\ T.rq[d].curr # other => T.task[T.rq[d].curr].cpu = d
    BY DEF HomeOK
  <2>1. CASE d = c
    BY <1>1, <2>1
  <2>2. CASE d # c
    BY <1>1, <2>2 DEF Near, SystemOK, HomeOK
  <2> QED BY <2>1, <2>2
<1> QED BY <1>1, <1>2, <1>3 DEF SystemOK

\* The same tasks are queued and run everywhere.
SamePlaces(S, T) ==
  /\ T.task = S.task
  /\ \A d \in CPUs : ToSet(T.rq[d].queue) = ToSet(S.rq[d].queue) /\ T.rq[d].curr = S.rq[d].curr

\* Another order of the queue of c, whoever is to be rescheduled.
LEMMA Reordered ==
  ASSUME NEW S, SystemOK(S), NEW c \in CPUs, NEW r \in RunQueue,
         SortedList(r.queue), ToSet(r.queue) = ToSet(S.rq[c].queue),
         Len(r.queue) = Len(S.rq[c].queue),
         r.pushable = S.rq[c].pushable, r.next = S.rq[c].next, r.highest = S.rq[c].highest,
         r.total = S.rq[c].total, r.migratory = S.rq[c].migratory,
         r.overloaded = S.rq[c].overloaded, r.curr = S.rq[c].curr
  PROVE  SystemOK(On(S, c, r)) /\ SamePlaces(S, On(S, c, r))
<1> DEFINE T == On(S, c, r)
           s == S.rq[c]
           M == Mobile(S.task)
<1>0. S \in System /\ CpuOK(S, c) /\ S.rd.rto_count = Cardinality(S.rd.rto_mask) /\ HomeOK(S)
  BY DEF SystemOK
<1>1. /\ T \in System /\ T.rd = S.rd /\ T.task = S.task /\ T.rq[c] = r /\ Near(S, T, c)
      /\ \A d \in CPUs \ {c} : T.rq[d] = S.rq[d]
  BY <1>0, OnIs, NearOn
<1> HIDE DEF T
<1>2. FirstPrio(r.queue) = FirstPrio(s.queue)
  BY <1>0, FirstSame DEF CpuOK
<1>3. PushOK(r, M) /\ CountsOK(r, M) /\ r.overloaded = Overloaded(r)
  BY <1>0 DEF CpuOK, PushOK, CountsOK, Overloaded
<1>4. KnownOK(T, c)
  BY <1>0, <1>1, <1>2 DEF CpuOK, KnownOK
<1>5. CpuOK(T, c)
  BY <1>1, <1>3, <1>4 DEF CpuOK
<1>6. /\ \A p \in ToSet(T.rq[c].queue) : S.task[p].cpu = c /\ c \in S.task[p].cpus_allowed
      /\ T.rq[c].curr # other => S.task[T.rq[c].curr].cpu = c
      /\ T.rd.rto_count = Cardinality(T.rd.rto_mask)
  BY <1>0, <1>1 DEF HomeOK
<1>7. SystemOK(T)
  BY <1>1, <1>5, <1>6, OneCpu
<1>8. SamePlaces(S, T)
  BY <1>1 DEF SamePlaces
<1> QED BY <1>7, <1>8 DEF T

\* resched_task
LEMMA Resched ==
  ASSUME NEW S, SystemOK(S), NEW c \in CPUs
  PROVE  SystemOK(resched_task(S, c)) /\ SamePlaces(S, resched_task(S, c))
<1> DEFINE r == [S.rq[c] EXCEPT !.need_resched = TRUE]
<1>1. S \in System /\ S.rq[c] \in RunQueue /\ SortedList(S.rq[c].queue)
  BY Parts DEF SystemOK, CpuOK
<1>2. /\ r \in RunQueue /\ r.queue = S.rq[c].queue
      /\ r.pushable = S.rq[c].pushable /\ r.next = S.rq[c].next /\ r.highest = S.rq[c].highest
      /\ r.total = S.rq[c].total /\ r.migratory = S.rq[c].migratory
      /\ r.overloaded = S.rq[c].overloaded /\ r.curr = S.rq[c].curr
  BY <1>1 DEF RunQueue
<1>3. resched_task(S, c) = On(S, c, r)
  BY DEF resched_task
<1> HIDE DEF r
<1> QED BY <1>1, <1>2, <1>3, Reordered

\* Places that stay twice stay.
LEMMA SamePlacesTwice ==
  ASSUME NEW S, NEW T, NEW U, SamePlaces(S, T), SamePlaces(T, U)
  PROVE  SamePlaces(S, U)
BY DEF SamePlaces

\* check_preempt_curr may move the woken task ahead of its equals and may ask for a
\* reschedule.
LEMMA Preempts ==
  ASSUME NEW S, SystemOK(S), NEW c \in CPUs, NEW p \in ToSet(S.rq[c].queue)
  PROVE  SystemOK(check_preempt_curr(S, c, p)) /\ SamePlaces(S, check_preempt_curr(S, c, p))
<1>0. S \in System /\ S.rq[c] \in RunQueue /\ SortedList(S.rq[c].queue)
  BY Parts DEF SystemOK, CpuOK
<1>1. SamePlaces(S, S)
  BY DEF SamePlaces
<1>2. SystemOK(resched_task(S, c)) /\ SamePlaces(S, resched_task(S, c))
  BY Resched
<1>3. SystemOK(check_preempt_equal_prio(S, c, p)) /\ SamePlaces(S, check_preempt_equal_prio(S, c, p))
  <2> DEFINE s == RemoveFirst(S.rq[c].queue, p)
             q == AddHead(s, p)
             r == [S.rq[c] EXCEPT !.queue = q]
             T == On(S, c, r)
  <2>1. \/ check_preempt_equal_prio(S, c, p) = S
        \/ check_preempt_equal_prio(S, c, p) = resched_task(T, c)
    BY DEF check_preempt_equal_prio
  <2>2. p \in Tasks /\ Len(S.rq[c].queue) \in Nat
    BY <1>0, FirstLeast DEF SortedList
  <2>3. /\ SortedList(s) /\ ToSet(s) = ToSet(S.rq[c].queue) \ {p}
        /\ Len(s) = Len(S.rq[c].queue) - 1
    BY <1>0, RemoveSorted
  <2> HIDE DEF s
  <2>4. SortedList(q) /\ ToSet(q) = ToSet(s) \cup {p} /\ Len(q) = Len(s) + 1
    BY <2>2, <2>3, AddSorted
  <2> HIDE DEF q
  <2>5. ToSet(q) = ToSet(S.rq[c].queue) /\ Len(q) = Len(S.rq[c].queue) /\ q \in Seq(Tasks)
    BY <2>2, <2>3, <2>4 DEF SortedList
  <2>6. /\ r \in RunQueue /\ r.queue = q
        /\ r.pushable = S.rq[c].pushable /\ r.next = S.rq[c].next /\ r.highest = S.rq[c].highest
        /\ r.total = S.rq[c].total /\ r.migratory = S.rq[c].migratory
        /\ r.overloaded = S.rq[c].overloaded /\ r.curr = S.rq[c].curr
    BY <1>0, <2>5 DEF RunQueue
  <2> HIDE DEF r
  <2>7. SystemOK(T) /\ SamePlaces(S, T)
    BY <2>4, <2>5, <2>6, Reordered
  <2> HIDE DEF T
  <2>8. SystemOK(resched_task(T, c)) /\ SamePlaces(T, resched_task(T, c))
    BY <2>7, Resched
  <2>9. SamePlaces(S, resched_task(T, c))
    BY <2>7, <2>8, SamePlacesTwice
  <2> QED BY <1>1, <2>1, <2>8, <2>9
<1> QED BY <1>1, <1>2, <1>3 DEF check_preempt_curr

\* A task that sleeps no more is queued where it belongs.
LEMMA Woken ==
  ASSUME NEW S, SystemOK(S), NEW c \in CPUs, NEW p \in Tasks,
         S.task[p].cpu = c, c \in S.task[p].cpus_allowed,
         p \notin ToSet(S.rq[c].queue), S.rq[c].curr # p
  PROVE  LET T == enqueue_task_rt(S, c, p)
         IN  /\ SystemOK(T) /\ Near(S, T, c) /\ T.rq[c].curr = S.rq[c].curr
             /\ ToSet(T.rq[c].queue) = ToSet(S.rq[c].queue) \cup {p}
<1> DEFINE T == enqueue_task_rt(S, c, p)
<1>0. S \in System /\ CpuOK(S, c) /\ S.rd.rto_count = Cardinality(S.rd.rto_mask) /\ HomeOK(S)
  BY DEF SystemOK
<1>1. QueueIs(S, T, c, ToSet(S.rq[c].queue) \cup {p})
  BY <1>0, Enqueued
<1> HIDE DEF T
<1>2. /\ Near(S, T, c) /\ CpuOK(T, c) /\ T.rd.rto_count = Cardinality(T.rd.rto_mask)
      /\ ToSet(T.rq[c].queue) = ToSet(S.rq[c].queue) \cup {p} /\ T.rq[c].curr = S.rq[c].curr
  BY <1>1 DEF QueueIs
<1>3. /\ \A x \in ToSet(T.rq[c].queue) : S.task[x].cpu = c /\ c \in S.task[x].cpus_allowed
      /\ T.rq[c].curr # other => S.task[T.rq[c].curr].cpu = c
  BY <1>0, <1>2 DEF HomeOK
<1>4. SystemOK(T)
  BY <1>2, <1>3, OneCpu
<1> QED BY <1>2, <1>4 DEF T

\* The running task is taken off the queue when it sleeps.
LEMMA Slept ==
  ASSUME NEW S, SystemOK(S), NEW c \in CPUs, NEW p \in ToSet(S.rq[c].queue)
  PROVE  LET T == dequeue_task_rt(S, c, p)
         IN  /\ SystemOK(T) /\ Near(S, T, c) /\ T.rq[c].curr = S.rq[c].curr
             /\ ToSet(T.rq[c].queue) = ToSet(S.rq[c].queue) \ {p}
<1> DEFINE T == dequeue_task_rt(S, c, p)
<1>0. S \in System /\ CpuOK(S, c) /\ S.rd.rto_count = Cardinality(S.rd.rto_mask) /\ HomeOK(S)
  BY DEF SystemOK
<1>1. QueueIs(S, T, c, ToSet(S.rq[c].queue) \ {p})
  BY <1>0, Dequeued
<1> HIDE DEF T
<1>2. /\ Near(S, T, c) /\ CpuOK(T, c) /\ T.rd.rto_count = Cardinality(T.rd.rto_mask)
      /\ ToSet(T.rq[c].queue) = ToSet(S.rq[c].queue) \ {p} /\ T.rq[c].curr = S.rq[c].curr
  BY <1>1 DEF QueueIs
<1>3. /\ \A x \in ToSet(T.rq[c].queue) : S.task[x].cpu = c /\ c \in S.task[x].cpus_allowed
      /\ T.rq[c].curr # other => S.task[T.rq[c].curr].cpu = c
  BY <1>0, <1>2 DEF HomeOK
<1>4. SystemOK(T)
  BY <1>2, <1>3, OneCpu
<1> QED BY <1>2, <1>4 DEF T

\* What is said of a task that is queued nowhere may change.
LEMMA Unqueued ==
  ASSUME NEW S, SystemOK(S), NEW T \in System, T.rq = S.rq, T.rd = S.rd, NEW p \in Tasks,
         \A x \in Tasks \ {p} : T.task[x] = S.task[x],
         \A c \in CPUs : p \notin ToSet(S.rq[c].queue) /\ (S.rq[c].curr = p => T.task[p].cpu = c)
  PROVE  SystemOK(T)
<1>1. ASSUME NEW d \in CPUs PROVE CpuOK(T, d)
  <2>1. CpuOK(S, d) /\ ToSet(S.rq[d].queue) \subseteq Tasks \ {p}
    BY FirstLeast DEF SystemOK, CpuOK
  <2>2. \A x \in ToSet(S.rq[d].queue) : x \in Mobile(T.task) <=> x \in Mobile(S.task)
    BY <2>1 DEF Mobile
  <2> QED BY <2>1, <2>2, CpuKept
<1>2. HomeOK(T)
  <2> SUFFICES ASSUME NEW d \in CPUs
               PROVE  /\ \A x \in ToSet(T.rq[d].queue) : T.task[x].cpu = d /\ d \in T.task[x].cpus_allowed
                      /\ T.rq[d].curr # other => T.task[T.rq[d].curr].cpu = d
    BY DEF HomeOK
  <2>1. ToSet(S.rq[d].queue) \subseteq Tasks \ {p} /\ HomeOK(S)
    BY FirstLeast DEF SystemOK, CpuOK
  <2>2. S.rq[d].curr \in Tasks \cup {other}
    <3>1. S.rq[d] \in RunQueue
      BY Parts DEF SystemOK
    <3> QED BY <3>1 DEF RunQueue
  <2> QED BY <2>1, <2>2 DEF HomeOK
<1> QED BY <1>1, <1>2 DEF SystemOK

\* A task is queued on one CPU, and runs only there.
LEMMA OnePlace ==
  ASSUME NEW S, HomeOK(S), NEW c \in CPUs, NEW p, S.task[p].cpu = c, p # other
  PROVE  \A d \in CPUs \ {c} : p \notin ToSet(S.rq[d].queue) /\ S.rq[d].curr # p
BY DEF HomeOK

\* Giving a task that is queued nowhere and runs nowhere another CPU.
LEMMA Moved ==
  ASSUME NEW S, SystemOK(S), NEW p \in Tasks, NEW dst \in CPUs,
         \A c \in CPUs : p \notin ToSet(S.rq[c].queue) /\ S.rq[c].curr # p
  PROVE  LET T == [S EXCEPT !.task[p].cpu = dst]
         IN  /\ SystemOK(T) /\ T.rq = S.rq /\ T.rd = S.rd
             /\ T.task[p].cpu = dst /\ T.task[p].cpus_allowed = S.task[p].cpus_allowed
             /\ \A x \in Tasks \ {p} : T.task[x] = S.task[x]
<1> DEFINE T == [S EXCEPT !.task[p].cpu = dst]
<1>1. S \in System /\ S.task[p] \in TaskRecord
  BY Parts DEF SystemOK
<1>2. /\ T \in System /\ T.rq = S.rq /\ T.rd = S.rd
      /\ T.task[p].cpu = dst /\ T.task[p].cpus_allowed = S.task[p].cpus_allowed
      /\ \A x \in Tasks \ {p} : T.task[x] = S.task[x]
  BY <1>1 DEF System, TaskRecord
<1> HIDE DEF T
<1>3. SystemOK(T)
  BY <1>2, Unqueued
<1> QED BY <1>2, <1>3 DEF T

\* Only p changes its place or its affinity, and no CPU what it runs.
OneMoves(S, T, p) ==
  /\ \A w \in Tasks \ {p} : T.task[w] = S.task[w]
  /\ \A d \in CPUs : /\ T.rq[d].curr = S.rq[d].curr
                     /\ ToSet(T.rq[d].queue) \ {p} = ToSet(S.rq[d].queue) \ {p}

\* Migrate takes a waiting task from one queue to another that it may use.
LEMMA Migrated ==
  ASSUME NEW S, SystemOK(S), NEW src \in CPUs, NEW dst \in CPUs, dst # src,
         NEW p \in ToSet(S.rq[src].queue), S.rq[src].curr # p, dst \in S.task[p].cpus_allowed
  PROVE  SystemOK(Migrate(S, p, src, dst)) /\ OneMoves(S, Migrate(S, p, src, dst), p)
<1> DEFINE D == dequeue_task_rt(S, src, p)
           E == [D EXCEPT !.task[p].cpu = dst]
           T == enqueue_task_rt(E, dst, p)
<1>0. /\ SortedList(S.rq[src].queue) /\ p \in Tasks /\ p # other /\ HomeOK(S)
      /\ S.task[p].cpu = src
  BY FirstLeast, RtBalanceConstants DEF SystemOK, CpuOK, HomeOK
<1>1. Migrate(S, p, src, dst) = T
  BY DEF Migrate
<1>2. /\ SystemOK(D) /\ Near(S, D, src) /\ D.rq[src].curr = S.rq[src].curr
      /\ ToSet(D.rq[src].queue) = ToSet(S.rq[src].queue) \ {p}
  BY Slept
<1> HIDE DEF D, T
<1>3. D.task = S.task /\ \A d \in CPUs \ {src} : D.rq[d] = S.rq[d]
  BY <1>2 DEF Near
<1>4. \A c \in CPUs : p \notin ToSet(D.rq[c].queue) /\ D.rq[c].curr # p
  <2>1. \A d \in CPUs \ {src} : p \notin ToSet(S.rq[d].queue) /\ S.rq[d].curr # p
    BY <1>0, OnePlace
  <2> QED BY <1>2, <1>3, <2>1
<1>5. /\ SystemOK(E) /\ E.rq = D.rq /\ E.rd = D.rd
      /\ E.task[p].cpu = dst /\ E.task[p].cpus_allowed = D.task[p].cpus_allowed
      /\ \A x \in Tasks \ {p} : E.task[x] = D.task[x]
  BY <1>0, <1>2, <1>4, Moved
<1> HIDE DEF E
<1>6. dst \in E.task[p].cpus_allowed /\ p \notin ToSet(E.rq[dst].queue) /\ E.rq[dst].curr # p
  BY <1>3, <1>4, <1>5
<1>7. /\ SystemOK(T) /\ Near(E, T, dst) /\ T.rq[dst].curr = E.rq[dst].curr
      /\ ToSet(T.rq[dst].queue) = ToSet(E.rq[dst].queue) \cup {p}
  <2>1. /\ SystemOK(E) /\ p \in Tasks /\ E.task[p].cpu = dst /\ dst \in E.task[p].cpus_allowed
        /\ p \notin ToSet(E.rq[dst].queue) /\ E.rq[dst].curr # p
    BY <1>0, <1>5, <1>6
  <2>2. T = enqueue_task_rt(E, dst, p)
    BY DEF T
  <2>3. SystemOK(T)
    BY <2>1, <2>2, Woken
  <2>4. Near(E, T, dst)
    BY <2>1, <2>2, Woken
  <2>5. T.rq[dst].curr = E.rq[dst].curr
    BY <2>1, <2>2, Woken
  <2>6. ToSet(T.rq[dst].queue) = ToSet(E.rq[dst].queue) \cup {p}
    <3>1. QueueIs(E, T, dst, ToSet(E.rq[dst].queue) \cup {p})
      BY <2>1, <2>2, Enqueued DEF SystemOK
    <3> QED BY <3>1 DEF QueueIs
  <2> QED BY <2>3, <2>4, <2>5, <2>6
<1>8. T.task = E.task /\ \A d \in CPUs \ {dst} : T.rq[d] = E.rq[d]
  BY <1>7 DEF Near
<1>9. \A d \in CPUs : T.rq[d].curr = S.rq[d].curr
  BY <1>2, <1>3, <1>5, <1>7, <1>8
<1>10. /\ ToSet(T.rq[src].queue) = ToSet(S.rq[src].queue) \ {p}
       /\ ToSet(T.rq[dst].queue) = ToSet(S.rq[dst].queue) \cup {p}
       /\ \A d \in CPUs \ {src, dst} : T.rq[d] = S.rq[d]
  BY <1>2, <1>3, <1>5, <1>7, <1>8
<1>11. \A x \in Tasks \ {p} : T.task[x] = S.task[x]
  BY <1>3, <1>5, <1>8
<1>12. \A d \in CPUs : ToSet(T.rq[d].queue) \ {p} = ToSet(S.rq[d].queue) \ {p}
  BY <1>10
<1> QED BY <1>1, <1>7, <1>9, <1>11, <1>12 DEF OneMoves

\* pick_next_task makes the first task of the queue the running one.
LEMMA Picked ==
  ASSUME NEW S, SystemOK(S), NEW c \in CPUs
  PROVE  LET N == pick_next_task(S, c)
         IN  /\ SystemOK(N) /\ Near(S, N, c)
             /\ ToSet(N.rq[c].queue) = ToSet(S.rq[c].queue)
             /\ N.rq[c].curr # other => N.rq[c].curr \in ToSet(N.rq[c].queue)
<1> DEFINE s == S.rq[c]
           M == Mobile(S.task)
           P == put_prev_task_rt(S, c)
           q == P.rq[c]
           next == IF q.queue = <<>> THEN other ELSE Head(q.queue)
           r == IF next = other THEN q ELSE dequeue_pushable_task(q, next)
           n == [r EXCEPT !.curr = next, !.need_resched = FALSE]
           N == On(P, c, n)
<1>0. /\ S \in System /\ CpuOK(S, c) /\ S.rd.rto_count = Cardinality(S.rd.rto_mask) /\ HomeOK(S)
      /\ s \in RunQueue /\ SortedList(s.queue) /\ PushOK(s, M)
  BY Parts DEF SystemOK, CpuOK
<1>1. pick_next_task(S, c) = N
  BY DEF pick_next_task
<1>2. /\ P \in System /\ P.rd = S.rd /\ P.task = S.task /\ Near(S, P, c)
      /\ q \in RunQueue /\ SortedList(q.pushable) /\ q.next = FirstPrio(q.pushable)
      /\ ToSet(q.pushable) = ToSet(s.queue) \cap M
      /\ q.queue = s.queue /\ q.highest = s.highest /\ q.total = s.total
      /\ q.migratory = s.migratory /\ q.overloaded = s.overloaded
  <2>1. s.curr \in Tasks \cup {other}
    BY <1>0 DEF RunQueue
  <2>2. Contains(s.queue, s.curr) <=> s.curr \in ToSet(s.queue)
    <3>1. DOMAIN s.queue = 1 .. Len(s.queue)
      BY <1>0 DEF SortedList
    <3> QED BY <3>1 DEF Contains, ToSet
  <2>3. ASSUME NEW x \in Tasks PROVE Migratory(S, x) <=> x \in M
    BY DEF Migratory, Mobile
  <2>4. other \notin Tasks /\ ToSet(s.queue) \subseteq Tasks
    BY <1>0, FirstLeast, RtBalanceConstants
  <2>5. CASE s.curr \in ToSet(s.queue) /\ s.curr \in M
    <3> DEFINE p == s.curr
               t == enqueue_pushable_task(s, p)
    <3>1. P = On(S, c, t)
      BY <2>2, <2>3, <2>4, <2>5 DEF put_prev_task_rt
    <3>2. p \in Tasks /\ SortedList(s.pushable) /\ s.next = FirstPrio(s.pushable)
          /\ ToSet(s.pushable) = {x \in ToSet(s.queue) : p # x /\ x \in M}
          /\ p \notin ToSet(s.pushable)
      BY <1>0, <2>4, <2>5 DEF PushOK
    <3>3. /\ t \in RunQueue /\ SortedList(t.pushable)
          /\ ToSet(t.pushable) = ToSet(s.pushable) \cup {p}
          /\ t.next = FirstPrio(t.pushable)
          /\ t.queue = s.queue /\ t.highest = s.highest /\ t.total = s.total
          /\ t.migratory = s.migratory /\ t.overloaded = s.overloaded
      BY <1>0, <3>2, PushAdded
    <3> HIDE DEF t, P
    <3>4. P \in System /\ P.rd = S.rd /\ P.task = S.task /\ P.rq[c] = t /\ Near(S, P, c)
      BY <1>0, <3>1, <3>3, OnIs, NearOn
    <3>5. ToSet(t.pushable) = ToSet(s.queue) \cap M
      BY <2>5, <3>2, <3>3
    <3> QED BY <3>3, <3>4, <3>5
  <2>6. CASE ~(s.curr \in ToSet(s.queue) /\ s.curr \in M)
    <3>1. P = S
      BY <2>1, <2>2, <2>3, <2>6 DEF put_prev_task_rt
    <3>2. Near(S, S, c)
      BY <1>0 DEF Near
    <3>3. ToSet(s.pushable) = ToSet(s.queue) \cap M
      BY <1>0, <2>6 DEF PushOK
    <3> HIDE DEF P
    <3> QED BY <1>0, <3>1, <3>2, <3>3 DEF PushOK
  <2> QED BY <2>5, <2>6
<1> HIDE DEF P, N
<1>3. /\ next = other => ToSet(s.queue) = {}
      /\ next # other => next \in ToSet(s.queue)
      /\ next \in Tasks \cup {other}
  <2>1. s.queue = <<>> <=> ToSet(s.queue) = {}
    BY <1>0, FirstLeast
  <2>2. ToSet(s.queue) \subseteq Tasks /\ other \notin Tasks
    BY <1>0, FirstLeast, RtBalanceConstants
  <2>3. s.queue # <<>> => Head(s.queue) \in ToSet(s.queue)
    <3>1. s.queue \in Seq(Tasks)
      BY <1>0 DEF SortedList
    <3> QED BY <3>1 DEF ToSet
  <2> QED BY <1>2, <2>1, <2>2, <2>3
<1> HIDE DEF next
<1>4. /\ r \in RunQueue /\ SortedList(r.pushable) /\ r.next = FirstPrio(r.pushable)
      /\ ToSet(r.pushable) = (ToSet(s.queue) \cap M) \ {next}
      /\ r.queue = s.queue /\ r.highest = s.highest /\ r.total = s.total
      /\ r.migratory = s.migratory /\ r.overloaded = s.overloaded
  <2>1. CASE next = other
    BY <1>2, <1>3, <2>1
  <2>2. CASE next # other
    <3> DEFINE t == dequeue_pushable_task(q, next)
    <3>1. /\ t \in RunQueue /\ SortedList(t.pushable)
          /\ ToSet(t.pushable) = ToSet(q.pushable) \ {next}
          /\ t.next = FirstPrio(t.pushable)
          /\ t.queue = q.queue /\ t.highest = q.highest /\ t.total = q.total
          /\ t.migratory = q.migratory /\ t.overloaded = q.overloaded
      BY <1>2, PushTaken
    <3>2. r = t
      BY <2>2
    <3> HIDE DEF t, r, q
    <3> QED BY <1>2, <3>1, <3>2
  <2> QED BY <2>1, <2>2
<1> HIDE DEF r
<1>5. /\ n \in RunQueue /\ n.pushable = r.pushable /\ n.next = r.next /\ n.curr = next
      /\ n.queue = r.queue /\ n.highest = r.highest /\ n.total = r.total
      /\ n.migratory = r.migratory /\ n.overloaded = r.overloaded
  BY <1>3, <1>4 DEF RunQueue
<1> HIDE DEF n, q
<1>6. N \in System /\ N.rd = S.rd /\ N.task = S.task /\ N.rq[c] = n /\ Near(P, N, c)
  BY <1>2, <1>5, OnIs, NearOn DEF N
<1>7. Near(S, N, c)
  BY <1>2, <1>6, NearTwice
<1>8. PushOK(n, M)
  <2>1. ToSet(n.pushable) = {x \in ToSet(n.queue) : n.curr # x /\ x \in M}
    BY <1>4, <1>5
  <2> QED BY <1>4, <1>5, <2>1 DEF PushOK
<1>9. CountsOK(n, M) /\ n.overloaded = Overloaded(n) /\ KnownOK(N, c)
  BY <1>0, <1>4, <1>5, <1>6 DEF CpuOK, CountsOK, Overloaded, KnownOK
<1>10. CpuOK(N, c)
  BY <1>0, <1>4, <1>5, <1>6, <1>8, <1>9 DEF CpuOK
<1>11. /\ \A x \in ToSet(N.rq[c].queue) : S.task[x].cpu = c /\ c \in S.task[x].cpus_allowed
       /\ N.rq[c].curr # other => S.task[N.rq[c].curr].cpu = c
       /\ N.rd.rto_count = Cardinality(N.rd.rto_mask)
  BY <1>0, <1>3, <1>4, <1>5, <1>6 DEF HomeOK
<1>12. SystemOK(N)
  BY <1>7, <1>10, <1>11, OneCpu
<1> QED BY <1>1, <1>3, <1>4, <1>5, <1>6, <1>7, <1>12

\* A task queued on c gets another affinity.
LEMMA Reaffined ==
  ASSUME NEW S, SystemOK(S), NEW T \in System, NEW c \in CPUs, NEW p \in ToSet(S.rq[c].queue),
         CpuOK(T, c), T.rd.rto_count = Cardinality(T.rd.rto_mask),
         \A d \in CPUs \ {c} : /\ T.rq[d] = S.rq[d] /\ T.rd.cpupri[d] = S.rd.cpupri[d]
                               /\ d \in T.rd.rto_mask <=> d \in S.rd.rto_mask,
         ToSet(T.rq[c].queue) = ToSet(S.rq[c].queue), T.rq[c].curr = S.rq[c].curr,
         \A x \in Tasks \ {p} : T.task[x] = S.task[x],
         T.task[p].cpu = c, c \in T.task[p].cpus_allowed
  PROVE  SystemOK(T)
<1>0. /\ HomeOK(S) /\ p \in Tasks /\ p # other /\ S.task[p].cpu = c
      /\ \A d \in CPUs : ToSet(S.rq[d].queue) \subseteq Tasks /\ S.rq[d].curr \in Tasks \cup {other}
  <2>1. \A d \in CPUs : ToSet(S.rq[d].queue) \subseteq Tasks
    BY FirstLeast DEF SystemOK, CpuOK
  <2>2. \A d \in CPUs : S.rq[d].curr \in Tasks \cup {other}
    <3> TAKE d \in CPUs
    <3>1. S.rq[d] \in RunQueue
      BY Parts DEF SystemOK
    <3> QED BY <3>1 DEF RunQueue
  <2>3. p \in Tasks /\ p # other
    BY <2>1, RtBalanceConstants
  <2> QED BY <2>1, <2>2, <2>3 DEF SystemOK, HomeOK
<1>1. \A d \in CPUs \ {c} : p \notin ToSet(S.rq[d].queue) /\ S.rq[d].curr # p
  BY <1>0, OnePlace
<1>2. ASSUME NEW d \in CPUs PROVE CpuOK(T, d)
  <2>1. CASE d = c
    BY <2>1
  <2>2. CASE d # c
    <3>1. ToSet(S.rq[d].queue) \subseteq Tasks \ {p} /\ CpuOK(S, d)
      BY <1>0, <1>1, <2>2 DEF SystemOK
    <3>2. \A x \in ToSet(S.rq[d].queue) : x \in Mobile(T.task) <=> x \in Mobile(S.task)
      BY <3>1 DEF Mobile
    <3> QED BY <2>2, <3>1, <3>2, CpuKept
  <2> QED BY <2>1, <2>2
<1>3. HomeOK(T)
  <2> SUFFICES ASSUME NEW d \in CPUs
               PROVE  /\ \A x \in ToSet(T.rq[d].queue) : T.task[x].cpu = d /\ d \in T.task[x].cpus_allowed
                      /\ T.rq[d].curr # other => T.task[T.rq[d].curr].cpu = d
    BY DEF HomeOK
  <2>1. CASE d = c
    BY <1>0, <2>1 DEF HomeOK
  <2>2. CASE d # c
    BY <1>0, <1>1, <2>2 DEF HomeOK
  <2> QED BY <2>1, <2>2
<1> QED BY <1>2, <1>3 DEF SystemOK

\* Being on the queue, as the code asks it and as the invariant says it.
LEMMA OnRqIs ==
  ASSUME NEW S, SystemOK(S), NEW p \in Tasks
  PROVE  /\ S.task[p].cpu \in CPUs
         /\ OnRq(S, p) <=> p \in ToSet(S.rq[S.task[p].cpu].queue)
         /\ Waits(S, p) <=> OnRq(S, p) /\ S.rq[S.task[p].cpu].curr # p
         /\ \A c \in CPUs : p \in ToSet(S.rq[c].queue) => c = S.task[p].cpu
<1>1. S.task[p].cpu \in CPUs
  BY DEF SystemOK, System, TaskRecord
<1>2. DOMAIN S.rq[S.task[p].cpu].queue = 1 .. Len(S.rq[S.task[p].cpu].queue)
  BY <1>1 DEF SystemOK, CpuOK, SortedList
<1>3. \A c \in CPUs : p \in ToSet(S.rq[c].queue) => c = S.task[p].cpu
  BY DEF SystemOK, HomeOK
<1> QED BY <1>1, <1>2, <1>3 DEF OnRq, Waits, Contains, ToSet

\* set_cpus_allowed_rt keeps the pushable list and the counts right for the new affinity.
LEMMA AffinityCounted ==
  ASSUME NEW S, SystemOK(S), NEW p \in Tasks, NEW mask \in Masks, OnRq(S, p),
         Cardinality(mask) # Cardinality(S.task[p].cpus_allowed),
         NEW c, c = S.task[p].cpu, NEW M, M = Mobile(S.task), NEW L,
         L = IF Cardinality(mask) > 1 THEN M \cup {p} ELSE M \ {p}
  PROVE  LET U == set_cpus_allowed_rt(S, p, mask)
             u == U.rq[c]
         IN  /\ Near(S, U, c) /\ SortedList(u.queue) /\ PushOK(u, L) /\ CountsOK(u, L)
             /\ u.overloaded = Overloaded(u) /\ KnownOK(U, c)
             /\ U.rd.rto_count = Cardinality(U.rd.rto_mask)
             /\ u.queue = S.rq[c].queue /\ u.curr = S.rq[c].curr
<1> DEFINE s == S.rq[c]
           was == Migratory(S, p)
           is == Cardinality(mask) > 1
           off == IF Waits(S, p) /\ was THEN dequeue_pushable_task(s, p) ELSE s
           on == IF Waits(S, p) /\ is THEN enqueue_pushable_task(off, p) ELSE off
           k == CASE ~was /\ is -> on.migratory + 1
                  [] was /\ ~is -> on.migratory - 1
                  [] OTHER -> on.migratory
           m == [on EXCEPT !.migratory = k]
           A == On(S, c, m)
           U == update_rt_migration(A, c)
           u == U.rq[c]
<1>0. /\ S \in System /\ c \in CPUs /\ s \in RunQueue /\ CpuOK(S, c)
      /\ S.rd.rto_count = Cardinality(S.rd.rto_mask)
      /\ p \in ToSet(s.queue) /\ (Waits(S, p) <=> s.curr # p)
  BY OnRqIs, Parts DEF SystemOK
<1>1. /\ SortedList(s.queue) /\ PushOK(s, M) /\ CountsOK(s, M)
      /\ s.overloaded = Overloaded(s) /\ KnownOK(S, c)
  BY <1>0 DEF CpuOK
<1>2. set_cpus_allowed_rt(S, p, mask) = U
  BY DEF set_cpus_allowed_rt
<1>3. /\ was <=> p \in M
      /\ is \in BOOLEAN /\ L = IF is THEN M \cup {p} ELSE M \ {p}
  BY DEF Migratory, Mobile
<1> HIDE DEF was, is, U
<1>4. /\ off \in RunQueue /\ SortedList(off.pushable) /\ off.next = FirstPrio(off.pushable)
      /\ ToSet(off.pushable) = ToSet(s.pushable) \ {p}
      /\ off.queue = s.queue /\ off.highest = s.highest /\ off.total = s.total
      /\ off.migratory = s.migratory /\ off.overloaded = s.overloaded /\ off.curr = s.curr
  <2>1. CASE Waits(S, p) /\ was
    <3> DEFINE t == dequeue_pushable_task(s, p)
    <3>1. SortedList(s.pushable)
      BY <1>1 DEF PushOK
    <3>2. /\ t \in RunQueue /\ SortedList(t.pushable) /\ t.next = FirstPrio(t.pushable)
          /\ ToSet(t.pushable) = ToSet(s.pushable) \ {p}
          /\ t.queue = s.queue /\ t.highest = s.highest /\ t.total = s.total
          /\ t.migratory = s.migratory /\ t.overloaded = s.overloaded /\ t.curr = s.curr
      BY <1>0, <3>1, PushTaken
    <3>3. off = t
      BY <2>1
    <3> HIDE DEF t, off, s
    <3> QED BY <3>2, <3>3
  <2>2. CASE ~(Waits(S, p) /\ was)
    <3>1. off = s
      BY <2>2
    <3>2. p \notin ToSet(s.pushable)
      BY <1>0, <1>1, <1>3, <2>2 DEF PushOK
    <3> HIDE DEF off
    <3> QED BY <1>0, <1>1, <3>1, <3>2 DEF PushOK
  <2> QED BY <2>1, <2>2
<1> HIDE DEF off
<1>5. /\ on \in RunQueue /\ SortedList(on.pushable) /\ on.next = FirstPrio(on.pushable)
      /\ ToSet(on.pushable) = (IF s.curr # p /\ is THEN ToSet(s.pushable) \cup {p}
                               ELSE ToSet(s.pushable) \ {p})
      /\ on.queue = s.queue /\ on.highest = s.highest /\ on.total = s.total
      /\ on.migratory = s.migratory /\ on.overloaded = s.overloaded /\ on.curr = s.curr
  <2>1. CASE Waits(S, p) /\ is
    <3> DEFINE t == enqueue_pushable_task(off, p)
    <3>1. p \notin ToSet(off.pushable)
      BY <1>4
    <3>2. /\ t \in RunQueue /\ SortedList(t.pushable) /\ t.next = FirstPrio(t.pushable)
          /\ ToSet(t.pushable) = ToSet(off.pushable) \cup {p}
          /\ t.queue = off.queue /\ t.highest = off.highest /\ t.total = off.total
          /\ t.migratory = off.migratory /\ t.overloaded = off.overloaded /\ t.curr = off.curr
      BY <1>4, <3>1, PushAdded
    <3>3. on = t
      BY <2>1
    <3> HIDE DEF t, on
    <3>4. ToSet(t.pushable) = ToSet(s.pushable) \cup {p} /\ s.curr # p /\ is
      BY <1>0, <1>4, <2>1, <3>2
    <3> HIDE DEF s
    <3> QED BY <1>4, <3>2, <3>3, <3>4
  <2>2. CASE ~(Waits(S, p) /\ is)
    <3>1. on = off /\ ~(s.curr # p /\ is)
      BY <1>0, <2>2
    <3> HIDE DEF on, s
    <3> QED BY <1>4, <3>1
  <2> QED BY <2>1, <2>2
<1> HIDE DEF on
<1>6. ToSet(on.pushable) = {x \in ToSet(on.queue) : on.curr # x /\ x \in L}
  <2>1. ToSet(s.pushable) = {x \in ToSet(s.queue) : s.curr # x /\ x \in M}
    BY <1>1 DEF PushOK
  <2> HIDE DEF s
  <2> QED BY <1>0, <1>3, <1>5, <2>1 DEF s
<1>7. k = Cardinality(ToSet(s.queue) \cap L) /\ k \in Int
  <2> DEFINE X == ToSet(s.queue) \cap M
             Y == ToSet(s.queue) \cap L
  <2>1. IsFiniteSet(X) /\ Cardinality(X) \in Nat
    BY <1>1, QueuedFinite
  <2>2. on.migratory = Cardinality(X)
    BY <1>1, <1>5 DEF CountsOK
  <2>3. CASE ~was /\ is
    <3>1. Y = X \cup {p} /\ p \notin X
      BY <1>0, <1>3, <2>3
    <3> HIDE DEF X, Y
    <3>2. Cardinality(Y) = Cardinality(X) + 1
      BY <2>1, <3>1, FS_AddElement
    <3>3. k = on.migratory + 1
      BY <2>3
    <3> HIDE DEF k
    <3>4. k = Cardinality(Y) /\ k \in Int
      BY <2>1, <2>2, <3>2, <3>3
    <3> QED BY <3>4 DEF Y
  <2>4. CASE was /\ ~is
    <3>1. Y = X \ {p} /\ p \in X
      BY <1>0, <1>3, <2>4
    <3> HIDE DEF X, Y
    <3>2. Cardinality(Y) = Cardinality(X) - 1
      BY <2>1, <3>1, FS_RemoveElement
    <3>3. k = on.migratory - 1
      BY <2>4
    <3> HIDE DEF k
    <3>4. k = Cardinality(Y) /\ k \in Int
      BY <2>1, <2>2, <3>2, <3>3
    <3> QED BY <3>4 DEF Y
  <2>5. CASE was <=> is
    <3>1. Y = X
      BY <1>0, <1>3, <2>5
    <3>2. k = on.migratory
      BY <2>5
    <3> HIDE DEF k, X, Y
    <3> QED BY <2>1, <2>2, <3>1, <3>2 DEF Y
  <2> QED BY <1>3, <2>3, <2>4, <2>5
<1> HIDE DEF k
<1>8. /\ m \in RunQueue /\ m.pushable = on.pushable /\ m.next = on.next
      /\ m.queue = on.queue /\ m.highest = on.highest /\ m.total = on.total
      /\ m.migratory = k /\ m.overloaded = on.overloaded /\ m.curr = on.curr
  BY <1>5, <1>7 DEF RunQueue
<1>9. A = On(S, c, m)
  OBVIOUS
<1> HIDE DEF m, A
<1>10. A \in System /\ A.rd = S.rd /\ A.task = S.task /\ A.rq[c] = m /\ Near(S, A, c)
  BY <1>0, <1>8, <1>9, OnIs, NearOn
<1>11. c \in A.rd.rto_mask <=> A.rq[c].overloaded
  BY <1>1, <1>5, <1>8, <1>10 DEF KnownOK
<1>12. /\ Near(A, U, c) /\ SameTask(m, u)
       /\ u.queue = m.queue /\ u.highest = m.highest
       /\ u.total = m.total /\ u.migratory = m.migratory
       /\ u.overloaded = Overloaded(m)
       /\ U.rd.cpupri = A.rd.cpupri
       /\ c \in U.rd.rto_mask <=> u.overloaded
       /\ U.rd.rto_count = Cardinality(U.rd.rto_mask)
  BY <1>0, <1>10, <1>11, UpdateMigration DEF U
<1> HIDE DEF u, s
<1>13. Near(S, U, c)
  BY <1>10, <1>12, NearTwice
<1>14. PushOK(u, L)
  BY <1>5, <1>6, <1>8, <1>12 DEF PushOK, SameTask
<1>15. CountsOK(u, L)
  BY <1>1, <1>5, <1>7, <1>8, <1>12 DEF CountsOK
<1>16. u.overloaded = Overloaded(u)
  BY <1>12 DEF Overloaded
<1>17. KnownOK(U, c)
  <2>1. s.highest = FirstPrio(s.queue) /\ S.rd.cpupri[c] = s.highest
    BY <1>1 DEF KnownOK, s
  <2>2. u.highest = s.highest /\ u.queue = s.queue /\ U.rd.cpupri = S.rd.cpupri
    BY <1>5, <1>8, <1>10, <1>12
  <2>3. /\ u.highest = FirstPrio(u.queue) /\ U.rd.cpupri[c] = u.highest
        /\ c \in U.rd.rto_mask <=> u.overloaded
    BY <1>12, <2>1, <2>2
  <2> QED BY <2>3 DEF KnownOK, u
<1>18. u.queue = s.queue /\ u.curr = s.curr
  BY <1>5, <1>8, <1>12 DEF SameTask
<1> QED BY <1>1, <1>2, <1>12, <1>13, <1>14, <1>15, <1>16, <1>17, <1>18 DEF u, s

\* set_cpus_allowed_ptr changes the affinity of one task, and no place.
LEMMA Affinity ==
  ASSUME NEW S, SystemOK(S), NEW p \in Tasks, NEW mask \in Masks,
         OnRq(S, p) => S.task[p].cpu \in mask
  PROVE  LET T == [set_cpus_allowed_rt(S, p, mask) EXCEPT !.task[p].cpus_allowed = mask]
         IN  /\ SystemOK(T)
             /\ \A d \in CPUs : T.rq[d].queue = S.rq[d].queue /\ T.rq[d].curr = S.rq[d].curr
             /\ \A x \in Tasks \ {p} : T.task[x] = S.task[x]
             /\ T.task[p].cpu = S.task[p].cpu /\ T.task[p].cpus_allowed = mask
<1> DEFINE U == set_cpus_allowed_rt(S, p, mask)
           T == [U EXCEPT !.task[p].cpus_allowed = mask]
           c == S.task[p].cpu
<1>0. /\ S \in System /\ HomeOK(S) /\ c \in CPUs /\ p # other
      /\ S.rd.rto_count = Cardinality(S.rd.rto_mask) /\ CpuOK(S, c)
      /\ OnRq(S, p) <=> p \in ToSet(S.rq[c].queue)
      /\ \A d \in CPUs : p \in ToSet(S.rq[d].queue) => d = c
  BY OnRqIs, RtBalanceConstants DEF SystemOK
<1>1. ASSUME U \in System, U.task = S.task
      PROVE  /\ T \in System /\ T.rq = U.rq /\ T.rd = U.rd
             /\ \A x \in Tasks \ {p} : T.task[x] = S.task[x]
             /\ T.task[p].cpu = c /\ T.task[p].cpus_allowed = mask
  <2>1. S.task \in [Tasks -> TaskRecord] /\ S.task[p] \in TaskRecord
    BY <1>0 DEF System
  <2> HIDE DEF U
  <2>2. T.rq = U.rq /\ T.rd = U.rd /\ T.task = [U.task EXCEPT ![p].cpus_allowed = mask]
    BY <1>1 DEF System
  <2>3. T.task \in [Tasks -> TaskRecord]
    BY <1>1, <2>1, <2>2 DEF TaskRecord
  <2>4. T \in System
    BY <1>1, <2>3 DEF System
  <2>5. /\ \A x \in Tasks \ {p} : T.task[x] = S.task[x]
        /\ T.task[p].cpu = c /\ T.task[p].cpus_allowed = mask
    <3> HIDE DEF T
    <3> QED BY <1>1, <2>1, <2>2 DEF TaskRecord
  <2> QED BY <2>2, <2>4, <2>5
<1>2. CASE ~OnRq(S, p)
  <2>1. U = S
    BY <1>2 DEF set_cpus_allowed_rt
  <2> HIDE DEF U, T
  <2>2. /\ T \in System /\ T.rq = S.rq /\ T.rd = S.rd
        /\ \A x \in Tasks \ {p} : T.task[x] = S.task[x]
        /\ T.task[p].cpu = c /\ T.task[p].cpus_allowed = mask
    BY <1>0, <1>1, <2>1
  <2>3. \A d \in CPUs : p \notin ToSet(S.rq[d].queue) /\ (S.rq[d].curr = p => T.task[p].cpu = d)
    BY <1>0, <1>2, <2>2 DEF HomeOK
  <2>4. SystemOK(T)
    BY <2>2, <2>3, Unqueued
  <2> QED BY <2>2, <2>4 DEF T, U
<1>3. CASE OnRq(S, p) /\ Cardinality(mask) = Cardinality(S.task[p].cpus_allowed)
  <2>1. U = S
    BY <1>3 DEF set_cpus_allowed_rt
  <2> HIDE DEF U, T
  <2>2. /\ T \in System /\ T.rq = S.rq /\ T.rd = S.rd
        /\ \A x \in Tasks \ {p} : T.task[x] = S.task[x]
        /\ T.task[p].cpu = c /\ T.task[p].cpus_allowed = mask
    BY <1>0, <1>1, <2>1
  <2>3. \A x \in ToSet(S.rq[c].queue) : x \in Mobile(T.task) <=> x \in Mobile(S.task)
    BY <1>3, <2>2 DEF Mobile
  <2>4. CpuOK(T, c)
    BY <1>0, <2>2, <2>3, CpuKept
  <2>5. p \in ToSet(S.rq[c].queue) /\ c \in T.task[p].cpus_allowed
    BY <1>0, <1>3, <2>2
  <2>6. SystemOK(T)
    BY <1>0, <2>2, <2>4, <2>5, Reaffined
  <2> QED BY <2>2, <2>6 DEF T, U
<1>4. CASE OnRq(S, p) /\ Cardinality(mask) # Cardinality(S.task[p].cpus_allowed)
  <2> DEFINE M == Mobile(S.task)
             L == IF Cardinality(mask) > 1 THEN M \cup {p} ELSE M \ {p}
  <2>1. /\ Near(S, U, c) /\ SortedList(U.rq[c].queue) /\ PushOK(U.rq[c], L)
        /\ CountsOK(U.rq[c], L) /\ U.rq[c].overloaded = Overloaded(U.rq[c]) /\ KnownOK(U, c)
        /\ U.rd.rto_count = Cardinality(U.rd.rto_mask)
        /\ U.rq[c].queue = S.rq[c].queue /\ U.rq[c].curr = S.rq[c].curr
    BY <1>4, AffinityCounted
  <2> HIDE DEF U, T
  <2>2. U \in System /\ U.task = S.task
    BY <2>1 DEF Near
  <2>3. /\ T \in System /\ T.rq = U.rq /\ T.rd = U.rd
        /\ \A x \in Tasks \ {p} : T.task[x] = S.task[x]
        /\ T.task[p].cpu = c /\ T.task[p].cpus_allowed = mask
    BY <1>1, <2>2
  <2>4. Mobile(T.task) = L
    BY <2>3 DEF Mobile
  <2> HIDE DEF L
  <2>5. CpuOK(T, c)
    BY <2>1, <2>3, <2>4 DEF CpuOK, KnownOK
  <2>6. p \in ToSet(S.rq[c].queue) /\ c \in T.task[p].cpus_allowed
    BY <1>0, <1>4, <2>3
  <2>7. /\ \A d \in CPUs \ {c} : /\ T.rq[d] = S.rq[d] /\ T.rd.cpupri[d] = S.rd.cpupri[d]
                                 /\ d \in T.rd.rto_mask <=> d \in S.rd.rto_mask
        /\ T.rq[c].queue = S.rq[c].queue /\ T.rq[c].curr = S.rq[c].curr
        /\ T.rd.rto_count = Cardinality(T.rd.rto_mask)
    BY <2>1, <2>3 DEF Near
  <2>8. SystemOK(T)
    BY <1>0, <2>3, <2>5, <2>6, <2>7, Reaffined
  <2>9. \A d \in CPUs : T.rq[d].queue = S.rq[d].queue /\ T.rq[d].curr = S.rq[d].curr
    BY <2>7
  <2> QED BY <2>3, <2>8, <2>9 DEF T, U
<1> QED BY <1>2, <1>3, <1>4

-----------------------------------------------------------------------------
(* Contexts and locks. *)

\* A step of one context x, which takes or drops only locks that are its own or free.
LEMMA OneContext ==
  ASSUME NEW X, NEW K, LocksOK(X, K), NEW x \in Contexts, NEW r, CtxOK(x, r),
         NEW Y, Y = [X EXCEPT ![x] = r],
         NEW J, J \in [CPUs -> Contexts \cup {free}],
         \A c \in CPUs : J[c] # K[c] => J[c] \in {x, free} /\ K[c] \in {x, free},
         \A c \in CPUs : /\ J[c] = x => Owns(r, c) \/ Half(r, c)
                         /\ Owns(r, c) => J[c] = x
  PROVE  LocksOK(Y, J)
<1>1. DOMAIN X = Contexts /\ free \notin Contexts
  BY RtBalanceConstants DEF LocksOK, Contexts, free
<1>2. DOMAIN Y = Contexts /\ Y[x] = r /\ \A y \in Contexts \ {x} : Y[y] = X[y]
  BY <1>1
<1>3. ASSUME NEW y \in Contexts PROVE CtxOK(y, Y[y])
  BY <1>2 DEF LocksOK
<1>4. ASSUME NEW c \in CPUs, NEW y \in Contexts
      PROVE  (J[c] = y => Owns(Y[y], c) \/ Half(Y[y], c)) /\ (Owns(Y[y], c) => J[c] = y)
  <2>1. CASE y = x
    BY <1>2, <2>1
  <2>2. CASE y # x
    <3>1. Y[y] = X[y] /\ (J[c] = y <=> K[c] = y)
      BY <1>1, <1>2, <2>2
    <3> QED BY <3>1 DEF LocksOK
  <2> QED BY <2>1, <2>2
<1> QED BY <1>2, <1>3, <1>4 DEF LocksOK

\* The locks as x has them when it holds that of its own queue and no other.
OwnOnly(x, J) ==
  /\ J \in [CPUs -> Contexts \cup {free}]
  /\ \A c \in CPUs : J[c] # lock[c] => J[c] \in {x, free} /\ lock[c] \in {x, free}
  /\ \A c \in CPUs : J[c] = x <=> c = ctx[x].rq

\* So it is while x pushes or pulls.
LEMMA OwnBefore ==
  ASSUME LocksOK(ctx, lock), NEW x \in Contexts, ctx[x].pc \in {"push", "find", "pull"}
  PROVE  OwnOnly(x, lock) /\ ctx[x].rq \in CPUs
<1>1. CtxOK(x, ctx[x])
  BY DEF LocksOK
<1>2. ctx[x].rq \in CPUs /\ \A c \in CPUs : ~Half(ctx[x], c)
  BY <1>1 DEF CtxOK, Half
<1> QED BY <1>2 DEF OwnOnly, LocksOK, Owns

\* The two queues of double_rq_lock, lower address first.
LEMMA TwoLocks ==
  ASSUME LocksOK(ctx, lock), NEW x \in Contexts, Locking(x)
  PROVE  /\ ctx[x].rq \in CPUs /\ ctx[x].target \in CPUs /\ ctx[x].target # ctx[x].rq
         /\ FirstLock(x) \in CPUs /\ SecondLock(x) \in CPUs /\ FirstLock(x) < SecondLock(x)
         /\ {FirstLock(x), SecondLock(x)} = {ctx[x].rq, ctx[x].target}
         /\ \A c \in CPUs : lock[c] = x => c = FirstLock(x)
<1>1. /\ ctx[x].rq \in CPUs /\ ctx[x].target \in CPUs /\ ctx[x].target # ctx[x].rq
      /\ \A c \in CPUs : ~Owns(ctx[x], c)
  BY DEF LocksOK, CtxOK, Locking, Owns
<1>2. ctx[x].rq \in Nat /\ ctx[x].target \in Nat
  BY <1>1, RtBalanceConstants
<1>3. /\ FirstLock(x) \in CPUs /\ SecondLock(x) \in CPUs /\ FirstLock(x) < SecondLock(x)
      /\ {FirstLock(x), SecondLock(x)} = {ctx[x].rq, ctx[x].target}
  BY <1>1, <1>2 DEF FirstLock, SecondLock, Lower
<1>4. \A c \in CPUs : lock[c] = x => c = FirstLock(x)
  BY <1>1 DEF LocksOK, Half, FirstLock
<1> QED BY <1>1, <1>3, <1>4

\* And when it has both and lets go of the other's.
LEMMA OwnAfter ==
  ASSUME LocksOK(ctx, lock), NEW x \in Contexts, HasBoth(x)
  PROVE  OwnOnly(x, KeepOwn(x)) /\ ctx[x].rq \in CPUs /\ ctx[x].target \in CPUs
<1>1. Locking(x) /\ lock[FirstLock(x)] = x /\ lock[SecondLock(x)] = free
  BY DEF HasBoth
<1>2. /\ ctx[x].rq \in CPUs /\ ctx[x].target \in CPUs /\ ctx[x].target # ctx[x].rq
      /\ FirstLock(x) \in CPUs /\ SecondLock(x) \in CPUs
      /\ {FirstLock(x), SecondLock(x)} = {ctx[x].rq, ctx[x].target}
      /\ \A c \in CPUs : lock[c] = x => c = FirstLock(x)
  BY <1>1, TwoLocks
<1> DEFINE J == KeepOwn(x)
           a == ctx[x].rq
           b == ctx[x].target
<1>3. lock \in [CPUs -> Contexts \cup {free}] /\ free \notin Contexts
  BY RtBalanceConstants DEF LocksOK, Contexts, free
<1>4. J = [lock EXCEPT ![a] = x, ![b] = free]
  BY DEF KeepOwn
<1> HIDE DEF J, a, b
<1>5. a \in CPUs /\ b \in CPUs /\ b # a
  BY <1>2 DEF a, b
<1>6. /\ J \in [CPUs -> Contexts \cup {free}] /\ J[a] = x /\ J[b] = free
      /\ \A c \in CPUs \ {a, b} : J[c] = lock[c]
  BY <1>3, <1>4, <1>5
<1>7. lock[a] \in {x, free} /\ lock[b] \in {x, free} /\ \A c \in CPUs \ {a, b} : lock[c] # x
  BY <1>1, <1>2 DEF a, b
<1>8. OwnOnly(x, J)
  BY <1>3, <1>5, <1>6, <1>7 DEF OwnOnly, a
<1> QED BY <1>2, <1>8 DEF J

\* Leaving with all locks dropped.
LEMMA Dropped ==
  ASSUME LocksOK(ctx, lock), NEW x \in Contexts, NEW J, OwnOnly(x, J), NEW r,
         CtxOK(x, r), \A c \in CPUs : ~Owns(r, c), ctx[x].rq \in CPUs
  PROVE  LocksOK([ctx EXCEPT ![x] = r], Drop(J, x))
<1> DEFINE a == ctx[x].rq
           D == Drop(J, x)
<1>1. D = [J EXCEPT ![a] = free] /\ a \in CPUs
  BY DEF Drop
<1>2. free \notin Contexts
  BY RtBalanceConstants DEF Contexts, free
<1> HIDE DEF D
<1>3. /\ D \in [CPUs -> Contexts \cup {free}] /\ D[a] = free /\ J[a] = x
      /\ \A c \in CPUs \ {a} : D[c] = J[c] /\ J[c] # x
  BY <1>1 DEF OwnOnly
<1>4. \A c \in CPUs : D[c] # lock[c] => D[c] \in {x, free} /\ lock[c] \in {x, free}
  BY <1>3 DEF OwnOnly
<1>5. \A c \in CPUs : D[c] # x
  BY <1>2, <1>3
<1> QED BY <1>3, <1>4, <1>5, OneContext DEF D

\* Going on with the lock of the own queue.
LEMMA Kept ==
  ASSUME LocksOK(ctx, lock), NEW x \in Contexts, NEW J, OwnOnly(x, J), NEW r,
         CtxOK(x, r), r.pc \in {"push", "find", "pull"}, r.rq = ctx[x].rq
  PROVE  LocksOK([ctx EXCEPT ![x] = r], J)
<1>1. \A c \in CPUs : /\ J[c] = x => Owns(r, c) \/ Half(r, c)
                      /\ Owns(r, c) => J[c] = x
  BY DEF OwnOnly, Owns
<1> QED BY <1>1, OneContext DEF OwnOnly

\* A step without any lock.
LEMMA Unlocked ==
  ASSUME LocksOK(ctx, lock), NEW x \in Contexts, ctx[x].pc \in {"none", "queue", "post"},
         NEW r, CtxOK(x, r), \A c \in CPUs : ~Owns(r, c)
  PROVE  LocksOK([ctx EXCEPT ![x] = r], lock)
<1>1. \A c \in CPUs : lock[c] # x
  BY DEF LocksOK, Owns, Half
<1>2. lock \in [CPUs -> Contexts \cup {free}]
  BY DEF LocksOK
<1> QED BY <1>1, <1>2, OneContext

\* Taking the lock of a queue that is free.
LEMMA Took ==
  ASSUME LocksOK(ctx, lock), NEW x \in Contexts, ctx[x].pc \in {"none", "queue", "post"},
         NEW c \in CPUs, lock[c] = free, NEW r, CtxOK(x, r),
         r.pc \in {"push", "find", "pull"}, r.rq = c
  PROVE  LocksOK([ctx EXCEPT ![x] = r], [lock EXCEPT ![c] = x])
<1> DEFINE J == [lock EXCEPT ![c] = x]
<1>1. \A d \in CPUs : lock[d] # x
  BY DEF LocksOK, Owns, Half
<1>2. lock \in [CPUs -> Contexts \cup {free}]
  BY DEF LocksOK
<1>3. J \in [CPUs -> Contexts \cup {free}] /\ J[c] = x /\ \A d \in CPUs \ {c} : J[d] = lock[d]
  BY <1>2
<1> HIDE DEF J
<1>4. \A d \in CPUs : /\ J[d] # lock[d] => J[d] \in {x, free} /\ lock[d] \in {x, free}
                      /\ J[d] = x => Owns(r, d) \/ Half(r, d)
                      /\ Owns(r, d) => J[d] = x
  BY <1>1, <1>3 DEF Owns
<1>5. LocksOK([ctx EXCEPT ![x] = r], J)
  BY <1>3, <1>4, OneContext
<1> QED BY <1>5 DEF J

-----------------------------------------------------------------------------
(* The steps. *)

\* The invariant after a step that makes the state S.
LEMMA StepTo ==
  ASSUME NEW S, SystemOK(S), Sets(S), LocksOK(ctx', lock'), PlacesOK(ctx', S),
         widened' \subseteq Tasks
  PROVE  IInv'
<1>1. Sys' = S
  BY DEF Sys, Sets, SystemOK, System
<1>2. SystemOK(Sys') /\ LocksOK(ctx', lock') /\ PlacesOK(ctx', Sys')
  BY <1>1
<1> QED BY <1>2 DEF IInv

\* A step of Becomes, from the invariant.
LEMMA BecomesTo ==
  ASSUME NEW S, IInv, SystemOK(S), Becomes(S), LocksOK(ctx', lock'), PlacesOK(ctx', S)
  PROVE  IInv'
BY StepTo DEF Becomes, IInv

\* A step that leaves the scheduler's state.
LEMMA SysKept ==
  ASSUME IInv, UNCHANGED <<rq, rd, task, widened>>, LocksOK(ctx', lock'), PlacesOK(ctx', Sys)
  PROVE  IInv'
<1>1. Sets(Sys) /\ SystemOK(Sys) /\ widened' \subseteq Tasks
  BY DEF Sets, Sys, IInv
<1> QED BY <1>1, StepTo

\* The parts of the invariant.
LEMMA IInvParts ==
  ASSUME IInv
  PROVE  /\ SystemOK(Sys) /\ LocksOK(ctx, lock) /\ PlacesOK(ctx, Sys)
         /\ Sys.rq = rq /\ Sys.rd = rd /\ Sys.task = task
         /\ DOMAIN ctx = Contexts /\ \A x \in Contexts : CtxOK(x, ctx[x])
         /\ lock \in [CPUs -> Contexts \cup {free}]
         /\ CPUs \subseteq Contexts /\ Tasks \subseteq Contexts
         /\ other \notin Contexts /\ free \notin Contexts /\ CPUs \cap Tasks = {}
BY RtBalanceConstants DEF IInv, LocksOK, Sys, Contexts, free

\* The records the steps give a context.
Finding(a, p) == [a EXCEPT !.pc = "find", !.task = p, !.tries = 0]
Targeting(a, q, g) == [a EXCEPT !.pc = q, !.target = g]
Going(a, q) == [a EXCEPT !.pc = q]
Trying(a) == [a EXCEPT !.pc = "find", !.tries = @ + 1]
Scanning(a, g) == [a EXCEPT !.target = g]
Starting(q, c) == [Idle EXCEPT !.pc = q, !.rq = c]
Pulling(c) == [Idle EXCEPT !.pc = "pull", !.rq = c, !.target = -1]

\* The record of a context that looks for a queue for p.
LEMMA CtxTask ==
  ASSUME NEW a \in CtxRecord, NEW p \in Tasks
  PROVE  /\ Finding(a, p) \in CtxRecord /\ Finding(a, p).pc = "find"
         /\ Finding(a, p).rq = a.rq /\ Finding(a, p).task = p
<1> SUFFICES ASSUME NEW r, r = [a EXCEPT !.pc = "find", !.task = p, !.tries = 0]
             PROVE  r \in CtxRecord /\ r.pc = "find" /\ r.rq = a.rq /\ r.task = p
  BY DEF Finding
<1>1. r = [pc |-> "find", rq |-> a.rq, task |-> p, target |-> a.target, tries |-> 0]
  BY DEF CtxRecord, Idle
<1>2. /\ a.pc \in {"none", "queue", "push", "find", "push_lock", "post"} \cup Pulls
      /\ a.rq \in Int /\ a.task \in Tasks \cup {other} /\ a.target \in Int /\ a.tries \in Int
  BY DEF CtxRecord
<1> QED BY <1>1, <1>2 DEF CtxRecord, Pulls

\* Of one that is to take two locks.
LEMMA CtxTarget ==
  ASSUME NEW a \in CtxRecord, NEW q \in {"queue", "push", "find", "push_lock", "post"} \cup Pulls, NEW g \in Int
  PROVE  /\ Targeting(a, q, g) \in CtxRecord /\ Targeting(a, q, g).pc = q
         /\ Targeting(a, q, g).rq = a.rq /\ Targeting(a, q, g).task = a.task /\ Targeting(a, q, g).target = g
<1> SUFFICES ASSUME NEW r, r = [a EXCEPT !.pc = q, !.target = g]
             PROVE  r \in CtxRecord /\ r.pc = q /\ r.rq = a.rq /\ r.task = a.task /\ r.target = g
  BY DEF Targeting
<1>1. r = [pc |-> q, rq |-> a.rq, task |-> a.task, target |-> g, tries |-> a.tries]
  BY DEF CtxRecord, Idle
<1>2. /\ a.pc \in {"none", "queue", "push", "find", "push_lock", "post"} \cup Pulls
      /\ a.rq \in Int /\ a.task \in Tasks \cup {other} /\ a.target \in Int /\ a.tries \in Int
  BY DEF CtxRecord
<1> QED BY <1>1, <1>2 DEF CtxRecord, Pulls

\* Of one that goes on.
LEMMA CtxGoes ==
  ASSUME NEW a \in CtxRecord, NEW q \in {"queue", "push", "find", "push_lock", "post"} \cup Pulls
  PROVE  /\ Going(a, q) \in CtxRecord /\ Going(a, q).pc = q
         /\ Going(a, q).rq = a.rq
<1> SUFFICES ASSUME NEW r, r = [a EXCEPT !.pc = q]
             PROVE  r \in CtxRecord /\ r.pc = q /\ r.rq = a.rq
  BY DEF Going
<1>1. r = [pc |-> q, rq |-> a.rq, task |-> a.task, target |-> a.target, tries |-> a.tries]
  BY DEF CtxRecord, Idle
<1>2. /\ a.pc \in {"none", "queue", "push", "find", "push_lock", "post"} \cup Pulls
      /\ a.rq \in Int /\ a.task \in Tasks \cup {other} /\ a.target \in Int /\ a.tries \in Int
  BY DEF CtxRecord
<1> QED BY <1>1, <1>2 DEF CtxRecord, Pulls

\* Of one that tries again.
LEMMA CtxTries ==
  ASSUME NEW a \in CtxRecord
  PROVE  /\ Trying(a) \in CtxRecord /\ Trying(a).pc = "find"
         /\ Trying(a).rq = a.rq /\ Trying(a).task = a.task
<1> SUFFICES ASSUME NEW r, r = [a EXCEPT !.pc = "find", !.tries = @ + 1]
             PROVE  r \in CtxRecord /\ r.pc = "find" /\ r.rq = a.rq /\ r.task = a.task
  BY DEF Trying
<1>1. r = [pc |-> "find", rq |-> a.rq, task |-> a.task, target |-> a.target, tries |-> a.tries + 1]
  BY DEF CtxRecord, Idle
<1>2. /\ a.pc \in {"none", "queue", "push", "find", "push_lock", "post"} \cup Pulls
      /\ a.rq \in Int /\ a.task \in Tasks \cup {other} /\ a.target \in Int /\ a.tries \in Int
  BY DEF CtxRecord
<1> QED BY <1>1, <1>2 DEF CtxRecord, Pulls

\* Of one that looks at the next overloaded CPU.
LEMMA CtxScans ==
  ASSUME NEW a \in CtxRecord, NEW g \in Int
  PROVE  /\ Scanning(a, g) \in CtxRecord /\ Scanning(a, g).pc = a.pc
         /\ Scanning(a, g).rq = a.rq
<1> SUFFICES ASSUME NEW r, r = [a EXCEPT !.target = g]
             PROVE  r \in CtxRecord /\ r.pc = a.pc /\ r.rq = a.rq
  BY DEF Scanning
<1>1. r = [pc |-> a.pc, rq |-> a.rq, task |-> a.task, target |-> g, tries |-> a.tries]
  BY DEF CtxRecord, Idle
<1>2. /\ a.pc \in {"none", "queue", "push", "find", "push_lock", "post"} \cup Pulls
      /\ a.rq \in Int /\ a.task \in Tasks \cup {other} /\ a.target \in Int /\ a.tries \in Int
  BY DEF CtxRecord
<1> QED BY <1>1, <1>2 DEF CtxRecord, Pulls

\* Of one that begins at the queue of c.
LEMMA CtxNew ==
  ASSUME NEW q \in {"queue", "push", "find", "push_lock", "post"} \cup Pulls, NEW c \in Int
  PROVE  /\ Starting(q, c) \in CtxRecord /\ Starting(q, c).pc = q
         /\ Starting(q, c).rq = c
<1> SUFFICES ASSUME NEW r, r = [Idle EXCEPT !.pc = q, !.rq = c]
             PROVE  r \in CtxRecord /\ r.pc = q /\ r.rq = c
  BY DEF Starting
<1>1. r = [pc |-> q, rq |-> c, task |-> other, target |-> 0, tries |-> 0]
  BY DEF CtxRecord, Idle
<1> QED BY <1>1 DEF CtxRecord, Pulls

\* Of one that begins to pull.
LEMMA CtxPull ==
  ASSUME NEW c \in Int
  PROVE  /\ Pulling(c) \in CtxRecord /\ Pulling(c).pc = "pull"
         /\ Pulling(c).rq = c
<1> SUFFICES ASSUME NEW r, r = [Idle EXCEPT !.pc = "pull", !.rq = c, !.target = -1]
             PROVE  r \in CtxRecord /\ r.pc = "pull" /\ r.rq = c
  BY DEF Pulling
<1>1. r = [pc |-> "pull", rq |-> c, task |-> other, target |-> -1, tries |-> 0]
  BY DEF CtxRecord, Idle
<1> QED BY <1>1 DEF CtxRecord, Pulls

\* Idle is a fine place for a context.
LEMMA IdleOK ==
  ASSUME NEW x
  PROVE  CtxOK(x, Idle) /\ Idle.pc = "none" /\ \A c \in CPUs : ~Owns(Idle, c) /\ ~Half(Idle, c)
<1>1. Idle \in CtxRecord /\ Idle.pc = "none"
  BY DEF Idle, CtxRecord
<1>2. CtxOK(x, Idle)
  BY <1>1 DEF CtxOK, Pulls
<1>3. \A c \in CPUs : ~Owns(Idle, c) /\ ~Half(Idle, c)
  BY <1>1 DEF Owns, Half
<1> QED BY <1>1, <1>2, <1>3

\* Who stands where, after a step of x that moves no task.
LEMMA PlacesKept ==
  ASSUME NEW X, DOMAIN X = Contexts, NEW S, NEW T, SystemOK(S), PlacesOK(X, S),
         SamePlaces(S, T), NEW x \in Contexts, NEW r, r.pc # "queue",
         x \in CPUs /\ r.pc \notin Pulls => X[x].pc \notin Pulls
  PROVE  PlacesOK([X EXCEPT ![x] = r], T)
<1> DEFINE Y == [X EXCEPT ![x] = r]
<1>1. Y[x] = r /\ \A y \in Contexts \ {x} : Y[y] = X[y]
  OBVIOUS
<1>2. CPUs \subseteq Contexts /\ Tasks \subseteq Contexts
  BY DEF Contexts
<1> HIDE DEF Y
<1>3. ASSUME NEW p \in Tasks, Y[p].pc = "queue"
      PROVE  /\ Y[p].rq = T.task[p].cpu /\ T.task[p].cpu \in T.task[p].cpus_allowed
             /\ p \notin ToSet(T.rq[T.task[p].cpu].queue) /\ T.rq[T.task[p].cpu].curr # p
  <2>1. Y[p] = X[p]
    BY <1>1, <1>2, <1>3
  <2>2. /\ X[p].rq = S.task[p].cpu /\ S.task[p].cpu \in S.task[p].cpus_allowed
        /\ p \notin ToSet(S.rq[S.task[p].cpu].queue) /\ S.rq[S.task[p].cpu].curr # p
    BY <1>3, <2>1 DEF PlacesOK
  <2>3. S.task[p].cpu \in CPUs
    BY OnRqIs
  <2> QED BY <2>1, <2>2, <2>3 DEF SamePlaces
<1>4. ASSUME NEW c \in CPUs, T.rq[c].curr # other, Y[c].pc \notin Pulls
      PROVE  T.rq[c].curr \in ToSet(T.rq[c].queue)
  <2>1. X[c].pc \notin Pulls
    BY <1>1, <1>2, <1>4
  <2> QED BY <1>4, <2>1 DEF PlacesOK, SamePlaces
<1> QED BY <1>3, <1>4 DEF PlacesOK, Y

\* A push that ends, with the locks J dropped.
LEMMA LeavePushOK ==
  ASSUME IInv, NEW x \in Contexts, ctx[x].pc \in {"push", "find", "push_lock"},
         NEW S, SystemOK(S), SamePlaces(Sys, S), NEW J, OwnOnly(x, J), LeavePush(x, S, J)
  PROVE  IInv'
<1>1. /\ LocksOK(ctx, lock) /\ PlacesOK(ctx, Sys) /\ DOMAIN ctx = Contexts /\ ctx[x].rq \in CPUs
      /\ SystemOK(Sys)
  BY IInvParts DEF CtxOK
<1>2. Becomes(S) /\ lock' = Drop(J, x) /\ ctx' = [ctx EXCEPT ![x] = Idle]
  BY DEF LeavePush, Goto
<1>3. LocksOK(ctx', lock')
  BY <1>1, <1>2, IdleOK, Dropped
<1>4. PlacesOK(ctx', S)
  <2>1. Idle.pc # "queue" /\ ctx[x].pc \notin Pulls
    BY IdleOK DEF Pulls
  <2> QED BY <1>1, <1>2, <2>1, PlacesKept
<1> QED BY <1>2, <1>3, <1>4, BecomesTo

\* push_rt_task from its label retry on.
LEMMA RetryOK ==
  ASSUME IInv, NEW x \in Contexts, ctx[x].pc \in {"push", "find", "push_lock"},
         NEW J, OwnOnly(x, J), NEW p \in Tasks, Retry(x, Sys, J, p)
  PROVE  IInv'
<1> DEFINE c == ctx[x].rq
           r == [ctx[x] EXCEPT !.pc = "find", !.task = p, !.tries = 0]
<1>1. /\ SystemOK(Sys) /\ LocksOK(ctx, lock) /\ PlacesOK(ctx, Sys) /\ DOMAIN ctx = Contexts
      /\ c \in CPUs /\ CtxOK(x, ctx[x])
  BY IInvParts DEF CtxOK
<1>2. CASE LeavePush(x, resched_task(Sys, c), J)
  BY <1>1, <1>2, Resched, LeavePushOK
<1>3. CASE Becomes(Sys) /\ lock' = J /\ Goto(x, r)
  <2>1. CtxOK(x, r) /\ r.pc = "find" /\ r.rq = ctx[x].rq
    <3>1. ctx[x] \in CtxRecord /\ ctx[x].rq \in CPUs
      BY <1>1 DEF CtxOK
    <3>2. r = Finding(ctx[x], p)
      BY DEF Finding
    <3> HIDE DEF r
    <3>3. r \in CtxRecord /\ r.pc = "find" /\ r.rq = ctx[x].rq /\ r.task = p
      BY <3>1, <3>2, CtxTask
    <3> QED BY <3>1, <3>3 DEF CtxOK, Pulls
  <2>2. ctx' = [ctx EXCEPT ![x] = r] /\ lock' = J /\ Becomes(Sys)
    BY <1>3 DEF Goto
  <2> HIDE DEF r
  <2>3. LocksOK(ctx', lock')
    BY <1>1, <2>1, <2>2, Kept
  <2>4. SamePlaces(Sys, Sys) /\ r.pc # "queue" /\ ctx[x].pc \notin Pulls
    BY <2>1 DEF SamePlaces, Pulls
  <2>5. PlacesOK(ctx', Sys)
    BY <1>1, <2>2, <2>4, PlacesKept
  <2> QED BY <1>1, <2>2, <2>3, <2>5, BecomesTo
<1> QED BY <1>2, <1>3 DEF Retry

\* The first of the pushable tasks is a task.
LEMMA PushableHead ==
  ASSUME IInv, NEW c \in CPUs, rq[c].pushable # <<>>
  PROVE  Head(rq[c].pushable) \in Tasks
<1>1. rq[c].pushable \in Seq(Tasks)
  BY IInvParts DEF SystemOK, CpuOK, PushOK, SortedList
<1> QED BY <1>1

\* push_rt_task without a queue to push to.
LEMMA NoLowestRqOK ==
  ASSUME IInv, NEW x \in Contexts, ctx[x].pc \in {"push", "find", "push_lock"},
         NEW J, OwnOnly(x, J), NoLowestRq(x, J)
  PROVE  IInv'
<1> DEFINE c == ctx[x].rq
           h == Head(rq[c].pushable)
<1>1. SystemOK(Sys) /\ c \in CPUs /\ SamePlaces(Sys, Sys)
  BY IInvParts DEF CtxOK, SamePlaces
<1>2. LeavePush(x, Sys, J) \/ (rq[c].pushable # <<>> /\ Retry(x, Sys, J, h))
  BY DEF NoLowestRq
<1>3. CASE LeavePush(x, Sys, J)
  BY <1>1, <1>3, LeavePushOK
<1>4. CASE rq[c].pushable # <<>> /\ Retry(x, Sys, J, h)
  <2>1. h \in Tasks
    BY <1>1, <1>4, PushableHead
  <2> HIDE DEF h
  <2> QED BY <1>4, <2>1, RetryOK
<1> QED BY <1>2, <1>3, <1>4

\* push_rt_task
LEMMA StepPush ==
  ASSUME IInv, NEW x \in Contexts, push_rt_task(x)
  PROVE  IInv'
<1> DEFINE c == ctx[x].rq
           h == Head(rq[c].pushable)
<1>1. /\ ctx[x].pc = "push" /\ c \in CPUs /\ OwnOnly(x, lock)
      /\ SystemOK(Sys) /\ SamePlaces(Sys, Sys)
  BY IInvParts, OwnBefore DEF push_rt_task, At, SamePlaces
<1>2. LeavePush(x, Sys, lock) \/ (rq[c].pushable # <<>> /\ Retry(x, Sys, lock, h))
  BY DEF push_rt_task
<1>3. CASE LeavePush(x, Sys, lock)
  BY <1>1, <1>3, LeavePushOK
<1>4. CASE rq[c].pushable # <<>> /\ Retry(x, Sys, lock, h)
  <2>1. h \in Tasks
    BY <1>1, <1>4, PushableHead
  <2> HIDE DEF h
  <2> QED BY <1>1, <1>4, <2>1, RetryOK
<1> QED BY <1>2, <1>3, <1>4

\* Who stands where, after a step of x that moves one task p, which runs nowhere.
LEMMA PlacesMoved ==
  ASSUME NEW X, NEW S, NEW T, SystemOK(S), PlacesOK(X, S), NEW p \in Tasks,
         OneMoves(S, T, p), \A d \in CPUs : S.rq[d].curr # p,
         NEW x \in Contexts, NEW Y, \A y \in Contexts \ {x} : Y[y] = X[y],
         Y[x].pc # "queue", X[p].pc = "queue" => x = p,
         x \in CPUs /\ Y[x].pc \notin Pulls => X[x].pc \notin Pulls
  PROVE  PlacesOK(Y, T)
<1>1. CPUs \subseteq Contexts /\ Tasks \subseteq Contexts
  BY DEF Contexts
<1>2. ASSUME NEW w \in Tasks, Y[w].pc = "queue"
      PROVE  /\ Y[w].rq = T.task[w].cpu /\ T.task[w].cpu \in T.task[w].cpus_allowed
             /\ w \notin ToSet(T.rq[T.task[w].cpu].queue) /\ T.rq[T.task[w].cpu].curr # w
  <2>1. Y[w] = X[w] /\ w # p
    BY <1>1, <1>2
  <2>2. /\ X[w].rq = S.task[w].cpu /\ S.task[w].cpu \in S.task[w].cpus_allowed
        /\ w \notin ToSet(S.rq[S.task[w].cpu].queue) /\ S.rq[S.task[w].cpu].curr # w
    BY <1>2, <2>1 DEF PlacesOK
  <2>3. S.task[w].cpu \in CPUs /\ T.task[w] = S.task[w]
    BY <2>1, OnRqIs DEF OneMoves
  <2> QED BY <2>1, <2>2, <2>3 DEF OneMoves
<1>3. ASSUME NEW c \in CPUs, T.rq[c].curr # other, Y[c].pc \notin Pulls
      PROVE  T.rq[c].curr \in ToSet(T.rq[c].queue)
  <2>1. X[c].pc \notin Pulls
    BY <1>1, <1>3
  <2>2. S.rq[c].curr \in ToSet(S.rq[c].queue)
    BY <1>3, <2>1 DEF PlacesOK, OneMoves
  <2> QED BY <2>2 DEF OneMoves
<1> QED BY <1>2, <1>3 DEF PlacesOK

\* try_to_wake_up
LEMMA StepWake ==
  ASSUME IInv, NEW p \in Tasks, try_to_wake_up(p)
  PROVE  IInv'
<1>0. /\ SystemOK(Sys) /\ LocksOK(ctx, lock) /\ PlacesOK(ctx, Sys) /\ DOMAIN ctx = Contexts
      /\ Sys.rq = rq /\ Sys.rd = rd /\ Sys.task = task /\ lock \in [CPUs -> Contexts \cup {free}]
      /\ p \in Contexts /\ p # other /\ p \notin CPUs /\ HomeOK(Sys) /\ CtxOK(p, ctx[p])
  BY IInvParts DEF SystemOK
<1>1. /\ ctx[p].pc = "none" /\ ~OnRq(Sys, p) /\ rq[task[p].cpu].curr # p
      /\ UNCHANGED <<rq, rd, lock, widened>>
  BY DEF try_to_wake_up, At
<1>2. PICK c \in select_task_rq(Sys, p) :
        /\ task' = [task EXCEPT ![p].cpu = c]
        /\ Goto(p, [Idle EXCEPT !.pc = "queue", !.rq = c])
  BY DEF try_to_wake_up
<1> DEFINE T == [Sys EXCEPT !.task[p].cpu = c]
           r == [Idle EXCEPT !.pc = "queue", !.rq = c]
<1>3. c \in task[p].cpus_allowed /\ c \in CPUs
  <2>1. task[p].cpus_allowed \in Masks
    BY <1>0 DEF SystemOK, System, TaskRecord
  <2>2. c \in task[p].cpus_allowed
    BY <1>0 DEF select_task_rq
  <2> QED BY <2>1, <2>2, RtBalanceConstants
<1>4. \A d \in CPUs : p \notin ToSet(Sys.rq[d].queue) /\ Sys.rq[d].curr # p
  <2>1. /\ Sys.task[p].cpu \in CPUs /\ p \notin ToSet(Sys.rq[Sys.task[p].cpu].queue)
        /\ Sys.rq[Sys.task[p].cpu].curr # p
    BY <1>0, <1>1, OnRqIs
  <2> QED BY <1>0, <2>1, OnePlace
<1>5. /\ SystemOK(T) /\ T.rq = Sys.rq /\ T.rd = Sys.rd
      /\ T.task[p].cpu = c /\ T.task[p].cpus_allowed = Sys.task[p].cpus_allowed
      /\ \A x \in Tasks \ {p} : T.task[x] = Sys.task[x]
  <2>1. Sys \in System /\ Sys.task[p] \in TaskRecord
    BY <1>0 DEF SystemOK, System
  <2>2. /\ T \in System /\ T.rq = Sys.rq /\ T.rd = Sys.rd
        /\ T.task[p].cpu = c /\ T.task[p].cpus_allowed = Sys.task[p].cpus_allowed
        /\ \A x \in Tasks \ {p} : T.task[x] = Sys.task[x]
    BY <1>3, <2>1 DEF System, TaskRecord
  <2> HIDE DEF T
  <2>3. SystemOK(T)
    BY <1>0, <1>4, <2>2, Unqueued
  <2> QED BY <2>2, <2>3
<1>6. Sets(T)
  <2>1. T.task = [Sys.task EXCEPT ![p].cpu = c]
    BY DEF Sys
  <2> HIDE DEF T
  <2> QED BY <1>0, <1>1, <1>2, <1>5, <2>1 DEF Sets
<1>7. r \in CtxRecord /\ r.pc = "queue" /\ r.rq = c
  <2>1. c \in Int
    BY <1>3, RtBalanceConstants
  <2>2. r = Starting("queue", c)
    BY DEF Starting
  <2> HIDE DEF r
  <2> QED BY <2>1, <2>2, CtxNew
<1>8. ctx' = [ctx EXCEPT ![p] = r]
  BY <1>2 DEF Goto
<1> HIDE DEF r, T
<1>9. CtxOK(p, r) /\ \A d \in CPUs : ~Owns(r, d) /\ ~Half(r, d)
  BY <1>3, <1>7 DEF CtxOK, Owns, Half, Pulls
<1>10. LocksOK(ctx', lock')
  <2>1. LocksOK([ctx EXCEPT ![p] = r], lock)
    BY <1>0, <1>1, <1>9, Unlocked
  <2> QED BY <1>1, <1>8, <2>1
<1>11. PlacesOK(ctx', T)
  <2>1. ctx'[p] = r /\ \A y \in Contexts \ {p} : ctx'[y] = ctx[y]
    BY <1>0, <1>8
  <2>2. CPUs \subseteq Contexts \ {p} /\ Tasks \subseteq Contexts
    BY <1>0 DEF Contexts
  <2>3. ASSUME NEW w \in Tasks, ctx'[w].pc = "queue"
        PROVE  /\ ctx'[w].rq = T.task[w].cpu /\ T.task[w].cpu \in T.task[w].cpus_allowed
               /\ w \notin ToSet(T.rq[T.task[w].cpu].queue) /\ T.rq[T.task[w].cpu].curr # w
    <3>1. CASE w = p
      BY <1>0, <1>3, <1>4, <1>5, <1>7, <2>1, <3>1
    <3>2. CASE w # p
      BY <1>0, <1>5, <2>1, <2>2, <2>3, <3>2 DEF PlacesOK
    <3> QED BY <3>1, <3>2
  <2>4. \A d \in CPUs : T.rq[d].curr # other /\ ctx'[d].pc \notin Pulls =>
           T.rq[d].curr \in ToSet(T.rq[d].queue)
    BY <1>0, <1>5, <2>1, <2>2 DEF PlacesOK
  <2> QED BY <2>3, <2>4 DEF PlacesOK
<1>12. widened' \subseteq Tasks
  BY <1>1 DEF IInv
<1> QED BY <1>5, <1>6, <1>10, <1>11, <1>12, StepTo

\* ttwu_queue
LEMMA StepQueue ==
  ASSUME IInv, NEW p \in Tasks, ttwu_queue(p)
  PROVE  IInv'
<1> DEFINE c == ctx[p].rq
           E == enqueue_task_rt(Sys, c, p)
           S == check_preempt_curr(E, c, p)
           r == Going(ctx[p], "push")
<1>0. /\ SystemOK(Sys) /\ LocksOK(ctx, lock) /\ PlacesOK(ctx, Sys) /\ DOMAIN ctx = Contexts
      /\ p \in Contexts /\ p # other /\ p \notin CPUs /\ HomeOK(Sys) /\ CtxOK(p, ctx[p])
  BY IInvParts DEF SystemOK
<1>1. /\ ctx[p].pc = "queue" /\ lock[c] = free /\ Becomes(S)
      /\ \/ Goto(p, r) /\ lock' = [lock EXCEPT ![c] = p]
         \/ Goto(p, Idle) /\ UNCHANGED lock
  BY DEF ttwu_queue, At, Going
<1>2. /\ c \in CPUs /\ Sys.task[p].cpu = c /\ c \in Sys.task[p].cpus_allowed
      /\ p \notin ToSet(Sys.rq[c].queue) /\ Sys.rq[c].curr # p
  BY <1>0, <1>1 DEF PlacesOK, CtxOK
<1> HIDE DEF c
<1>3. /\ SystemOK(E) /\ Near(Sys, E, c) /\ E.rq[c].curr = Sys.rq[c].curr
      /\ ToSet(E.rq[c].queue) = ToSet(Sys.rq[c].queue) \cup {p}
  BY <1>0, <1>2, Woken
<1> HIDE DEF E
<1>4. SystemOK(S) /\ SamePlaces(E, S)
  BY <1>2, <1>3, Preempts
<1> HIDE DEF S
<1>5. \A d \in CPUs : Sys.rq[d].curr # p
  BY <1>0, <1>2, OnePlace
<1>6. ASSUME NEW d \in CPUs
      PROVE  /\ S.rq[d].curr = Sys.rq[d].curr
             /\ ToSet(S.rq[d].queue) \ {p} = ToSet(Sys.rq[d].queue) \ {p}
  <2>1. S.rq[d].curr = E.rq[d].curr /\ ToSet(S.rq[d].queue) = ToSet(E.rq[d].queue)
    BY <1>4 DEF SamePlaces
  <2>2. CASE d = c
    BY <1>3, <2>1, <2>2
  <2>3. CASE d # c
    <3>1. E.rq[d] = Sys.rq[d]
      BY <1>3, <2>3 DEF Near
    <3> QED BY <2>1, <3>1
  <2> QED BY <2>2, <2>3
<1>7. OneMoves(Sys, S, p)
  <2>1. \A w \in Tasks \ {p} : S.task[w] = Sys.task[w]
    BY <1>3, <1>4 DEF Near, SamePlaces
  <2> QED BY <1>6, <2>1 DEF OneMoves
<1>8. ASSUME NEW k, k.pc # "queue", k.pc \notin Pulls
      PROVE  PlacesOK([ctx EXCEPT ![p] = k], S)
  <2> DEFINE Y == [ctx EXCEPT ![p] = k]
  <2>1. Y[p] = k /\ \A y \in Contexts \ {p} : Y[y] = ctx[y]
    BY <1>0
  <2> HIDE DEF Y
  <2>2. PlacesOK(Y, S)
    BY <1>0, <1>5, <1>7, <1>8, <2>1, PlacesMoved
  <2> QED BY <2>2 DEF Y
<1>9. CASE Goto(p, r) /\ lock' = [lock EXCEPT ![c] = p]
  <2>1. r \in CtxRecord /\ r.pc = "push" /\ r.rq = c
    BY <1>0, CtxGoes DEF CtxOK, c
  <2> HIDE DEF r
  <2>2. CtxOK(p, r) /\ r.pc # "queue" /\ r.pc \notin Pulls
    BY <1>2, <2>1 DEF CtxOK, Pulls
  <2>3. LocksOK([ctx EXCEPT ![p] = r], [lock EXCEPT ![c] = p])
    BY <1>0, <1>1, <1>2, <2>1, <2>2, Took
  <2>4. PlacesOK([ctx EXCEPT ![p] = r], S)
    BY <1>8, <2>2
  <2> QED BY <1>1, <1>4, <1>9, <2>3, <2>4, BecomesTo DEF Goto
<1>10. CASE Goto(p, Idle) /\ UNCHANGED lock
  <2>1. LocksOK([ctx EXCEPT ![p] = Idle], lock)
    BY <1>0, <1>1, IdleOK, Unlocked
  <2>2. PlacesOK([ctx EXCEPT ![p] = Idle], S)
    BY <1>8, IdleOK DEF Pulls
  <2> QED BY <1>1, <1>4, <1>10, <2>1, <2>2, BecomesTo DEF Goto
<1> QED BY <1>1, <1>9, <1>10

\* double_rq_lock
LEMMA StepLock ==
  ASSUME IInv, NEW x \in Contexts, double_rq_lock(x)
  PROVE  IInv'
<1> DEFINE f == FirstLock(x)
           J == [lock EXCEPT ![f] = x]
<1>0. /\ LocksOK(ctx, lock) /\ PlacesOK(ctx, Sys) /\ DOMAIN ctx = Contexts
      /\ lock \in [CPUs -> Contexts \cup {free}] /\ CtxOK(x, ctx[x])
  BY IInvParts
<1>1. /\ Locking(x) /\ lock[f] = free /\ lock' = J /\ ctx' = ctx
      /\ UNCHANGED <<rq, rd, task, widened>>
  BY DEF double_rq_lock
<1>2. f \in CPUs /\ \A c \in CPUs : lock[c] = x => c = f
  BY <1>0, <1>1, TwoLocks
<1>3. Half(ctx[x], f) /\ \A c \in CPUs : ~Owns(ctx[x], c)
  BY <1>1 DEF Locking, Half, FirstLock, Owns
<1> HIDE DEF f
<1>4. J \in [CPUs -> Contexts \cup {free}] /\ J[f] = x /\ \A d \in CPUs \ {f} : J[d] = lock[d]
  BY <1>0, <1>2
<1> HIDE DEF J
<1>5. ASSUME NEW d \in CPUs, NEW y \in Contexts
      PROVE  /\ J[d] = y => Owns(ctx[y], d) \/ Half(ctx[y], d)
             /\ Owns(ctx[y], d) => J[d] = y
  <2>1. CASE y = x
    BY <1>1, <1>2, <1>3, <1>4, <2>1
  <2>2. CASE y # x
    <3>1. J[d] = y <=> lock[d] = y
      BY <1>1, <1>4, <2>2, IInvParts
    <3> QED BY <1>0, <3>1 DEF LocksOK
  <2> QED BY <2>1, <2>2
<1>6. LocksOK(ctx, J)
  BY <1>0, <1>4, <1>5 DEF LocksOK
<1> QED BY <1>0, <1>1, <1>6, SysKept

\* double_lock_balance drops the lock of the own queue, with another queue to take.
LEMMA BalanceOK ==
  ASSUME IInv, NEW x \in Contexts, ctx[x].pc \in {"find", "pull"}, NEW q,
         ctx[x].pc = "find" => q = "push_lock", ctx[x].pc = "pull" => q = "pull_lock",
         NEW g \in CPUs, g # ctx[x].rq, Balance(x, q, g), UNCHANGED <<rq, rd, task, widened>>
  PROVE  IInv'
<1> DEFINE a == ctx[x]
           r == Targeting(a, q, g)
<1>0. /\ SystemOK(Sys) /\ LocksOK(ctx, lock) /\ PlacesOK(ctx, Sys) /\ DOMAIN ctx = Contexts
      /\ CtxOK(x, a) /\ a \in CtxRecord /\ a.rq \in CPUs
  BY IInvParts DEF CtxOK
<1>1. ctx' = [ctx EXCEPT ![x] = r] /\ lock' = Drop(lock, x)
  BY DEF Balance, Goto, Drop, Targeting
<1>2. q \in {"push_lock", "pull_lock"} /\ q \in {"queue", "push", "find", "push_lock", "post"} \cup Pulls
  BY DEF Pulls
<1>3. g \in Int
  BY RtBalanceConstants
<1>4. r \in CtxRecord /\ r.pc = q /\ r.rq = a.rq /\ r.task = a.task /\ r.target = g
  BY <1>0, <1>2, <1>3, CtxTarget
<1> HIDE DEF r
<1>5. CtxOK(x, r) /\ (r.pc \in Pulls <=> a.pc \in Pulls) /\ \A c \in CPUs : ~Owns(r, c)
  BY <1>0, <1>2, <1>4 DEF CtxOK, Pulls, Owns
<1>6. OwnOnly(x, lock)
  BY <1>0, OwnBefore
<1>7. LocksOK(ctx', lock')
  BY <1>0, <1>1, <1>5, <1>6, Dropped
<1>8. SamePlaces(Sys, Sys) /\ r.pc # "queue"
  BY <1>2, <1>4 DEF SamePlaces
<1>9. PlacesOK(ctx', Sys)
  BY <1>0, <1>1, <1>5, <1>8, PlacesKept
<1> QED BY <1>7, <1>9, SysKept

\* The CPUs that find_lowest_rq may return.
LEMMA LowestAllowed ==
  ASSUME NEW S, SystemOK(S), NEW p \in Tasks
  PROVE  find_lowest_rq(S, p) \subseteq S.task[p].cpus_allowed /\ S.task[p].cpus_allowed \subseteq CPUs
<1>1. S.task[p].cpus_allowed \in Masks
  BY DEF SystemOK, System, TaskRecord
<1>2. cpupri_find(S, p) \subseteq S.task[p].cpus_allowed
  BY DEF cpupri_find
<1> QED BY <1>1, <1>2, RtBalanceConstants DEF find_lowest_rq

\* find_lock_lowest_rq
LEMMA StepFind ==
  ASSUME IInv, NEW x \in Contexts, find_lock_lowest_rq(x)
  PROVE  IInv'
<1>1. ctx[x].pc = "find" /\ LocksOK(ctx, lock) /\ SystemOK(Sys) /\ CtxOK(x, ctx[x])
  BY IInvParts DEF find_lock_lowest_rq, At
<1>2. ctx[x].task \in Tasks
  BY <1>1 DEF CtxOK
<1>3. CASE NoLowestRq(x, lock)
  <2>1. OwnOnly(x, lock)
    BY <1>1, OwnBefore
  <2> QED BY <1>1, <1>3, <2>1, NoLowestRqOK
<1>4. ASSUME NEW c \in find_lowest_rq(Sys, ctx[x].task) \ {ctx[x].rq},
             Balance(x, "push_lock", c), UNCHANGED <<rq, rd, task, widened>>
      PROVE  IInv'
  <2>1. c \in CPUs /\ c # ctx[x].rq
    BY <1>1, <1>2, LowestAllowed
  <2> QED BY <1>1, <1>4, <2>1, BalanceOK
<1> QED BY <1>3, <1>4 DEF find_lock_lowest_rq

\* Going on with the lock of the own queue, after a step that moved p from one queue
\* to another or nothing.
LEMMA MovedOn ==
  ASSUME IInv, NEW x \in Contexts, Locking(x), NEW J, OwnOnly(x, J), NEW r, CtxOK(x, r),
         r.pc \in {"push", "find", "pull"}, r.rq = ctx[x].rq,
         x \in CPUs /\ ctx[x].pc = "pull_lock" => r.pc = "pull",
         NEW S, SystemOK(S), Becomes(S), lock' = J, Goto(x, r),
         \/ SamePlaces(Sys, S)
         \/ \E p \in Tasks : OnRq(Sys, p) /\ Sys.rq[Sys.task[p].cpu].curr # p /\ OneMoves(Sys, S, p)
  PROVE  IInv'
<1>0. /\ SystemOK(Sys) /\ LocksOK(ctx, lock) /\ PlacesOK(ctx, Sys) /\ DOMAIN ctx = Contexts
      /\ HomeOK(Sys) /\ other \notin Contexts /\ Tasks \subseteq Contexts
  BY IInvParts DEF SystemOK
<1>1. LocksOK([ctx EXCEPT ![x] = r], J)
  BY <1>0, Kept
<1>2. r.pc # "queue" /\ (x \in CPUs /\ r.pc \notin Pulls => ctx[x].pc \notin Pulls)
  BY DEF Pulls, Locking
<1>3. CASE SamePlaces(Sys, S)
  <2>1. PlacesOK([ctx EXCEPT ![x] = r], S)
    BY <1>0, <1>2, <1>3, PlacesKept
  <2> QED BY <1>1, <2>1, BecomesTo DEF Goto
<1>4. ASSUME NEW p \in Tasks, OnRq(Sys, p), Sys.rq[Sys.task[p].cpu].curr # p, OneMoves(Sys, S, p)
      PROVE  IInv'
  <2>1. Sys.task[p].cpu \in CPUs /\ p \in ToSet(Sys.rq[Sys.task[p].cpu].queue)
    BY <1>0, <1>4, OnRqIs
  <2>2. \A d \in CPUs : Sys.rq[d].curr # p
    BY <1>0, <1>4, <2>1, OnePlace
  <2>3. ctx[p].pc # "queue"
    BY <1>0, <2>1 DEF PlacesOK
  <2>4. PlacesOK([ctx EXCEPT ![x] = r], S)
    <3> DEFINE Y == [ctx EXCEPT ![x] = r]
    <3>1. Y[x] = r /\ \A y \in Contexts \ {x} : Y[y] = ctx[y]
      BY <1>0
    <3> HIDE DEF Y
    <3>2. /\ Y[x].pc # "queue" /\ (ctx[p].pc = "queue" => x = p)
          /\ x \in CPUs /\ Y[x].pc \notin Pulls => ctx[x].pc \notin Pulls
      BY <1>2, <2>3, <3>1
    <3>3. OneMoves(Sys, S, p)
      BY <1>4
    <3>4. PlacesOK(Y, S)
      BY <1>0, <2>2, <3>1, <3>2, <3>3, PlacesMoved
    <3> QED BY <3>4 DEF Y
  <2> QED BY <1>1, <2>4, BecomesTo DEF Goto
<1> QED BY <1>3, <1>4

\* Migrate moves one task, and asking for a reschedule none.
LEMMA MigrateMoves ==
  ASSUME NEW S, SystemOK(S), NEW src \in CPUs, NEW dst \in CPUs, dst # src,
         NEW p \in ToSet(S.rq[src].queue), S.rq[src].curr # p, dst \in S.task[p].cpus_allowed
  PROVE  /\ SystemOK(Migrate(S, p, src, dst)) /\ OneMoves(S, Migrate(S, p, src, dst), p)
         /\ SystemOK(resched_task(Migrate(S, p, src, dst), dst))
         /\ OneMoves(S, resched_task(Migrate(S, p, src, dst), dst), p)
<1> DEFINE T == Migrate(S, p, src, dst)
           U == resched_task(T, dst)
<1>1. SystemOK(T) /\ OneMoves(S, T, p)
  BY Migrated
<1> HIDE DEF T
<1>2. SystemOK(U) /\ SamePlaces(T, U)
  BY <1>1, Resched
<1> HIDE DEF U
<1>3. OneMoves(S, U, p)
  BY <1>1, <1>2 DEF OneMoves, SamePlaces
<1> QED BY <1>1, <1>2, <1>3 DEF U, T

\* The end of push_rt_task, with both locks.
LEMMA StepPushed ==
  ASSUME IInv, NEW x \in Contexts, push_locked(x)
  PROVE  IInv'
<1> DEFINE p == ctx[x].task
           a == ctx[x].rq
           c == ctx[x].target
           M == resched_task(Migrate(Sys, p, a, c), c)
<1>0. /\ SystemOK(Sys) /\ LocksOK(ctx, lock) /\ Sys.rq = rq /\ Sys.task = task
      /\ CtxOK(x, ctx[x]) /\ ctx[x] \in CtxRecord
  BY IInvParts DEF CtxOK
<1>1. /\ ctx[x].pc = "push_lock" /\ HasBoth(x) /\ Locking(x)
      /\ \/ NoLowestRq(x, KeepOwn(x))
         \/ /\ ~Shifted(x) /\ Becomes(M) /\ lock' = KeepOwn(x)
            /\ Goto(x, Going(ctx[x], "push"))
         \/ /\ Becomes(Sys) /\ lock' = KeepOwn(x)
            /\ Goto(x, Trying(ctx[x]))
  BY DEF push_locked, At, HasBoth, Going, Trying
<1>2. /\ OwnOnly(x, KeepOwn(x)) /\ a \in CPUs /\ c \in CPUs /\ c # a /\ p \in Tasks
  BY <1>0, <1>1, OwnAfter, TwoLocks DEF CtxOK
<1>3. CASE NoLowestRq(x, KeepOwn(x))
  BY <1>1, <1>2, <1>3, NoLowestRqOK
<1>4. CASE /\ ~Shifted(x) /\ Becomes(M) /\ lock' = KeepOwn(x)
           /\ Goto(x, Going(ctx[x], "push"))
  <2>1. /\ Sys.task[p].cpu = a /\ c \in Sys.task[p].cpus_allowed
        /\ Sys.rq[a].curr # p /\ OnRq(Sys, p)
    BY <1>0, <1>4 DEF Shifted
  <2>2. p \in ToSet(Sys.rq[a].queue)
    BY <1>0, <1>2, <2>1, OnRqIs
  <2> DEFINE r == Going(ctx[x], "push")
  <2>3. r \in CtxRecord /\ r.pc = "push" /\ r.rq = a
    BY <1>0, CtxGoes
  <2> HIDE DEF p, a, c
  <2>4. SystemOK(M) /\ OneMoves(Sys, M, p)
    BY <1>0, <1>2, <2>1, <2>2, MigrateMoves
  <2> HIDE DEF M, r
  <2>5. CtxOK(x, r)
    BY <1>2, <2>3 DEF CtxOK, Pulls
  <2>6. \E w \in Tasks : OnRq(Sys, w) /\ Sys.rq[Sys.task[w].cpu].curr # w /\ OneMoves(Sys, M, w)
    BY <1>2, <2>1, <2>4
  <2>7. Becomes(M) /\ lock' = KeepOwn(x) /\ Goto(x, r)
    BY <1>4 DEF r
  <2> QED BY <1>1, <1>2, <2>3, <2>4, <2>5, <2>6, <2>7, MovedOn DEF a
<1>5. CASE Becomes(Sys) /\ lock' = KeepOwn(x) /\ Goto(x, Trying(ctx[x]))
  <2> DEFINE r == Trying(ctx[x])
  <2>1. r \in CtxRecord /\ r.pc = "find" /\ r.rq = a /\ r.task = p
    BY <1>0, CtxTries
  <2>2. Becomes(Sys) /\ lock' = KeepOwn(x) /\ Goto(x, r)
    BY <1>5
  <2> HIDE DEF r
  <2>3. CtxOK(x, r) /\ SamePlaces(Sys, Sys)
    BY <1>2, <2>1 DEF CtxOK, Pulls, SamePlaces
  <2> QED BY <1>0, <1>1, <1>2, <2>1, <2>2, <2>3, MovedOn
<1> QED BY <1>1, <1>3, <1>4, <1>5

\* Who stands where, after a step of a CPU that queues nothing new.
LEMMA PlacesAt ==
  ASSUME NEW X, NEW S, NEW T, SystemOK(S), PlacesOK(X, S), NEW c \in CPUs, Near(S, T, c),
         ToSet(T.rq[c].queue) \subseteq ToSet(S.rq[c].queue),
         T.rq[c].curr \in {other, S.rq[c].curr} \cup ToSet(T.rq[c].queue),
         NEW Y, \A y \in Contexts \ {c} : Y[y] = X[y], Y[c].pc # "queue",
         Y[c].pc \in Pulls \/ T.rq[c].curr = other \/ T.rq[c].curr \in ToSet(T.rq[c].queue)
  PROVE  PlacesOK(Y, T)
<1>1. CPUs \subseteq Contexts /\ Tasks \subseteq Contexts \ {c} /\ other \notin Tasks
  BY RtBalanceConstants DEF Contexts
<1>2. T.task = S.task /\ \A d \in CPUs \ {c} : T.rq[d] = S.rq[d]
  BY DEF Near
<1>3. ASSUME NEW w \in Tasks, Y[w].pc = "queue"
      PROVE  /\ Y[w].rq = T.task[w].cpu /\ T.task[w].cpu \in T.task[w].cpus_allowed
             /\ w \notin ToSet(T.rq[T.task[w].cpu].queue) /\ T.rq[T.task[w].cpu].curr # w
  <2>1. Y[w] = X[w]
    BY <1>1
  <2>2. /\ X[w].rq = S.task[w].cpu /\ S.task[w].cpu \in S.task[w].cpus_allowed
        /\ w \notin ToSet(S.rq[S.task[w].cpu].queue) /\ S.rq[S.task[w].cpu].curr # w
    BY <1>3, <2>1 DEF PlacesOK
  <2>3. S.task[w].cpu \in CPUs
    BY OnRqIs
  <2>4. CASE S.task[w].cpu = c
    BY <1>1, <1>2, <2>1, <2>2, <2>4
  <2>5. CASE S.task[w].cpu # c
    BY <1>2, <2>1, <2>2, <2>3, <2>5
  <2> QED BY <2>4, <2>5
<1>4. ASSUME NEW d \in CPUs, T.rq[d].curr # other, Y[d].pc \notin Pulls
      PROVE  T.rq[d].curr \in ToSet(T.rq[d].queue)
  <2>1. CASE d = c
    BY <1>4, <2>1
  <2>2. CASE d # c
    <3>1. Y[d] = X[d] /\ T.rq[d] = S.rq[d]
      BY <1>1, <1>2, <2>2
    <3> QED BY <1>4, <3>1 DEF PlacesOK
  <2> QED BY <2>1, <2>2
<1> QED BY <1>3, <1>4 DEF PlacesOK

\* The end of __schedule().
LEMMA SwitchOK ==
  ASSUME IInv, NEW c \in CPUs, ctx[c].pc = "pull" \/ (ctx[c].pc = "none" /\ lock[c] = free),
         NEW S, SystemOK(S), Near(Sys, S, c),
         ToSet(S.rq[c].queue) \subseteq ToSet(Sys.rq[c].queue), Switch(c, S)
  PROVE  IInv'
<1> DEFINE N == pick_next_task(S, c)
           r == IF N.rq[c].pushable # <<>> THEN Starting("post", c) ELSE Idle
           Y == [ctx EXCEPT ![c] = r]
<1>0. /\ SystemOK(Sys) /\ LocksOK(ctx, lock) /\ PlacesOK(ctx, Sys) /\ DOMAIN ctx = Contexts
      /\ c \in Contexts /\ CtxOK(c, ctx[c]) /\ lock \in [CPUs -> Contexts \cup {free}] /\ c \in Int
  BY IInvParts, RtBalanceConstants
<1>1. Becomes(N) /\ lock' = [lock EXCEPT ![c] = free] /\ ctx' = Y
  BY DEF Switch, Goto, Starting
<1>2. SystemOK(N) /\ Near(S, N, c)
  BY Picked
<1>3. ToSet(N.rq[c].queue) = ToSet(S.rq[c].queue)
  BY Picked
<1>4. N.rq[c].curr # other => N.rq[c].curr \in ToSet(N.rq[c].queue)
  BY Picked
<1> HIDE DEF N
<1>5. /\ Near(Sys, N, c) /\ ToSet(N.rq[c].queue) \subseteq ToSet(Sys.rq[c].queue)
  BY <1>2, <1>3, NearTwice
<1>6. CtxOK(c, r) /\ r.pc \in {"post", "none"}
  <2>1. CASE r = Idle
    BY <2>1, IdleOK
  <2>2. CASE r = Starting("post", c)
    <3>1. r \in CtxRecord /\ r.pc = "post" /\ r.rq = c
      BY <1>0, <2>2, CtxNew
    <3> HIDE DEF r
    <3> QED BY <3>1 DEF CtxOK, Pulls
  <2> QED BY <2>1, <2>2
<1> HIDE DEF r
<1>7. \A d \in CPUs : ~Owns(r, d)
  BY <1>6 DEF Owns
<1>8. LocksOK(Y, lock')
  <2>1. CASE ctx[c].pc = "pull"
    <3>1. ctx[c].rq = c /\ OwnOnly(c, lock)
      BY <1>0, <2>1, OwnBefore DEF CtxOK, Pulls
    <3>2. LocksOK(Y, Drop(lock, c))
      BY <1>0, <1>6, <1>7, <3>1, Dropped
    <3> QED BY <1>1, <3>1, <3>2 DEF Drop
  <2>2. CASE ctx[c].pc = "none" /\ lock[c] = free
    <3>1. LocksOK(Y, lock)
      BY <1>0, <1>6, <1>7, <2>2, Unlocked
    <3>2. lock' = lock
      BY <1>0, <1>1, <2>2
    <3> QED BY <3>1, <3>2
  <2> QED BY <2>1, <2>2
<1>9. Y[c] = r /\ \A y \in Contexts \ {c} : Y[y] = ctx[y]
  BY <1>0
<1> HIDE DEF Y
<1>10. PlacesOK(Y, N)
  <2>1. N.rq[c].curr = other \/ N.rq[c].curr \in ToSet(N.rq[c].queue)
    BY <1>4
  <2>2. Y[c].pc # "queue" /\ N.rq[c].curr \in {other, Sys.rq[c].curr} \cup ToSet(N.rq[c].queue)
    BY <1>6, <1>9, <2>1
  <2> QED BY <1>0, <1>5, <1>9, <2>1, <2>2, PlacesAt
<1>11. LocksOK(ctx', lock') /\ PlacesOK(ctx', N)
  BY <1>1, <1>8, <1>10
<1> QED BY <1>1, <1>2, <1>11, BecomesTo

\* __schedule() up to the pull.
LEMMA StepSchedule ==
  ASSUME IInv, NEW c \in CPUs, schedule(c)
  PROVE  IInv'
<1>0. /\ SystemOK(Sys) /\ LocksOK(ctx, lock) /\ PlacesOK(ctx, Sys) /\ DOMAIN ctx = Contexts
      /\ c \in Contexts /\ CtxOK(c, ctx[c]) /\ Sys.rq = rq /\ c \in Int
  BY IInvParts, RtBalanceConstants
<1>1. ctx[c].pc = "none" /\ lock[c] = free
  BY DEF schedule, At
<1>2. PICK S \in (IF rq[c].need_resched THEN {Sys} ELSE {})
                 \cup (IF rq[c].curr # other THEN {dequeue_task_rt(Sys, c, rq[c].curr)} ELSE {}) :
        \/ /\ Becomes(S) /\ lock' = [lock EXCEPT ![c] = c]
           /\ Goto(c, Pulling(c))
        \/ Switch(c, S)
  BY DEF schedule, Pulling
<1>3. /\ SystemOK(S) /\ Near(Sys, S, c) /\ S.rq[c].curr = Sys.rq[c].curr
      /\ ToSet(S.rq[c].queue) \subseteq ToSet(Sys.rq[c].queue)
  <2>1. CASE S = Sys
    BY <1>0, <2>1 DEF SystemOK, Near
  <2>2. CASE rq[c].curr # other /\ S = dequeue_task_rt(Sys, c, rq[c].curr)
    <3> DEFINE p == rq[c].curr
               T == dequeue_task_rt(Sys, c, p)
    <3>1. p \in ToSet(Sys.rq[c].queue)
      BY <1>0, <1>1, <2>2 DEF PlacesOK, Pulls
    <3> HIDE DEF p
    <3>2. SystemOK(T) /\ Near(Sys, T, c) /\ T.rq[c].curr = Sys.rq[c].curr
      BY <1>0, <3>1, Slept
    <3>3. ToSet(T.rq[c].queue) = ToSet(Sys.rq[c].queue) \ {p}
      BY <1>0, <3>1, Slept
    <3>4. S = T
      BY <2>2 DEF p
    <3> HIDE DEF T
    <3> QED BY <3>2, <3>3, <3>4
  <2> QED BY <1>2, <2>1, <2>2
<1>4. CASE Switch(c, S)
  BY <1>1, <1>3, <1>4, SwitchOK
<1>5. CASE Becomes(S) /\ lock' = [lock EXCEPT ![c] = c] /\ Goto(c, Pulling(c))
  <2> DEFINE r == Pulling(c)
             Y == [ctx EXCEPT ![c] = r]
  <2>1. r \in CtxRecord /\ r.pc = "pull" /\ r.rq = c
    BY <1>0, CtxPull
  <2>2. ctx' = Y
    BY <1>5 DEF Goto
  <2> HIDE DEF r
  <2>3. CtxOK(c, r) /\ r.pc \in Pulls
    BY <2>1 DEF CtxOK, Pulls
  <2>4. LocksOK(Y, [lock EXCEPT ![c] = c])
    BY <1>0, <1>1, <2>1, <2>3, Took
  <2>5. Y[c] = r /\ \A y \in Contexts \ {c} : Y[y] = ctx[y]
    BY <1>0
  <2> HIDE DEF Y
  <2>6. Y[c].pc # "queue" /\ Y[c].pc \in Pulls
        /\ S.rq[c].curr \in {other, Sys.rq[c].curr} \cup ToSet(S.rq[c].queue)
    BY <1>3, <2>1, <2>3, <2>5
  <2>7. PlacesOK(Y, S)
    BY <1>0, <1>3, <2>5, <2>6, PlacesAt
  <2>8. LocksOK(ctx', lock') /\ PlacesOK(ctx', S)
    BY <1>5, <2>2, <2>4, <2>7
  <2> QED BY <1>3, <1>5, <2>8, BecomesTo
<1> QED BY <1>2, <1>4, <1>5

\* The loop of pull_rt_task.
LEMMA StepPull ==
  ASSUME IInv, NEW c \in CPUs, pull_rt_task(c)
  PROVE  IInv'
<1> DEFINE left == {d \in rd.rto_mask \ {c} : d > ctx[c].target}
           d == CHOOSE e \in left : \A f \in left : e <= f
           r == Scanning(ctx[c], d)
<1>0. /\ SystemOK(Sys) /\ LocksOK(ctx, lock) /\ PlacesOK(ctx, Sys) /\ DOMAIN ctx = Contexts
      /\ c \in Contexts /\ CtxOK(c, ctx[c]) /\ ctx[c] \in CtxRecord /\ Sys.rd = rd
  BY IInvParts DEF CtxOK
<1>1. ctx[c].pc = "pull" /\ ctx[c].rq = c
  BY <1>0 DEF pull_rt_task, At, CtxOK, Pulls
<1>2. \/ Switch(c, Sys)
      \/ /\ left # {} /\ UNCHANGED <<rq, rd, task, widened>>
         /\ (Goto(c, r) /\ UNCHANGED lock) \/ Balance(c, "pull_lock", d)
  BY DEF pull_rt_task, Scanning
<1>3. rd.rto_mask \subseteq CPUs
  BY <1>0, Parts DEF SystemOK
<1>4. ASSUME left # {} PROVE d \in CPUs /\ d # c
  <2>1. left \subseteq Nat
    BY <1>3, RtBalanceConstants
  <2>2. \E e \in left : \A f \in left : e <= f
    <3> HIDE DEF left
    <3> QED BY <1>4, <2>1, LeastNat
  <2>3. d \in left
    <3> HIDE DEF left
    <3> QED BY <2>2
  <2> HIDE DEF d
  <2> QED BY <1>3, <2>3
<1> HIDE DEF left, d
<1>5. CASE Switch(c, Sys)
  <2>1. Near(Sys, Sys, c)
    BY <1>0 DEF SystemOK, Near
  <2> QED BY <1>0, <1>1, <1>5, <2>1, SwitchOK
<1>6. CASE /\ left # {} /\ UNCHANGED <<rq, rd, task, widened>>
           /\ Goto(c, r) /\ UNCHANGED lock
  <2>1. d \in Int
    <3>1. d \in CPUs
      BY <1>4, <1>6
    <3> QED BY <3>1, RtBalanceConstants
  <2>2. r \in CtxRecord /\ r.pc = "pull" /\ r.rq = c
    BY <1>0, <1>1, <2>1, CtxScans
  <2> HIDE DEF r
  <2>3. CtxOK(c, r) /\ r.pc \in Pulls /\ r.pc # "queue"
    BY <2>2 DEF CtxOK, Pulls
  <2>4. OwnOnly(c, lock) /\ SamePlaces(Sys, Sys)
    BY <1>0, <1>1, OwnBefore DEF SamePlaces
  <2>5. LocksOK([ctx EXCEPT ![c] = r], lock)
    BY <1>0, <1>1, <2>2, <2>3, <2>4, Kept
  <2>6. PlacesOK([ctx EXCEPT ![c] = r], Sys)
    BY <1>0, <2>3, <2>4, PlacesKept
  <2>7. LocksOK(ctx', lock') /\ PlacesOK(ctx', Sys)
    BY <1>6, <2>5, <2>6 DEF Goto
  <2> QED BY <1>6, <2>7, SysKept
<1>7. CASE left # {} /\ UNCHANGED <<rq, rd, task, widened>> /\ Balance(c, "pull_lock", d)
  <2>1. d \in CPUs /\ d # ctx[c].rq
    BY <1>1, <1>4, <1>7
  <2> QED BY <1>0, <1>1, <1>7, <2>1, BalanceOK
<1> QED BY <1>2, <1>5, <1>6, <1>7

\* The task that pick_next_highest_task_rt finds waits and may move.
LEMMA HighestWaits ==
  ASSUME NEW src, rq[src].queue \in Seq(Tasks), NEW c, pick_next_highest_task_rt(src, c) # 0
  PROVE  LET p == rq[src].queue[pick_next_highest_task_rt(src, c)]
         IN  p \in ToSet(rq[src].queue) /\ rq[src].curr # p /\ c \in task[p].cpus_allowed
<1> DEFINE s == rq[src].queue
           at == pick_next_highest_task_rt(src, c)
           fits == {i \in 1 .. Len(s) : rq[src].curr # s[i] /\ c \in task[s[i]].cpus_allowed
                                        /\ Migratory(Sys, s[i])}
<1>1. at = IF fits # {} THEN Min(fits) ELSE 0
  BY DEF pick_next_highest_task_rt, SelectInSeq
<1>2. fits \subseteq Nat /\ fits \subseteq 1 .. Len(s)
  OBVIOUS
<1>3. fits # {}
  BY <1>1
<1>4. at \in fits
  <2> HIDE DEF fits, at
  <2>1. \E m \in fits : \A k \in fits : m <= k
    BY <1>2, <1>3, LeastNat
  <2> QED BY <1>1, <1>3, <2>1 DEF Min
<1> HIDE DEF at
<1>5. at \in 1 .. Len(s) /\ rq[src].curr # s[at] /\ c \in task[s[at]].cpus_allowed
  BY <1>4
<1>6. s[at] \in ToSet(s)
  BY <1>5 DEF ToSet
<1> QED BY <1>5, <1>6 DEF at

\* The body of the loop, with both locks.
LEMMA StepPulled ==
  ASSUME IInv, NEW c \in CPUs, pull_locked(c)
  PROVE  IInv'
<1> DEFINE src == ctx[c].target
           at == pick_next_highest_task_rt(src, c)
           p == rq[src].queue[at]
           S == IF /\ Len(rq[src].queue) > 1 /\ at # 0
                   /\ Prio[p] < rq[c].highest /\ Prio[p] >= CurrPrio(Sys, src)
                THEN Migrate(Sys, p, src, c) ELSE Sys
           r == Going(ctx[c], "pull")
<1>0. /\ SystemOK(Sys) /\ LocksOK(ctx, lock) /\ c \in Contexts /\ CtxOK(c, ctx[c])
      /\ ctx[c] \in CtxRecord /\ Sys.rq = rq /\ Sys.task = task
  BY IInvParts DEF CtxOK
<1>1. /\ ctx[c].pc = "pull_lock" /\ HasBoth(c) /\ Locking(c) /\ ctx[c].rq = c
      /\ Becomes(S) /\ lock' = KeepOwn(c) /\ Goto(c, r)
  BY <1>0 DEF pull_locked, At, HasBoth, Going, CtxOK, Pulls
<1>2. OwnOnly(c, KeepOwn(c)) /\ src \in CPUs /\ src # c
  BY <1>0, <1>1, OwnAfter, TwoLocks
<1>3. r \in CtxRecord /\ r.pc = "pull" /\ r.rq = c
  <2>1. "pull" \in {"queue", "push", "find", "push_lock", "post"} \cup Pulls
    BY DEF Pulls
  <2> QED BY <1>0, <1>1, <2>1, CtxGoes
<1> HIDE DEF r
<1>4. CtxOK(c, r)
  BY <1>3 DEF CtxOK, Pulls
<1>5. \/ S = Sys
      \/ at # 0 /\ S = Migrate(Sys, p, src, c)
  OBVIOUS
<1> HIDE DEF S, src
<1>6. SystemOK(S) /\ \/ SamePlaces(Sys, S)
                     \/ \E w \in Tasks : OnRq(Sys, w) /\ Sys.rq[Sys.task[w].cpu].curr # w
                                         /\ OneMoves(Sys, S, w)
  <2>1. CASE S = Sys
    BY <1>0, <2>1 DEF SamePlaces
  <2>2. CASE at # 0 /\ S = Migrate(Sys, p, src, c)
    <3>1. rq[src].queue \in Seq(Tasks)
      BY <1>0, <1>2 DEF SystemOK, CpuOK, SortedList
    <3>2. /\ p \in ToSet(Sys.rq[src].queue) /\ Sys.rq[src].curr # p
          /\ c \in Sys.task[p].cpus_allowed
      BY <1>0, <2>2, <3>1, HighestWaits
    <3>3. p \in Tasks
      BY <1>0, <1>2, <3>2, FirstLeast DEF SystemOK, CpuOK
    <3> HIDE DEF p, at
    <3>4. SystemOK(S) /\ OneMoves(Sys, S, p)
      BY <1>0, <1>2, <2>2, <3>2, MigrateMoves
    <3>5. Sys.task[p].cpu = src /\ OnRq(Sys, p)
      BY <1>0, <1>2, <3>2, <3>3, OnRqIs
    <3> QED BY <3>2, <3>3, <3>4, <3>5
  <2> QED BY <1>5, <2>1, <2>2
<1>7. r.rq = ctx[c].rq /\ r.pc = "pull"
  BY <1>1, <1>3
<1> QED BY <1>0, <1>1, <1>2, <1>4, <1>6, <1>7, MovedOn

\* post_schedule
LEMMA StepPost ==
  ASSUME IInv, NEW c \in CPUs, post_schedule(c)
  PROVE  IInv'
<1> DEFINE r == Going(ctx[c], "push")
<1>0. /\ SystemOK(Sys) /\ LocksOK(ctx, lock) /\ PlacesOK(ctx, Sys) /\ DOMAIN ctx = Contexts
      /\ c \in Contexts /\ CtxOK(c, ctx[c]) /\ ctx[c] \in CtxRecord
  BY IInvParts DEF CtxOK
<1>1. /\ ctx[c].pc = "post" /\ lock[c] = free /\ ctx[c].rq = c
      /\ UNCHANGED <<rq, rd, task, widened>>
      /\ \/ Goto(c, Idle) /\ UNCHANGED lock
         \/ Goto(c, r) /\ lock' = [lock EXCEPT ![c] = c]
  BY <1>0 DEF post_schedule, At, CtxOK, Going
<1>2. SamePlaces(Sys, Sys) /\ ctx[c].pc \notin Pulls
  BY <1>1 DEF SamePlaces, Pulls
<1>3. CASE Goto(c, Idle) /\ UNCHANGED lock
  <2>1. LocksOK([ctx EXCEPT ![c] = Idle], lock)
    BY <1>0, <1>1, IdleOK, Unlocked
  <2>2. PlacesOK([ctx EXCEPT ![c] = Idle], Sys)
    BY <1>0, <1>2, IdleOK, PlacesKept
  <2>3. LocksOK(ctx', lock') /\ PlacesOK(ctx', Sys)
    BY <1>3, <2>1, <2>2 DEF Goto
  <2> QED BY <1>1, <2>3, SysKept
<1>4. CASE Goto(c, r) /\ lock' = [lock EXCEPT ![c] = c]
  <2>1. r \in CtxRecord /\ r.pc = "push" /\ r.rq = c
    BY <1>0, <1>1, CtxGoes
  <2> HIDE DEF r
  <2>2. CtxOK(c, r) /\ r.pc # "queue"
    BY <2>1 DEF CtxOK, Pulls
  <2>3. LocksOK([ctx EXCEPT ![c] = r], [lock EXCEPT ![c] = c])
    BY <1>0, <1>1, <2>1, <2>2, Took
  <2>4. PlacesOK([ctx EXCEPT ![c] = r], Sys)
    BY <1>0, <1>2, <2>2, PlacesKept
  <2>5. LocksOK(ctx', lock') /\ PlacesOK(ctx', Sys)
    BY <1>4, <2>3, <2>4 DEF Goto
  <2> QED BY <1>1, <2>5, SysKept
<1> QED BY <1>1, <1>3, <1>4

\* set_cpus_allowed_ptr
LEMMA StepAffinity ==
  ASSUME IInv, NEW p \in Tasks, NEW mask \in Masks, set_cpus_allowed_ptr(p, mask)
  PROVE  IInv'
<1> DEFINE T == [set_cpus_allowed_rt(Sys, p, mask) EXCEPT !.task[p].cpus_allowed = mask]
<1>0. /\ SystemOK(Sys) /\ LocksOK(ctx, lock) /\ PlacesOK(ctx, Sys) /\ Sys.task = task
  BY IInvParts
<1>1. /\ ctx[p].pc = "none" /\ (OnRq(Sys, p) => Sys.task[p].cpu \in mask) /\ Sets(T)
      /\ UNCHANGED <<lock, ctx>> /\ (widened' = widened \cup {p} \/ widened' = widened)
  BY <1>0 DEF set_cpus_allowed_ptr, At
<1>2. /\ SystemOK(T)
      /\ \A d \in CPUs : T.rq[d].queue = Sys.rq[d].queue /\ T.rq[d].curr = Sys.rq[d].curr
      /\ \A x \in Tasks \ {p} : T.task[x] = Sys.task[x]
  BY <1>0, <1>1, Affinity
<1> HIDE DEF T
<1>3. ASSUME NEW w \in Tasks, ctx[w].pc = "queue"
      PROVE  /\ ctx[w].rq = T.task[w].cpu /\ T.task[w].cpu \in T.task[w].cpus_allowed
             /\ w \notin ToSet(T.rq[T.task[w].cpu].queue) /\ T.rq[T.task[w].cpu].curr # w
  <2>1. T.task[w] = Sys.task[w] /\ Sys.task[w].cpu \in CPUs
    BY <1>0, <1>1, <1>2, <1>3, OnRqIs
  <2>2. /\ ctx[w].rq = Sys.task[w].cpu /\ Sys.task[w].cpu \in Sys.task[w].cpus_allowed
        /\ w \notin ToSet(Sys.rq[Sys.task[w].cpu].queue) /\ Sys.rq[Sys.task[w].cpu].curr # w
    BY <1>0, <1>3 DEF PlacesOK
  <2> QED BY <1>2, <2>1, <2>2
<1>4. PlacesOK(ctx, T)
  BY <1>0, <1>2, <1>3 DEF PlacesOK
<1>5. LocksOK(ctx', lock') /\ PlacesOK(ctx', T) /\ widened' \subseteq Tasks
  BY <1>0, <1>1, <1>4 DEF IInv
<1> QED BY <1>1, <1>2, <1>5, StepTo

-----------------------------------------------------------------------------
(* The invariant. *)

\* The state in which every run queue is empty.
LEMMA StartOK ==
  ASSUME Init
  PROVE  IInv
<1> DEFINE r == [queue |-> <<>>, pushable |-> <<>>, highest |-> MAX_RT_PRIO,
                 next |-> MAX_RT_PRIO, total |-> 0, migratory |-> 0,
                 overloaded |-> FALSE, curr |-> other, need_resched |-> FALSE]
           first == CHOOSE c \in CPUs : \A d \in CPUs : c <= d
<1>0. /\ rq = [c \in CPUs |-> r]
      /\ rd = [rto_mask |-> {}, rto_count |-> 0, cpupri |-> [c \in CPUs |-> MAX_RT_PRIO]]
      /\ task \in [Tasks -> [cpu : {first}, cpus_allowed : {CPUs}]]
      /\ lock = [c \in CPUs |-> free] /\ ctx = [x \in Contexts |-> Idle] /\ widened = {}
  BY DEF Init
<1>1. first \in CPUs
  <2>1. \E c \in CPUs : \A d \in CPUs : c <= d
    BY LeastNat, RtBalanceConstants
  <2> QED BY <2>1
<1> HIDE DEF first
<1>2. MAX_RT_PRIO \in Prios /\ CPUs \in Masks
  BY RtBalanceConstants DEF Prios
<1>3. /\ r \in RunQueue /\ r.queue = <<>> /\ r.pushable = <<>> /\ r.highest = MAX_RT_PRIO
      /\ r.next = MAX_RT_PRIO /\ r.total = 0 /\ r.migratory = 0 /\ r.overloaded = FALSE
      /\ r.curr = other
  BY <1>2 DEF RunQueue
<1> HIDE DEF r
<1>4. \A c \in CPUs : rq[c] = r
  BY <1>0
<1>5. Sys.rq = rq /\ Sys.rd = rd /\ Sys.task = task
  BY DEF Sys
<1>6. rd \in RootDomain /\ rd.rto_mask = {} /\ rd.rto_count = 0
      /\ \A c \in CPUs : rd.cpupri[c] = MAX_RT_PRIO
  BY <1>0, <1>2 DEF RootDomain
<1>7. task \in [Tasks -> TaskRecord]
  BY <1>0, <1>1, <1>2 DEF TaskRecord
<1>8. Sys \in System
  <2>1. rq \in [CPUs -> RunQueue]
    BY <1>0, <1>3
  <2> QED BY <2>1, <1>6, <1>7 DEF Sys, System
<1>9. ToSet(<<>>) = {} /\ SortedList(<<>>) /\ FirstPrio(<<>>) = MAX_RT_PRIO /\ Cardinality({}) = 0
  <2>1. ToSet(<<>>) = {} /\ FirstPrio(<<>>) = MAX_RT_PRIO
    BY DEF ToSet, FirstPrio
  <2>2. SortedList(<<>>)
    BY DEF SortedList
  <2> QED BY <2>1, <2>2, FS_EmptySet
<1>10. ASSUME NEW c \in CPUs PROVE CpuOK(Sys, c)
  <2>1. Sys.rq[c] = r
    BY <1>4, <1>5
  <2>2. PushOK(r, Mobile(Sys.task))
    BY <1>3, <1>9 DEF PushOK
  <2>3. CountsOK(r, Mobile(Sys.task))
    <3>1. ToSet(r.queue) \cap Mobile(Sys.task) = {}
      BY <1>3, <1>9
    <3> QED BY <1>3, <1>9, <3>1 DEF CountsOK
  <2>4. r.overloaded = Overloaded(r)
    <3>1. ~(r.migratory > 0)
      BY <1>3
    <3>2. Overloaded(r) = FALSE
      BY <3>1 DEF Overloaded
    <3> QED BY <1>3, <3>2
  <2>5. KnownOK(Sys, c)
    BY <1>3, <1>5, <1>6, <1>9, <2>1 DEF KnownOK
  <2> QED BY <1>3, <1>9, <2>1, <2>2, <2>3, <2>4, <2>5 DEF CpuOK
<1>11. HomeOK(Sys)
  BY <1>3, <1>4, <1>5, <1>9 DEF HomeOK
<1>12. SystemOK(Sys)
  BY <1>5, <1>6, <1>8, <1>9, <1>10, <1>11 DEF SystemOK
<1>13. LocksOK(ctx, lock)
  <2>1. free \notin Contexts
    BY RtBalanceConstants DEF Contexts, free
  <2>2. \A x \in Contexts : ctx[x] = Idle
    BY <1>0
  <2>3. \A x \in Contexts : CtxOK(x, ctx[x]) /\ \A c \in CPUs : ~Owns(ctx[x], c)
    BY <2>2, IdleOK
  <2>4. lock \in [CPUs -> Contexts \cup {free}] /\ \A c \in CPUs : lock[c] = free
    BY <1>0
  <2>5. DOMAIN ctx = Contexts
    BY <1>0
  <2> QED BY <2>1, <2>3, <2>4, <2>5 DEF LocksOK
<1>14. PlacesOK(ctx, Sys)
  <2>1. \A p \in Tasks : ctx[p].pc = "none"
    BY <1>0, IdleOK DEF Contexts
  <2> QED BY <1>3, <1>4, <1>5, <2>1 DEF PlacesOK
<1> QED BY <1>0, <1>12, <1>13, <1>14 DEF IInv

\* Every step keeps the invariant.
LEMMA StepKeeps ==
  ASSUME IInv, [Next]_vars
  PROVE  IInv'
<1>1. CASE UNCHANGED vars
  <2>1. Sets(Sys) /\ SystemOK(Sys) /\ widened' = widened /\ ctx' = ctx /\ lock' = lock
    BY <1>1 DEF vars, Sets, Sys, IInv
  <2> QED BY <2>1, StepTo DEF IInv
<1>2. ASSUME NEW p \in Tasks, try_to_wake_up(p) \/ ttwu_queue(p)
      PROVE  IInv'
  BY <1>2, StepWake, StepQueue
<1>3. ASSUME NEW x \in Contexts, double_rq_lock(x) \/ Push(x)
      PROVE  IInv'
  BY <1>3, StepLock, StepPush, StepFind, StepPushed DEF Push
<1>4. ASSUME NEW c \in CPUs, schedule(c) \/ pull_rt_task(c) \/ pull_locked(c) \/ post_schedule(c)
      PROVE  IInv'
  BY <1>4, StepSchedule, StepPull, StepPulled, StepPost
<1>5. ASSUME NEW p \in Tasks, NEW mask \in Masks, set_cpus_allowed_ptr(p, mask)
      PROVE  IInv'
  BY <1>5, StepAffinity
<1> QED BY <1>1, <1>2, <1>3, <1>4, <1>5 DEF Next

\* The invariant, in every reachable state: the state of every run queue, the marks of
\* the root domain, the places of the tasks and the holders of the locks agree.
THEOREM InvariantHolds == Spec => []IInv
<1>1. Init => IInv
  BY StartOK
<1>2. IInv /\ [Next]_vars => IInv'
  BY StepKeeps
<1> QED BY <1>1, <1>2, PTL DEF Spec

-----------------------------------------------------------------------------
(* What follows. *)

\* A task that is queued on a CPU or runs there belongs to it.
LEMMA AtHome ==
  ASSUME IInv
  PROVE  RunsAtHome
<1>0. SystemOK(Sys) /\ HomeOK(Sys) /\ Sys.rq = rq /\ Sys.task = task
  BY IInvParts DEF SystemOK
<1>1. ASSUME NEW c \in CPUs, rq[c].curr # other
      PROVE  /\ task[rq[c].curr].cpu = c
             /\ \A d \in CPUs \ {c} : ~Contains(rq[d].queue, rq[c].curr) /\ rq[d].curr # rq[c].curr
  <2> DEFINE p == rq[c].curr
  <2>1. task[p].cpu = c
    BY <1>0, <1>1 DEF HomeOK
  <2>2. p \in Tasks
    <3>1. rq[c] \in RunQueue
      BY <1>0, Parts DEF SystemOK
    <3> QED BY <1>1, <3>1 DEF RunQueue
  <2> HIDE DEF p
  <2>3. p # other
    BY <1>1 DEF p
  <2>4. ASSUME NEW d \in CPUs \ {c} PROVE ~Contains(rq[d].queue, p) /\ rq[d].curr # p
    <3>1. p \notin ToSet(rq[d].queue) /\ rq[d].curr # p
      BY <1>0, <2>1, <2>3, OnePlace
    <3>2. DOMAIN rq[d].queue = 1 .. Len(rq[d].queue)
      BY <1>0 DEF SystemOK, CpuOK, SortedList
    <3> QED BY <3>1, <3>2 DEF Contains, ToSet
  <2> QED BY <2>1, <2>4 DEF p
<1>2. ASSUME NEW p \in Tasks, OnRq(Sys, p)
      PROVE  task[p].cpu \in task[p].cpus_allowed
  <2>1. Sys.task[p].cpu \in CPUs /\ p \in ToSet(Sys.rq[Sys.task[p].cpu].queue)
    BY <1>0, <1>2, OnRqIs
  <2> QED BY <1>0, <2>1 DEF HomeOK
<1> QED BY <1>1, <1>2 DEF RunsAtHome

\* A task runs on at most one CPU, its own, and is queued only where it may run: the
\* checks find_lock_lowest_rq and pull_rt_task make after they dropped a lock are enough,
\* for any number of CPUs and tasks.
THEOREM RunAtHome == Spec => []RunsAtHome
BY InvariantHolds, AtHome, PTL

\* What other CPUs read of a run queue.
LEMMA Told ==
  ASSUME IInv
  PROVE  DomainKnows
<1>0. /\ SystemOK(Sys) /\ Sys.rq = rq /\ Sys.task = task /\ Sys.rd = rd /\ widened \subseteq Tasks
      /\ lock \in [CPUs -> Contexts \cup {free}]
  BY IInvParts DEF IInv
<1>1. ASSUME NEW c \in CPUs
      PROVE  /\ rq[c] \in RunQueue /\ rq[c].total = Len(rq[c].queue)
             /\ rq[c].migratory = Cardinality(ToSet(rq[c].queue) \cap Mobile(task))
             /\ PushOK(rq[c], Mobile(task)) /\ KnownOK(Sys, c) /\ SortedList(rq[c].queue)
             /\ rq[c].overloaded = Overloaded(rq[c]) /\ rd.cpupri[c] \in Prios
  BY <1>0, Parts DEF SystemOK, CpuOK, CountsOK
<1>2. ASSUME NEW c \in CPUs
      PROVE  /\ IsFiniteSet(ToSet(rq[c].queue) \cap Mobile(task))
             /\ rq[c].migratory \in Nat /\ rq[c].total \in Nat /\ ToSet(rq[c].queue) \subseteq Tasks
  <2>1. /\ IsFiniteSet(ToSet(rq[c].queue) \cap Mobile(task)) /\ ToSet(rq[c].queue) \subseteq Tasks
        /\ Cardinality(ToSet(rq[c].queue) \cap Mobile(task)) \in Nat
    BY <1>1, QueuedFinite
  <2>2. Len(rq[c].queue) \in Nat
    BY <1>1 DEF SortedList
  <2> QED BY <1>1, <2>1, <2>2
<1>3. /\ rd.rto_mask \subseteq CPUs /\ IsFiniteSet(rd.rto_mask)
      /\ rd.rto_count = Cardinality(rd.rto_mask) /\ rd.rto_count \in Nat
  <2>1. Sys \in System /\ CPUs # {} /\ rd.rto_count = Cardinality(rd.rto_mask)
    BY <1>0, RtBalanceConstants DEF SystemOK
  <2>2. rd.rto_mask \subseteq CPUs /\ IsFiniteSet(rd.rto_mask)
    BY <1>0, <2>1, Parts
  <2> QED BY <2>1, <2>2, FS_CardinalityType
<1>4. TypeOK
  <2>1. ASSUME NEW c \in CPUs
        PROVE  /\ rq[c].queue \in Seq(Tasks) /\ rq[c].pushable \in Seq(Tasks)
               /\ rq[c].highest \in 0 .. MAX_RT_PRIO /\ rq[c].next \in 0 .. MAX_RT_PRIO
               /\ rq[c].total \in Nat /\ rq[c].migratory \in Nat /\ rq[c].overloaded \in BOOLEAN
               /\ rq[c].curr \in Tasks \cup {other} /\ rq[c].need_resched \in BOOLEAN
               /\ rd.cpupri[c] \in 0 .. MAX_RT_PRIO
               /\ lock[c] \in Contexts \cup {free}
    <3>1. /\ rq[c].queue \in Seq(Tasks) /\ rq[c].pushable \in Seq(Tasks)
          /\ rq[c].highest \in Prios /\ rq[c].next \in Prios /\ rq[c].overloaded \in BOOLEAN
          /\ rq[c].curr \in Tasks \cup {other} /\ rq[c].need_resched \in BOOLEAN
      BY <1>1 DEF RunQueue
    <3> QED BY <1>0, <1>1, <1>2, <3>1 DEF Prios
  <2>2. \A p \in Tasks : task[p].cpu \in CPUs /\ task[p].cpus_allowed \in Masks
    BY <1>0 DEF SystemOK, System, TaskRecord
  <2> QED BY <1>0, <1>3, <2>1, <2>2 DEF TypeOK
<1>5. \A p \in Tasks : Migratory(Sys, p) <=> p \in Mobile(task)
  BY <1>0 DEF Migratory, Mobile
<1>6. PushableEligible
  <2> SUFFICES ASSUME NEW c \in CPUs
               PROVE  /\ ToSet(rq[c].pushable)
                           = {p \in ToSet(rq[c].queue) : rq[c].curr # p /\ Migratory(Sys, p)}
                      /\ rq[c].next = FirstPrio(rq[c].pushable)
    BY DEF PushableEligible
  <2>1. /\ ToSet(rq[c].pushable) = {p \in ToSet(rq[c].queue) : rq[c].curr # p /\ p \in Mobile(task)}
        /\ rq[c].next = FirstPrio(rq[c].pushable)
    BY <1>1 DEF PushOK
  <2>2. ToSet(rq[c].queue) \subseteq Tasks
    BY <1>2
  <2> QED BY <1>5, <2>1, <2>2
<1>7. ASSUME NEW c \in CPUs
      PROVE  c \in rd.rto_mask <=> /\ Len(rq[c].queue) > 1
                                   /\ \E p \in ToSet(rq[c].queue) : Migratory(Sys, p)
  <2> DEFINE X == ToSet(rq[c].queue) \cap Mobile(task)
  <2>1. c \in rd.rto_mask <=> rq[c].migratory > 0 /\ rq[c].total > 1
    BY <1>0, <1>1 DEF KnownOK, Overloaded
  <2>2. IsFiniteSet(X) /\ rq[c].migratory = Cardinality(X) /\ rq[c].total = Len(rq[c].queue)
    BY <1>1, <1>2
  <2>3. X # {} <=> \E p \in ToSet(rq[c].queue) : Migratory(Sys, p)
    BY <1>2, <1>5
  <2> HIDE DEF X
  <2>4. Cardinality(X) > 0 <=> X # {}
    <3>1. Cardinality(X) \in Nat /\ (Cardinality(X) = 0 <=> X = {})
      BY <2>2, FS_CardinalityType, FS_EmptySet
    <3> QED BY <3>1
  <2> QED BY <2>1, <2>2, <2>3, <2>4
<1>8. rd.rto_mask = {c \in CPUs : /\ Len(rq[c].queue) > 1
                                  /\ \E p \in ToSet(rq[c].queue) : Migratory(Sys, p)}
  BY <1>3, <1>7
<1>9. \A c \in CPUs : rd.cpupri[c] = FirstPrio(rq[c].queue)
  BY <1>0, <1>1 DEF KnownOK
<1> QED BY <1>3, <1>4, <1>6, <1>8, <1>9 DEF DomainKnows

\* What pull, push and cpupri read of another CPU is true of it whenever no step is half
\* done: its next priority, its mark and the count of the marks, its priority in cpupri;
\* the list of pushable tasks is the one the BUG_ONs of pick_next_pushable_task ask for.
THEOREM DomainTold == Spec => []DomainKnows
BY InvariantHolds, Told, PTL

\* The lock that a context inside double_rq_lock waits for.
Wanted(x) == IF lock[FirstLock(x)] = x THEN SecondLock(x) ELSE FirstLock(x)

\* Every lock that such a context holds comes before the one it waits for (the others that
\* wait for a lock, at "queue", "post" and "none", hold none).  A circle of contexts, of
\* any size, in which each waits for a lock of the next would have to ascend for ever.
LocksAscend ==
  \A x \in Contexts, c \in CPUs : Locking(x) /\ lock[c] = x => c < Wanted(x)

\* double_rq_lock orders the locks.
LEMMA Ascending ==
  ASSUME IInv
  PROVE  LocksAscend
<1> SUFFICES ASSUME NEW x \in Contexts, NEW c \in CPUs, Locking(x), lock[c] = x
             PROVE  c < Wanted(x)
  BY DEF LocksAscend
<1>1. c = FirstLock(x) /\ FirstLock(x) < SecondLock(x)
  BY IInvParts, TwoLocks
<1> QED BY <1>1 DEF Wanted

\* With the locks in order, no two contexts wait for each other.
LEMMA NoPair ==
  ASSUME LocksAscend
  PROVE  NoCircularWait
<1> SUFFICES ASSUME NEW x \in Contexts, NEW y \in Contexts, NEW c \in CPUs, NEW d \in CPUs,
                    Locking(x), lock[c] = x, lock[FirstLock(x)] = x, SecondLock(x) = d,
                    Locking(y), lock[d] = y, lock[FirstLock(y)] = y, SecondLock(y) = c
             PROVE  FALSE
  BY DEF NoCircularWait
<1>1. Wanted(x) = d /\ Wanted(y) = c
  BY DEF Wanted
<1>2. c < d /\ d < c
  BY <1>1 DEF LocksAscend
<1>3. c \in Nat /\ d \in Nat
  BY RtBalanceConstants
<1> QED BY <1>2, <1>3

\* Every context takes the locks of two run queues in the order of their addresses and
\* holds no other meanwhile: no circle of waiting contexts, whatever its length.
THEOREM LocksInOrder == Spec => []LocksAscend
BY InvariantHolds, Ascending, PTL

\* No two contexts that hold one run queue's lock wait for each other's.
THEOREM NoDeadlockedPair == Spec => []NoCircularWait
BY InvariantHolds, Ascending, NoPair, PTL

=============================================================================
