---------------------------- MODULE CpuTimeProofs ----------------------------
(***************************************************************************)
(* Proofs about CpuTime, for any tasks, groups, ticks and interleavings of *)
(* the readers: every tick and every unit of the clock is charged once,    *)
(* and the reported times neither exceed the time run nor go back.         *)
(***************************************************************************)
EXTENDS CpuTime, SumProofs

Threads == Tasks \cup {Idle}
Acct == [utime : [Threads -> Nat], stime : [Threads -> Nat], gtime : [Threads -> Nat],
         sum_exec_runtime : [Threads -> Nat], cpustat : [Groups -> [Fields -> Nat]],
         cpuusage : [Groups -> Nat]]
TaskRec == [nice : BOOLEAN, in_iowait : BOOLEAN, ca : Groups]

-----------------------------------------------------------------------------
(* The accounting groups. *)

\* The accounting groups are a tree: every live one but the root has a live parent
\* nearer to the root.
TreeOK ==
  /\ tree \in [Groups -> Groups \cup {NoGroup}] /\ tree[RootCa] = NoGroup
  /\ \A g \in Live \ {RootCa} : tree[g] \in Live
  /\ \E depth \in [Groups -> Nat] : \A g \in Live \ {RootCa} : depth[tree[g]] < depth[g]

IsPath(p) == p = [x \in Live |-> IF x = RootCa THEN {x} ELSE {x} \cup p[tree[x]]]

\* The groups above each one can be collected.
LEMMA PathExists ==
  ASSUME TreeOK
  PROVE  \E p : IsPath(p)
<1> DEFINE Closed(U) == \A z \in U \ {RootCa} : tree[z] \in U
           Above(x) == {y \in Live : \A U \in SUBSET Live : x \in U /\ Closed(U) => y \in U}
           p == [x \in Live |-> Above(x)]
<1>1. ASSUME NEW x \in Live
      PROVE  /\ x \in Above(x) /\ Closed(Above(x)) /\ Above(x) \in SUBSET Live
             /\ \A U \in SUBSET Live : x \in U /\ Closed(U) => Above(x) \subseteq U
  <2>1. Closed(Above(x))
    <3> SUFFICES ASSUME NEW z \in Above(x) \ {RootCa} PROVE tree[z] \in Above(x)
      OBVIOUS
    <3>1. z \in Live \ {RootCa} /\ tree[z] \in Live
      BY DEF TreeOK
    <3>2. ASSUME NEW U \in SUBSET Live, x \in U, Closed(U) PROVE tree[z] \in U
      BY <3>1, <3>2
    <3> QED BY <3>1, <3>2
  <2> QED BY <2>1
<1> HIDE DEF Above
<1>2. ASSUME NEW x \in Live
      PROVE  p[x] = IF x = RootCa THEN {x} ELSE {x} \cup p[tree[x]]
  <2>1. CASE x = RootCa
    <3>1. {x} \in SUBSET Live /\ Closed({x})
      BY <2>1
    <3>2. Above(x) = {x}
      BY <1>1, <3>1
    <3> QED BY <2>1, <3>2
  <2>2. CASE x # RootCa
    <3> DEFINE y == tree[x]
    <3>1. y \in Live
      BY <2>2 DEF TreeOK
    <3>2. y \in Above(x)
      BY <1>1, <2>2
    <3>3. Above(y) \subseteq Above(x)
      BY <1>1, <3>1, <3>2
    <3>4. {x} \cup Above(y) \in SUBSET Live /\ Closed({x} \cup Above(y))
      BY <1>1, <3>1
    <3>5. Above(x) \subseteq {x} \cup Above(y)
      <4> DEFINE U == {x} \cup Above(y)
      <4>1. U \in SUBSET Live /\ x \in U /\ Closed(U)
        BY <3>4
      <4> HIDE DEF U, Closed
      <4>2. Above(x) \subseteq U
        BY <1>1, <4>1
      <4> QED BY <4>2 DEF U
    <3>6. Above(x) = {x} \cup Above(y)
      BY <1>1, <3>3, <3>5
    <3>7. p[x] = Above(x) /\ p[y] = Above(y)
      BY <3>1
    <3> QED BY <2>2, <3>6, <3>7
  <2> QED BY <2>1, <2>2
<1>3. IsPath(p)
  <2> DEFINE q == [x \in Live |-> IF x = RootCa THEN {x} ELSE {x} \cup p[tree[x]]]
  <2>1. \A x \in Live : p[x] = q[x]
    BY <1>2
  <2>2. p = [x \in Live |-> p[x]] /\ q = [x \in Live |-> q[x]]
    OBVIOUS
  <2> HIDE DEF p, q
  <2>3. p = q
    BY <2>1, <2>2
  <2> QED BY <2>3 DEF q, IsPath
<1> QED BY <1>3

\* What a path is made of: it reaches the root, and passes through one child at most
\* of every group.
Chain(P) ==
  /\ P \subseteq Live /\ RootCa \in P
  /\ \A g \in P \ {RootCa} : tree[g] \in P
  /\ \A g, h \in P \ {RootCa} : tree[g] = tree[h] => g = h

\* The groups of a task are such a path.
LEMMA PathChain ==
  ASSUME TreeOK, NEW p, IsPath(p), NEW x \in Live
  PROVE  Chain(p[x])
<1>1. PICK depth \in [Groups -> Nat] : \A g \in Live \ {RootCa} : depth[tree[g]] < depth[g]
  BY DEF TreeOK
<1> DEFINE Good(y) == Chain(p[y]) /\ \A z \in p[y] : depth[z] <= depth[y]
           bad == {y \in Live : ~Good(y)}
           N == {depth[y] : y \in bad}
<1>2. ASSUME NEW y \in Live
      PROVE  p[y] = (IF y = RootCa THEN {y} ELSE {y} \cup p[tree[y]]) /\ y \in Groups
  BY DEF IsPath, Live
<1>3. ASSUME bad # {}
      PROVE  FALSE
  <2>1. N \subseteq Nat /\ N # {}
    <3> HIDE DEF Good
    <3>1. \A y \in bad : depth[y] \in Nat
      BY <1>2
    <3> QED BY <1>3, <3>1
  <2>2. PICK n \in N : \A k \in N : n <= k
    BY <2>1, LeastNat
  <2>3. PICK y \in bad : n = depth[y]
    BY <2>2
  <2>4. y \in Live /\ depth[y] \in Nat
    BY <1>2, <2>3
  <2>5. CASE y = RootCa
    <3>1. p[y] = {RootCa}
      BY <1>2, <2>4, <2>5
    <3>2. Chain(p[y])
      BY <2>4, <2>5, <3>1 DEF Chain
    <3> QED BY <2>3, <2>4, <2>5, <3>1, <3>2
  <2>6. CASE y # RootCa
    <3> DEFINE u == tree[y]
    <3>1. u \in Live /\ depth[u] < depth[y] /\ depth[u] \in Nat
      BY <1>1, <1>2, <2>4, <2>6 DEF TreeOK
    <3>2. u \notin bad
      BY <2>2, <2>3, <2>4, <3>1
    <3>3. Chain(p[u]) /\ \A z \in p[u] : depth[z] <= depth[u]
      BY <3>1, <3>2
    <3>4. p[y] = {y} \cup p[u] /\ u \in p[u]
      BY <1>2, <2>4, <2>6, <3>1
    <3>5. \A z \in p[y] : z \in Live /\ depth[z] \in Nat
      BY <1>2, <2>4, <3>3, <3>4 DEF Chain
    <3>6. \A z \in p[y] : depth[z] <= depth[y]
      BY <2>4, <3>1, <3>3, <3>4, <3>5
    <3>7. ASSUME NEW h \in p[u] \ {RootCa}, tree[h] = u
          PROVE  FALSE
      <4>1. h \in Live \ {RootCa} /\ depth[h] <= depth[u] /\ depth[h] \in Nat
        BY <3>3, <3>4, <3>5, <3>7
      <4>2. depth[u] < depth[h]
        BY <1>1, <3>7, <4>1
      <4> QED BY <3>1, <4>1, <4>2
    <3>8. Chain(p[y])
      <4>1. p[y] \subseteq Live /\ RootCa \in p[y] /\ \A g \in p[y] \ {RootCa} : tree[g] \in p[y]
        BY <2>4, <3>3, <3>4 DEF Chain
      <4>2. ASSUME NEW g \in p[y] \ {RootCa}, NEW h \in p[y] \ {RootCa}, tree[g] = tree[h]
            PROVE  g = h
        BY <3>3, <3>4, <3>7, <4>2 DEF Chain
      <4> QED BY <4>1, <4>2 DEF Chain
    <3> QED BY <2>3, <3>6, <3>8
  <2> QED BY <2>5, <2>6
<1> QED BY <1>3

\* task_ca and parent_ca.
LEMMA CaPathChain ==
  ASSUME TreeOK, NEW t, t = Idle \/ task[t].ca \in Live
  PROVE  Chain(CaPath(t))
<1> DEFINE it == CHOOSE p : p = [x \in Live |-> IF x = RootCa THEN {x} ELSE {x} \cup p[tree[x]]]
           x == IF t = Idle THEN RootCa ELSE task[t].ca
<1>1. CaPath(t) = it[x]
  BY DEF CaPath
<1>2. IsPath(it)
  BY PathExists DEF IsPath
<1>3. x \in Live
  BY TimeConstants DEF Live
<1> HIDE DEF it, x
<1> QED BY <1>1, <1>2, <1>3, PathChain

-----------------------------------------------------------------------------
(* What a tick and a charge do.  A and B are values of acct. *)

Typed ==
  /\ jiffies \in 0 .. MaxJiffies /\ phase \in 0 .. (TICK_NSEC - 1) /\ ran \in Nat
  /\ curr \in Threads /\ task \in [Tasks -> TaskRec] /\ \A t \in Tasks : task[t].ca \in Live
  /\ acct \in Acct /\ missed \in -1 .. jiffies /\ clocked \in Nat /\ discarded \in Nat
SInv == Typed /\ TreeOK

\* A field of the statistics of some groups grows by n.
Bumped(st, P, index, n) ==
  [g \in Groups |-> [f \in Fields |-> IF g \in P /\ f = index THEN st[g][f] + n ELSE st[g][f]]]

Show(s, f) == IF f = "user" THEN s["user"] + s["nice"] ELSE s["system"] + s["irq"] + s["softirq"]
Kids(st, g, f) == [x \in Groups |-> IF tree[x] = g THEN Show(st[x], f) ELSE 0]
Covers(st) ==
  \A g \in Live, f \in {"user", "system"} : Show(st[g], f) >= SumFunction(Kids(st, g, f))

Ticks(s) == s["user"] + s["nice"] + s["system"] + s["irq"] + s["softirq"] + s["idle"] + s["iowait"]
RootSums(A) ==
  LET s == A.cpustat[RootCa]
  IN  /\ s["user"] + s["nice"] = SumFunction(A.utime)
      /\ s["system"] + s["irq"] + s["softirq"] = SumFunction(A.stime)
      /\ s["guest"] + s["guest_nice"] = SumFunction(A.gtime)

Stats == [Groups -> [Fields -> Nat]]

\* The statistics stay typed.
LEMMA BumpedType ==
  ASSUME NEW st \in Stats, NEW P, NEW index, NEW n \in Nat
  PROVE  /\ Bumped(st, P, index, n) \in Stats
         /\ \A g \in Groups, f \in Fields :
              Bumped(st, P, index, n)[g][f] = IF g \in P /\ f = index THEN st[g][f] + n ELSE st[g][f]
BY DEF Bumped, Stats

\* The report of a group.
LEMMA ShowType ==
  ASSUME NEW s \in [Fields -> Nat], NEW f
  PROVE  Show(s, f) \in Nat
BY DEF Show, Fields

\* A group's report grows when its field does.
LEMMA ShowBumped ==
  ASSUME NEW st \in Stats, NEW P, NEW index \in Fields, NEW n \in Nat, NEW g \in Groups,
         NEW f \in {"user", "system"}
  PROVE  Show(Bumped(st, P, index, n)[g], f)
           = IF g \in P /\ \/ f = "user" /\ index \in {"user", "nice"}
                           \/ f = "system" /\ index \in {"system", "irq", "softirq"}
             THEN Show(st[g], f) + n ELSE Show(st[g], f)
<1> DEFINE s == Bumped(st, P, index, n)[g]
<1>1. \A x \in Fields : s[x] = IF g \in P /\ x = index THEN st[g][x] + n ELSE st[g][x]
  BY BumpedType
<1>2. \A x \in Fields : st[g][x] \in Nat
  BY DEF Stats
<1> HIDE DEF s
<1> SUFFICES Show(s, f)
               = IF g \in P /\ \/ f = "user" /\ index \in {"user", "nice"}
                               \/ f = "system" /\ index \in {"system", "irq", "softirq"}
                 THEN Show(st[g], f) + n ELSE Show(st[g], f)
  BY DEF s
<1>3. CASE f = "user"
  <2>1. s["user"] = IF g \in P /\ "user" = index THEN st[g]["user"] + n ELSE st[g]["user"]
    BY <1>1 DEF Fields
  <2>2. s["nice"] = IF g \in P /\ "nice" = index THEN st[g]["nice"] + n ELSE st[g]["nice"]
    BY <1>1 DEF Fields
  <2>3. st[g]["user"] \in Nat /\ st[g]["nice"] \in Nat
    BY <1>2 DEF Fields
  <2>4. Show(s, f) = s["user"] + s["nice"] /\ Show(st[g], f) = st[g]["user"] + st[g]["nice"]
    BY <1>3 DEF Show
  <2>5. CASE g \in P /\ index \in {"user", "nice"}
    BY <1>3, <2>1, <2>2, <2>3, <2>4, <2>5
  <2>6. CASE ~(g \in P /\ index \in {"user", "nice"})
    BY <1>3, <2>1, <2>2, <2>3, <2>4, <2>6
  <2> QED BY <2>5, <2>6
<1>4. CASE f = "system"
  <2>1. s["system"] = IF g \in P /\ "system" = index THEN st[g]["system"] + n ELSE st[g]["system"]
    BY <1>1 DEF Fields
  <2>2. s["irq"] = IF g \in P /\ "irq" = index THEN st[g]["irq"] + n ELSE st[g]["irq"]
    BY <1>1 DEF Fields
  <2>3. s["softirq"] = IF g \in P /\ "softirq" = index THEN st[g]["softirq"] + n ELSE st[g]["softirq"]
    BY <1>1 DEF Fields
  <2>4. st[g]["system"] \in Nat /\ st[g]["irq"] \in Nat /\ st[g]["softirq"] \in Nat
    BY <1>2 DEF Fields
  <2>5. /\ Show(s, f) = s["system"] + s["irq"] + s["softirq"]
        /\ Show(st[g], f) = st[g]["system"] + st[g]["irq"] + st[g]["softirq"]
    BY <1>4 DEF Show
  <2>6. CASE g \in P /\ index \in {"system", "irq", "softirq"}
    BY <1>4, <2>1, <2>2, <2>3, <2>4, <2>5, <2>6
  <2>7. CASE ~(g \in P /\ index \in {"system", "irq", "softirq"})
    BY <1>4, <2>1, <2>2, <2>3, <2>4, <2>5, <2>7
  <2> QED BY <2>6, <2>7
<1> QED BY <1>3, <1>4

\* A group covers its children when what is charged to a child is charged to it.
LEMMA CoversBumped ==
  ASSUME TreeOK, NEW st \in Stats, NEW P, Chain(P), NEW index \in Fields, NEW n \in Nat, Covers(st)
  PROVE  Covers(Bumped(st, P, index, n))
<1> DEFINE b == Bumped(st, P, index, n)
<1>1. b \in Stats
  BY BumpedType
<1> SUFFICES ASSUME NEW g \in Live, NEW f \in {"user", "system"}
             PROVE  Show(b[g], f) >= SumFunction(Kids(b, g, f))
  BY DEF Covers
<1> DEFINE hit == \/ f = "user" /\ index \in {"user", "nice"}
                  \/ f = "system" /\ index \in {"system", "irq", "softirq"}
           k == Kids(st, g, f)
<1>2. \A x \in Groups : Show(b[x], f) = IF x \in P /\ hit THEN Show(st[x], f) + n ELSE Show(st[x], f)
  BY ShowBumped
<1>3. \A x \in Groups : Show(st[x], f) \in Nat
  BY ShowType DEF Stats
<1>4. g \in Groups /\ g # NoGroup /\ P \subseteq Groups /\ IsFiniteSet(Groups)
  BY TimeConstants DEF Chain, Live
<1>5. Show(st[g], f) >= SumFunction(k)
  BY DEF Covers
<1>6. k \in [Groups -> Nat] /\ \A x \in Groups : k[x] = IF tree[x] = g THEN Show(st[x], f) ELSE 0
  BY <1>3 DEF Kids
<1>7. SumFunction(k) \in Nat
  BY <1>4, <1>6, SumNat
<1> HIDE DEF hit, k, b
<1>8. CASE \E x \in P : tree[x] = g /\ hit
  <2>1. PICK x \in P : tree[x] = g /\ hit
    BY <1>8
  <2>2. x # RootCa /\ g \in P /\ x \in Groups
    BY <1>4, <2>1 DEF TreeOK, Chain
  <2>3. \A y \in P : tree[y] = g => y = x
    BY <1>4, <2>1, <2>2 DEF TreeOK, Chain
  <2> DEFINE v == k[x] + n
  <2>4. v \in Int /\ k[x] \in Int
    BY <1>6, <2>2
  <2>5. Kids(b, g, f) = [k EXCEPT ![x] = v]
    <3>1. \A y \in Groups : (IF tree[y] = g THEN Show(b[y], f) ELSE 0) = IF y = x THEN v ELSE k[y]
      BY <1>2, <1>6, <2>1, <2>2, <2>3
    <3> HIDE DEF v
    <3>2. Kids(b, g, f) = [y \in Groups |-> IF y = x THEN v ELSE k[y]]
      BY <3>1 DEF Kids
    <3> QED BY <1>6, <3>2
  <2> HIDE DEF v
  <2>6. SumFunction(Kids(b, g, f)) = SumFunction(k) - k[x] + v
    <3>1. k \in [Groups -> Int]
      BY <1>6
    <3>2. SumFunction([k EXCEPT ![x] = v]) = SumFunction(k) - k[x] + v
      BY <1>4, <2>2, <2>4, <3>1, SumChange
    <3> QED BY <2>5, <3>2
  <2>7. SumFunction(Kids(b, g, f)) = SumFunction(k) + n
    BY <1>7, <2>4, <2>6 DEF v
  <2>8. Show(b[g], f) = Show(st[g], f) + n
    BY <1>2, <1>4, <2>1, <2>2
  <2> QED BY <1>3, <1>4, <1>5, <1>7, <2>7, <2>8
<1>9. CASE ~ \E x \in P : tree[x] = g /\ hit
  <2>1. \A y \in Groups : (IF tree[y] = g THEN Show(b[y], f) ELSE 0) = k[y]
    BY <1>2, <1>6, <1>9
  <2>2. Kids(b, g, f) = [y \in Groups |-> k[y]]
    BY <2>1 DEF Kids
  <2>3. Kids(b, g, f) = k
    BY <1>6, <2>2
  <2>4. Show(b[g], f) >= Show(st[g], f)
    BY <1>2, <1>3, <1>4
  <2>5. Show(b[g], f) \in Nat
    BY <1>1, <1>4, ShowType DEF Stats
  <2> QED BY <1>3, <1>4, <1>5, <1>7, <2>3, <2>4, <2>5
<1> QED BY <1>8, <1>9

\* The root alone is a path.
LEMMA RootChain == TreeOK => Chain({RootCa})
BY TimeConstants DEF Chain, Live

\* A sum of times after one of them has grown.
LEMMA SumUp ==
  ASSUME NEW f \in [Threads -> Nat], NEW t \in Threads, NEW n \in Nat
  PROVE  /\ [f EXCEPT ![t] = @ + n] \in [Threads -> Nat]
         /\ SumFunction([f EXCEPT ![t] = @ + n]) = SumFunction(f) + n
         /\ SumFunction(f) \in Nat
<1> DEFINE v == f[t] + n
<1>1. IsFiniteSet(Threads)
  BY TimeConstants, FS_AddElement DEF Threads
<1>2. f \in [Threads -> Int] /\ v \in Int /\ f[t] \in Int /\ n \in Int
  OBVIOUS
<1>3. SumFunction(f) \in Nat
  BY <1>1, SumNat
<1>4. SumFunction([f EXCEPT ![t] = v]) = SumFunction(f) - f[t] + v
  BY <1>1, <1>2, SumChange
<1> QED BY <1>2, <1>3, <1>4

\* The CPU's own statistics are the root's.
LEMMA RootRow ==
  ASSUME NEW st \in Stats, NEW P, RootCa \in P, NEW index \in Fields, NEW n \in Nat
  PROVE  \A f \in Fields : Bumped(st, P, index, n)[RootCa][f]
                             = IF f = index THEN st[RootCa][f] + n ELSE st[RootCa][f]
BY BumpedType, TimeConstants

\* n ticks have been accounted for: in the statistics, and in a task's times, in the
\* same kind.
Accounted(A, B, n) ==
  /\ B \in Acct /\ B.sum_exec_runtime = A.sum_exec_runtime /\ B.cpuusage = A.cpuusage
  /\ RootSums(A) => RootSums(B)
  /\ Ticks(B.cpustat[RootCa]) = Ticks(A.cpustat[RootCa]) + n
  /\ Covers(A.cpustat) => Covers(B.cpustat)

\* The fields of the CPU's statistics are counters.
LEMMA RootFields ==
  ASSUME NEW st \in Stats
  PROVE  LET s == st[RootCa]
         IN  /\ s["user"] \in Nat /\ s["nice"] \in Nat /\ s["system"] \in Nat /\ s["irq"] \in Nat
             /\ s["softirq"] \in Nat /\ s["idle"] \in Nat /\ s["iowait"] \in Nat
             /\ s["guest"] \in Nat /\ s["guest_nice"] \in Nat
BY TimeConstants DEF Stats, Fields

\* The values of the fields after one has grown.
Row(r, s, index, n) ==
  LET new(f) == IF f = index THEN s[f] + n ELSE s[f]
  IN  /\ r["user"] = new("user") /\ r["nice"] = new("nice") /\ r["system"] = new("system")
      /\ r["irq"] = new("irq") /\ r["softirq"] = new("softirq") /\ r["idle"] = new("idle")
      /\ r["iowait"] = new("iowait") /\ r["guest"] = new("guest")
      /\ r["guest_nice"] = new("guest_nice")

\* The fields of the CPU's statistics, one by one.
LEMMA RootFieldsBumped ==
  ASSUME NEW st \in Stats, NEW P, RootCa \in P, NEW index \in Fields, NEW n \in Nat
  PROVE  Row(Bumped(st, P, index, n)[RootCa], st[RootCa], index, n)
<1> DEFINE r == Bumped(st, P, index, n)[RootCa]
           s == st[RootCa]
<1>1. \A f \in Fields : r[f] = IF f = index THEN s[f] + n ELSE s[f]
  BY RootRow
<1> HIDE DEF r, s
<1>2. Row(r, s, index, n)
  BY <1>1 DEF Row, Fields
<1> QED BY <1>2 DEF r, s

\* A tick in user mode.
LEMMA AddUser ==
  ASSUME TreeOK, NEW A \in Acct, NEW B, NEW P, Chain(P), NEW t \in Threads,
         NEW index \in {"user", "nice"},
         B = [A EXCEPT !.utime = [A.utime EXCEPT ![t] = @ + 1],
                       !.cpustat = Bumped(A.cpustat, P, index, 1)]
  PROVE  Accounted(A, B, 1)
<1> DEFINE st == A.cpustat
           b == Bumped(st, P, index, 1)
           u == [A.utime EXCEPT ![t] = @ + 1]
<1>1. st \in Stats /\ b \in Stats /\ index \in Fields
  BY BumpedType DEF Acct, Stats, Fields
<1>2. A.utime \in [Threads -> Nat]
  BY DEF Acct
<1>3. u \in [Threads -> Nat] /\ SumFunction(u) = SumFunction(A.utime) + 1 /\ SumFunction(A.utime) \in Nat
  BY <1>2, SumUp
<1>4. Row(b[RootCa], st[RootCa], index, 1)
  BY <1>1, RootFieldsBumped DEF Chain
<1>5. Covers(st) => Covers(b)
  BY <1>1, CoversBumped
<1> HIDE DEF b, u
<1>6. B = [A EXCEPT !.utime = u, !.cpustat = b]
  BY DEF b, u
<1>7. /\ B \in Acct /\ B.sum_exec_runtime = A.sum_exec_runtime /\ B.cpuusage = A.cpuusage
      /\ B.utime = u /\ B.stime = A.stime /\ B.gtime = A.gtime /\ B.cpustat = b
  BY <1>1, <1>3, <1>6 DEF Acct, Stats
<1>8. RootSums(A) => RootSums(B)
  BY <1>1, <1>3, <1>4, <1>7, RootFields DEF RootSums, Row
<1>9. Ticks(b[RootCa]) = Ticks(st[RootCa]) + 1
  BY <1>1, <1>4, RootFields DEF Ticks, Row
<1> QED BY <1>5, <1>7, <1>8, <1>9 DEF Accounted

\* A tick in the kernel, in an interrupt or in a softirq.
LEMMA AddSystem ==
  ASSUME TreeOK, NEW A \in Acct, NEW B, NEW P, Chain(P), NEW t \in Threads,
         NEW index \in {"system", "irq", "softirq"},
         B = [A EXCEPT !.stime = [A.stime EXCEPT ![t] = @ + 1],
                       !.cpustat = Bumped(A.cpustat, P, index, 1)]
  PROVE  Accounted(A, B, 1)
<1> DEFINE st == A.cpustat
           b == Bumped(st, P, index, 1)
           u == [A.stime EXCEPT ![t] = @ + 1]
<1>1. st \in Stats /\ b \in Stats /\ index \in Fields
  BY BumpedType DEF Acct, Stats, Fields
<1>2. A.stime \in [Threads -> Nat]
  BY DEF Acct
<1>3. u \in [Threads -> Nat] /\ SumFunction(u) = SumFunction(A.stime) + 1 /\ SumFunction(A.stime) \in Nat
  BY <1>2, SumUp
<1>4. Row(b[RootCa], st[RootCa], index, 1)
  BY <1>1, RootFieldsBumped DEF Chain
<1>5. Covers(st) => Covers(b)
  BY <1>1, CoversBumped
<1> HIDE DEF b, u
<1>6. B = [A EXCEPT !.stime = u, !.cpustat = b]
  BY DEF b, u
<1>7. /\ B \in Acct /\ B.sum_exec_runtime = A.sum_exec_runtime /\ B.cpuusage = A.cpuusage
      /\ B.stime = u /\ B.utime = A.utime /\ B.gtime = A.gtime /\ B.cpustat = b
  BY <1>1, <1>3, <1>6 DEF Acct, Stats
<1>8. RootSums(A) => RootSums(B)
  BY <1>1, <1>3, <1>4, <1>7, RootFields DEF RootSums, Row
<1>9. Ticks(b[RootCa]) = Ticks(st[RootCa]) + 1
  BY <1>1, <1>4, RootFields DEF Ticks, Row
<1> QED BY <1>5, <1>7, <1>8, <1>9 DEF Accounted

\* Ticks of the idle task.
LEMMA AddIdle ==
  ASSUME TreeOK, NEW A \in Acct, NEW B, NEW index \in {"idle", "iowait"}, NEW n \in Nat,
         B = [A EXCEPT !.cpustat = Bumped(A.cpustat, {RootCa}, index, n)]
  PROVE  Accounted(A, B, n)
<1> DEFINE st == A.cpustat
           b == Bumped(st, {RootCa}, index, n)
<1>1. st \in Stats /\ b \in Stats /\ index \in Fields
  BY BumpedType DEF Acct, Stats, Fields
<1>4. Row(b[RootCa], st[RootCa], index, n)
  BY <1>1, RootFieldsBumped
<1>5. Covers(st) => Covers(b)
  BY <1>1, CoversBumped, RootChain
<1> HIDE DEF b
<1>7. /\ B \in Acct /\ B.sum_exec_runtime = A.sum_exec_runtime /\ B.cpuusage = A.cpuusage
      /\ B.stime = A.stime /\ B.utime = A.utime /\ B.gtime = A.gtime /\ B.cpustat = b
  <2>1. B = [A EXCEPT !.cpustat = b]
    BY DEF b
  <2> QED BY <1>1, <2>1 DEF Acct, Stats
<1>8. RootSums(A) => RootSums(B)
  BY <1>1, <1>4, <1>7, RootFields DEF RootSums, Row
<1>9. Ticks(b[RootCa]) = Ticks(st[RootCa]) + n
  BY <1>1, <1>4, RootFields DEF Ticks, Row
<1> QED BY <1>5, <1>7, <1>8, <1>9 DEF Accounted

\* A tick in a guest, which is user time and guest time.
LEMMA AddGuest ==
  ASSUME TreeOK, NEW A \in Acct, NEW B, NEW t \in Threads,
         NEW user \in {"user", "nice"}, NEW guest \in {"guest", "guest_nice"},
         B = [A EXCEPT !.utime = [A.utime EXCEPT ![t] = @ + 1],
                       !.gtime = [A.gtime EXCEPT ![t] = @ + 1],
                       !.cpustat = Bumped(Bumped(A.cpustat, {RootCa}, user, 1), {RootCa}, guest, 1)]
  PROVE  Accounted(A, B, 1)
<1> DEFINE st == A.cpustat
           c == Bumped(st, {RootCa}, user, 1)
           b == Bumped(c, {RootCa}, guest, 1)
           u == [A.utime EXCEPT ![t] = @ + 1]
           w == [A.gtime EXCEPT ![t] = @ + 1]
<1>1. st \in Stats /\ c \in Stats /\ user \in Fields /\ guest \in Fields
  BY BumpedType DEF Acct, Stats, Fields
<1> HIDE DEF c
<1>2. b \in Stats
  BY <1>1, BumpedType
<1>3. u \in [Threads -> Nat] /\ SumFunction(u) = SumFunction(A.utime) + 1 /\ SumFunction(A.utime) \in Nat
  BY SumUp DEF Acct
<1>4. w \in [Threads -> Nat] /\ SumFunction(w) = SumFunction(A.gtime) + 1 /\ SumFunction(A.gtime) \in Nat
  BY SumUp DEF Acct
<1>5. Row(c[RootCa], st[RootCa], user, 1)
  BY <1>1, RootFieldsBumped DEF c
<1>6. Row(b[RootCa], c[RootCa], guest, 1)
  BY <1>1, RootFieldsBumped
<1>7. Covers(st) => Covers(c)
  BY <1>1, CoversBumped, RootChain DEF c
<1>8. Covers(c) => Covers(b)
  BY <1>1, CoversBumped, RootChain
<1> HIDE DEF b, u, w
<1>9. /\ B \in Acct /\ B.sum_exec_runtime = A.sum_exec_runtime /\ B.cpuusage = A.cpuusage
      /\ B.stime = A.stime /\ B.utime = u /\ B.gtime = w /\ B.cpustat = b
  <2>1. B = [A EXCEPT !.utime = u, !.gtime = w, !.cpustat = b]
    BY DEF b, c, u, w
  <2> QED BY <1>2, <1>3, <1>4, <2>1 DEF Acct, Stats
<1>10. RootSums(A) => RootSums(B)
  BY <1>1, <1>3, <1>4, <1>5, <1>6, <1>9, RootFields DEF RootSums, Row
<1>11. Ticks(b[RootCa]) = Ticks(st[RootCa]) + 1
  BY <1>1, <1>5, <1>6, RootFields DEF Ticks, Row
<1> QED BY <1>7, <1>8, <1>9, <1>10, <1>11 DEF Accounted

-----------------------------------------------------------------------------
(* The operators that account for ticks. *)

\* Statistics are equal when all their fields are.
LEMMA SameStats ==
  ASSUME NEW b \in Stats, NEW c \in Stats, \A g \in Groups, f \in Fields : b[g][f] = c[g][f]
  PROVE  b = c
<1>1. ASSUME NEW g \in Groups PROVE b[g] = c[g]
  <2>1. b[g] \in [Fields -> Nat] /\ c[g] \in [Fields -> Nat] /\ \A f \in Fields : b[g][f] = c[g][f]
    BY DEF Stats
  <2> QED BY <2>1
<1> QED BY <1>1 DEF Stats

\* account_user_time().
LEMMA UserTime ==
  ASSUME SInv, NEW A \in Acct, NEW t \in Threads
  PROVE  Accounted(A, account_user_time(A, t), 1)
<1> DEFINE P == CaPath(t)
           index == IF TASK_NICE(t) THEN "nice" ELSE "user"
           u == [A.utime EXCEPT ![t] = @ + 1]
           C == [A EXCEPT !.utime[t] = @ + 1]
           B == account_user_time(A, t)
<1>1. Chain(P) /\ TreeOK
  BY CaPathChain DEF SInv, Typed, Threads
<1>2. index \in {"user", "nice"}
  OBVIOUS
<1> HIDE DEF P, index
<1>3. C = [A EXCEPT !.utime = u] /\ C.cpustat = A.cpustat
  BY DEF Acct
<1>4. B = [C EXCEPT !.cpustat = Bumped(C.cpustat, P, index, 1)]
  BY DEF account_user_time, task_group_account_field, Bumped, P, index
<1>5. B = [A EXCEPT !.utime = u, !.cpustat = Bumped(A.cpustat, P, index, 1)]
  BY <1>3, <1>4
<1> QED BY <1>1, <1>2, <1>5, AddUser

\* account_guest_time().
LEMMA GuestTime ==
  ASSUME SInv, NEW A \in Acct, NEW t \in Threads
  PROVE  Accounted(A, account_guest_time(A, t), 1)
<1> DEFINE user == IF TASK_NICE(t) THEN "nice" ELSE "user"
           guest == IF TASK_NICE(t) THEN "guest_nice" ELSE "guest"
           st == A.cpustat
           b == Bumped(Bumped(st, {RootCa}, user, 1), {RootCa}, guest, 1)
           e == [st EXCEPT ![RootCa] = [st[RootCa] EXCEPT ![user] = @ + 1, ![guest] = @ + 1]]
           B == account_guest_time(A, t)
<1>1. user \in {"user", "nice"} /\ guest \in {"guest", "guest_nice"}
  OBVIOUS
<1> HIDE DEF user, guest
<1>2. B = [A EXCEPT !.utime = [A.utime EXCEPT ![t] = @ + 1],
                    !.gtime = [A.gtime EXCEPT ![t] = @ + 1], !.cpustat = e]
  <2> DEFINE U == [A EXCEPT !.utime[t] = @ + 1, !.gtime[t] = @ + 1, !.cpustat[RootCa][user] = @ + 1]
  <2>1. B = [U EXCEPT !.cpustat[RootCa][guest] = @ + 1]
    BY DEF account_guest_time, user, guest
  <2> HIDE DEF B
  <2>2. st \in Stats /\ user \in Fields /\ guest \in Fields /\ user # guest /\ RootCa \in Groups
    BY <1>1, TimeConstants DEF Acct, Stats, Fields
  <2> DEFINE c == [st EXCEPT ![RootCa][user] = @ + 1, ![RootCa][guest] = @ + 1]
  <2>3. c = e
    BY <2>2 DEF Stats
  <2>4. B = [A EXCEPT !.utime = [A.utime EXCEPT ![t] = @ + 1],
                      !.gtime = [A.gtime EXCEPT ![t] = @ + 1], !.cpustat = c]
    <3>1. U = [A EXCEPT !.utime = [A.utime EXCEPT ![t] = @ + 1],
                        !.gtime = [A.gtime EXCEPT ![t] = @ + 1],
                        !.cpustat = [st EXCEPT ![RootCa][user] = @ + 1]]
      BY DEF Acct
    <3>2. U.cpustat = [st EXCEPT ![RootCa][user] = @ + 1]
      BY <3>1 DEF Acct
    <3> HIDE DEF U
    <3>3. B = [U EXCEPT !.cpustat = [U.cpustat EXCEPT ![RootCa][guest] = @ + 1]]
      BY <2>1
    <3>4. [U.cpustat EXCEPT ![RootCa][guest] = @ + 1] = c
      BY <2>2, <3>2 DEF Stats
    <3> QED BY <3>1, <3>3, <3>4 DEF Acct
  <2> QED BY <2>3, <2>4
<1>3. st \in Stats /\ user \in Fields /\ guest \in Fields /\ user # guest /\ RootCa \in Groups
  BY <1>1, TimeConstants DEF Acct, Stats, Fields
<1>4. Bumped(st, {RootCa}, user, 1) \in Stats /\ b \in Stats
  BY <1>3, BumpedType
<1>5. \A g \in Groups, f \in Fields :
        b[g][f] = IF g = RootCa /\ (f = user \/ f = guest) THEN st[g][f] + 1 ELSE st[g][f]
  <2> DEFINE c == Bumped(st, {RootCa}, user, 1)
  <2>1. c \in Stats /\ \A g \in Groups, f \in Fields :
          c[g][f] = IF g \in {RootCa} /\ f = user THEN st[g][f] + 1 ELSE st[g][f]
    BY <1>3, BumpedType
  <2> HIDE DEF c
  <2> DEFINE d == Bumped(c, {RootCa}, guest, 1)
  <2>2. \A g \in Groups, f \in Fields :
          d[g][f] = IF g \in {RootCa} /\ f = guest THEN c[g][f] + 1 ELSE c[g][f]
    BY <2>1, BumpedType
  <2> HIDE DEF d
  <2>3. b = d
    BY DEF c, d
  <2> QED BY <1>3, <2>1, <2>2, <2>3
<1>6. e \in Stats /\ \A g \in Groups, f \in Fields :
        e[g][f] = IF g = RootCa /\ (f = user \/ f = guest) THEN st[g][f] + 1 ELSE st[g][f]
  BY <1>3 DEF Stats
<1> HIDE DEF b, e, st
<1>7. e = b
  BY <1>4, <1>5, <1>6, SameStats
<1> QED BY <1>1, <1>2, <1>7, AddGuest DEF SInv, b, st

\* account_system_time(), in each of its contexts.
LEMMA SystemTime ==
  ASSUME SInv, NEW A \in Acct, NEW t \in Threads, NEW context \in Contexts
  PROVE  Accounted(A, account_system_time(A, t, context), 1)
<1>1. CASE context = "guest"
  BY <1>1, GuestTime DEF account_system_time
<1>2. CASE context # "guest"
  <2> DEFINE P == CaPath(t)
             index == IF context = "kernel" THEN "system" ELSE context
             u == [A.stime EXCEPT ![t] = @ + 1]
             C == [A EXCEPT !.stime[t] = @ + 1]
             B == account_system_time(A, t, context)
  <2>1. Chain(P) /\ TreeOK
    BY CaPathChain DEF SInv, Typed, Threads
  <2>2. index \in {"system", "irq", "softirq"}
    BY <1>2, TimeConstants
  <2> HIDE DEF P, index
  <2>3. C = [A EXCEPT !.stime = u] /\ C.cpustat = A.cpustat
    BY DEF Acct
  <2>4. B = [C EXCEPT !.cpustat = Bumped(C.cpustat, P, index, 1)]
    BY <1>2 DEF account_system_time, task_group_account_field, Bumped, P, index
  <2>5. B = [A EXCEPT !.stime = u, !.cpustat = Bumped(A.cpustat, P, index, 1)]
    BY <2>3, <2>4
  <2> QED BY <2>1, <2>2, <2>5, AddSystem
<1> QED BY <1>1, <1>2

\* account_idle_time().
LEMMA IdleTime ==
  ASSUME SInv, NEW A \in Acct, NEW n \in Nat
  PROVE  Accounted(A, account_idle_time(A, n), n)
<1> DEFINE index == IF nr_iowait > 0 THEN "iowait" ELSE "idle"
           st == A.cpustat
           b == Bumped(st, {RootCa}, index, n)
           e == [st EXCEPT ![RootCa] = [st[RootCa] EXCEPT ![index] = @ + n]]
           B == account_idle_time(A, n)
<1>1. index \in {"idle", "iowait"}
  OBVIOUS
<1> HIDE DEF index
<1>2. B = [A EXCEPT !.cpustat = e]
  BY DEF account_idle_time, Acct, index
<1>3. st \in Stats /\ index \in Fields /\ RootCa \in Groups
  BY <1>1, TimeConstants DEF Acct, Stats, Fields
<1>4. b \in Stats /\ \A g \in Groups, f \in Fields :
        b[g][f] = IF g \in {RootCa} /\ f = index THEN st[g][f] + n ELSE st[g][f]
  BY <1>3, BumpedType
<1>5. e \in Stats /\ \A g \in Groups, f \in Fields :
        e[g][f] = IF g = RootCa /\ f = index THEN st[g][f] + n ELSE st[g][f]
  BY <1>3 DEF Stats
<1> HIDE DEF b, e, st
<1>6. e = b
  BY <1>4, <1>5, SameStats
<1> QED BY <1>1, <1>2, <1>6, AddIdle DEF SInv, b, st

\* account_process_tick(): a tick is accounted for once.
LEMMA ProcessTick ==
  ASSUME SInv, NEW user_tick \in BOOLEAN, NEW context \in Contexts
  PROVE  Accounted(acct, account_process_tick(acct, user_tick, context), 1)
<1>1. curr \in Threads /\ acct \in Acct
  BY DEF SInv, Typed
<1>2. /\ Accounted(acct, account_user_time(acct, curr), 1)
      /\ Accounted(acct, account_system_time(acct, curr, context), 1)
      /\ Accounted(acct, account_idle_time(acct, 1), 1)
  BY <1>1, UserTime, SystemTime, IdleTime
<1> QED BY <1>2 DEF account_process_tick

\* The clock's time d has been charged to a task, its groups and the root.
Charged(A, B, t, d) ==
  /\ B \in Acct /\ B.cpustat = A.cpustat
  /\ B.utime = A.utime /\ B.stime = A.stime /\ B.gtime = A.gtime
  /\ B.sum_exec_runtime = [A.sum_exec_runtime EXCEPT ![t] = @ + d]
  /\ B.cpuusage[RootCa] = A.cpuusage[RootCa] + d

\* update_curr(): nothing for the idle task, else the task, its groups and the root.
LEMMA UpdateCurr ==
  ASSUME SInv, NEW A \in Acct, NEW d \in Nat
  PROVE  /\ curr = Idle => update_curr(A, d) = A
         /\ curr # Idle => Charged(A, update_curr(A, d), curr, d)
<1>1. CASE curr = Idle
  BY <1>1 DEF update_curr
<1>2. CASE curr # Idle
  <2> DEFINE P == CaPath(curr)
             x == [A.sum_exec_runtime EXCEPT ![curr] = @ + d]
             C == [A EXCEPT !.sum_exec_runtime[curr] = @ + d]
             c == [g \in Groups |-> IF g \in P THEN A.cpuusage[g] + d ELSE A.cpuusage[g]]
             B == update_curr(A, d)
  <2>1. Chain(P) /\ curr \in Threads
    BY CaPathChain DEF SInv, Typed, Threads
  <2> HIDE DEF P
  <2>2. C = [A EXCEPT !.sum_exec_runtime = x] /\ C.cpuusage = A.cpuusage
    BY DEF Acct
  <2>3. B = [C EXCEPT !.cpuusage = [g \in Groups |-> IF g \in P THEN C.cpuusage[g] + d ELSE C.cpuusage[g]]]
    BY <1>2 DEF update_curr, cpuacct_charge, P
  <2>4. B = [A EXCEPT !.sum_exec_runtime = x, !.cpuusage = c]
    BY <2>2, <2>3
  <2>5. x \in [Threads -> Nat] /\ c \in [Groups -> Nat] /\ c[RootCa] = A.cpuusage[RootCa] + d
    BY <2>1, TimeConstants DEF Acct, Chain
  <2> HIDE DEF x, c, B
  <2>6. Charged(A, B, curr, d)
    BY <2>4, <2>5 DEF Charged, Acct, x
  <2> QED BY <1>2, <2>6 DEF B
<1> QED BY <1>1, <1>2

-----------------------------------------------------------------------------
(* The shape of the state. *)

\* A new group is a leaf of the tree.
LEMMA TreeCreate ==
  ASSUME TreeOK, NEW g \in Groups, NEW parent \in Groups, cpuacct_create(g, parent)
  PROVE  TreeOK' /\ Live' = Live \cup {g} /\ \A x \in Groups : tree[x] # g
<1>1. /\ g \notin Live /\ parent \in Live /\ tree' = [tree EXCEPT ![g] = parent]
      /\ g # RootCa /\ g # parent /\ parent # NoGroup /\ tree[g] = NoGroup /\ g # NoGroup
  BY TimeConstants DEF cpuacct_create, Live
<1>2. /\ tree \in [Groups -> Groups \cup {NoGroup}] /\ tree[RootCa] = NoGroup
      /\ \A x \in Live \ {RootCa} : tree[x] \in Live
  BY DEF TreeOK
<1>3. Live' = Live \cup {g}
  BY <1>1, <1>2 DEF Live
<1>4. \A x \in Groups : tree[x] # g
  BY <1>1, <1>2 DEF Live
<1>5. PICK depth \in [Groups -> Nat] : \A x \in Live \ {RootCa} : depth[tree[x]] < depth[x]
  BY DEF TreeOK
<1> DEFINE d == [depth EXCEPT ![g] = depth[parent] + 1]
<1>6. d \in [Groups -> Nat]
  OBVIOUS
<1>7. ASSUME NEW x \in Live' \ {RootCa} PROVE d[tree'[x]] < d[x]
  <2>1. CASE x = g
    BY <1>1, <1>2, <2>1
  <2>2. CASE x # g
    <3>1. x \in Live \ {RootCa} /\ x \in Groups /\ tree[x] \in Groups /\ tree[x] # g /\ tree'[x] = tree[x]
      BY <1>1, <1>2, <1>3, <1>4, <2>2 DEF Live
    <3> QED BY <1>5, <2>2, <3>1
  <2> QED BY <2>1, <2>2
<1> HIDE DEF d
<1>8. tree' \in [Groups -> Groups \cup {NoGroup}] /\ tree'[RootCa] = NoGroup
  BY <1>1, <1>2, TimeConstants
<1>9. \A x \in Live' \ {RootCa} : tree'[x] \in Live'
  BY <1>1, <1>2, <1>3 DEF Live
<1> QED BY <1>3, <1>4, <1>6, <1>7, <1>8, <1>9 DEF TreeOK

\* Without a leaf the tree is still one.
LEMMA TreeDestroy ==
  ASSUME TreeOK, NEW g \in Groups, cpuacct_destroy(g)
  PROVE  TreeOK' /\ Live' = Live \ {g}
<1>1. /\ g \in Live \ {RootCa} /\ tree' = [tree EXCEPT ![g] = NoGroup] /\ \A x \in Groups : tree[x] # g
  BY DEF cpuacct_destroy
<1>2. /\ tree \in [Groups -> Groups \cup {NoGroup}] /\ tree[RootCa] = NoGroup
      /\ \A x \in Live \ {RootCa} : tree[x] \in Live
  BY DEF TreeOK
<1>3. Live' = Live \ {g}
  BY <1>1, <1>2 DEF Live
<1>4. PICK depth \in [Groups -> Nat] : \A x \in Live \ {RootCa} : depth[tree[x]] < depth[x]
  BY DEF TreeOK
<1>5. \A x \in Live' \ {RootCa} : x \in Live \ {RootCa} /\ tree'[x] = tree[x] /\ tree[x] \in Live'
  BY <1>1, <1>2, <1>3 DEF Live
<1>6. tree' \in [Groups -> Groups \cup {NoGroup}] /\ tree'[RootCa] = NoGroup
  BY <1>1, <1>2, TimeConstants
<1> QED BY <1>3, <1>4, <1>5, <1>6 DEF TreeOK

\* The tree is that of the start, or what cpuacct_create and cpuacct_destroy make of it.
LEMMA TreeKept == ASSUME TreeOK, tree' = tree PROVE TreeOK' /\ Live' = Live
BY DEF TreeOK, Live

\* The accounting groups at the start.
LEMMA InitTree == Init => TreeOK /\ \A t \in Tasks : task[t].ca \in Live
<1> SUFFICES ASSUME Init PROVE TreeOK /\ \A t \in Tasks : task[t].ca \in Live
  OBVIOUS
<1>1. PICK s \in Setups :
        /\ tree = s.tree
        /\ task = [t \in Tasks |-> [nice |-> FALSE, in_iowait |-> FALSE, ca |-> s.ca[t]]]
  BY DEF Init
<1> DEFINE live == {g \in Groups : g = RootCa \/ s.tree[g] # NoGroup}
<1>2. /\ s.tree \in [Groups -> live \cup {NoGroup}] /\ s.tree[RootCa] = NoGroup
      /\ s.ca \in [Tasks -> live]
      /\ \E depth \in [Groups -> 0 .. Cardinality(Groups)] :
           \A g \in live \ {RootCa} : depth[s.tree[g]] < depth[g]
  BY SetupsFormed
<1>3. live = Live
  BY <1>1 DEF Live
<1> HIDE DEF live
<1>4. PICK depth \in [Groups -> 0 .. Cardinality(Groups)] :
        \A g \in live \ {RootCa} : depth[s.tree[g]] < depth[g]
  BY <1>2
<1>5. depth \in [Groups -> Nat]
  <2>1. Cardinality(Groups) \in Nat
    BY TimeConstants, FS_CardinalityType
  <2> QED BY <2>1
<1>6. /\ tree \in [Groups -> Groups \cup {NoGroup}] /\ tree[RootCa] = NoGroup
      /\ \A g \in Live \ {RootCa} : tree[g] \in Live
  BY <1>1, <1>2, <1>3 DEF Live
<1>7. TreeOK
  BY <1>1, <1>3, <1>4, <1>5, <1>6 DEF TreeOK
<1> QED BY <1>1, <1>2, <1>3, <1>7

\* At the start.
LEMMA InitS == Init => SInv
<1> SUFFICES ASSUME Init PROVE SInv
  OBVIOUS
<1>1. TreeOK /\ \A t \in Tasks : task[t].ca \in Live
  BY InitTree
<1>2. task \in [Tasks -> TaskRec]
  <2>1. PICK s \in Setups :
          task = [t \in Tasks |-> [nice |-> FALSE, in_iowait |-> FALSE, ca |-> s.ca[t]]]
    BY DEF Init
  <2>2. \A t \in Tasks : s.ca[t] \in Groups
    BY <1>1, <2>1 DEF Live
  <2> QED BY <2>1, <2>2 DEF TaskRec
<1>3. acct \in Acct
  <2> DEFINE none == [t \in Threads |-> 0]
             zero == [g \in Groups |-> Zero]
             use == [g \in Groups |-> 0]
  <2>1. none \in [Threads -> Nat] /\ zero \in [Groups -> [Fields -> Nat]] /\ use \in [Groups -> Nat]
    BY DEF Zero
  <2>2. acct = [utime |-> none, stime |-> none, gtime |-> none, sum_exec_runtime |-> none,
                cpustat |-> zero, cpuusage |-> use]
    BY DEF Init, Threads
  <2> HIDE DEF none, zero, use
  <2> QED BY <2>1, <2>2 DEF Acct
<1>4. /\ jiffies \in 0 .. MaxJiffies /\ phase \in 0 .. (TICK_NSEC - 1) /\ ran \in Nat
      /\ curr \in Threads /\ missed \in -1 .. jiffies /\ clocked \in Nat /\ discarded \in Nat
  BY TimeConstants DEF Init, Threads
<1> QED BY <1>1, <1>2, <1>3, <1>4 DEF SInv, Typed

\* What tick does to acct: a tick is accounted for, then the time is charged.
LEMMA TickAcct ==
  ASSUME SInv, NEW user_tick \in BOOLEAN, NEW context \in Contexts, tick(user_tick, context)
  PROVE  \E A \in Acct : /\ Accounted(acct, A, 1)
                         /\ curr = Idle => acct' = A
                         /\ curr # Idle => Charged(A, acct', curr, ran + 1)
<1> DEFINE A == account_process_tick(acct, user_tick, context)
<1>1. Accounted(acct, A, 1)
  BY ProcessTick
<1>2. A \in Acct
  BY <1>1 DEF Accounted
<1>3. acct' = update_curr(A, ran + 1) /\ ran + 1 \in Nat
  BY DEF tick, SInv, Typed
<1> HIDE DEF A
<1> QED BY <1>1, <1>2, <1>3, UpdateCurr

\* Every step keeps the state's shape.
LEMMA NextS == SInv /\ [Next]_vars => SInv'
<1> SUFFICES ASSUME SInv, [Next]_vars PROVE SInv'
  OBVIOUS
<1> USE TimeConstants
<1>0. ASSUME tree' = tree PROVE TreeOK' /\ Live' = Live
  BY <1>0, TreeKept DEF SInv
<1>1. CASE clock
  BY <1>0, <1>1 DEF clock, SInv, Typed
<1>2. CASE nohz_stop
  BY <1>0, <1>2 DEF nohz_stop, SInv, Typed
<1>3. CASE nohz_pass
  BY <1>0, <1>3 DEF nohz_pass, SInv, Typed
<1>4. CASE nohz_restart
  <2>1. missed \in Nat /\ acct \in Acct /\ acct' = account_idle_time(acct, missed)
    BY <1>4 DEF nohz_restart, account_idle_ticks, SInv, Typed
  <2>2. acct' \in Acct
    BY <2>1, IdleTime DEF Accounted
  <2>3. missed' \in -1 .. jiffies /\ TreeOK' /\ Live' = Live
    BY <1>0, <1>4 DEF nohz_restart, SInv, Typed
  <2> QED BY <1>4, <2>2, <2>3 DEF nohz_restart, SInv, Typed
<1>5. ASSUME NEW user_tick \in BOOLEAN, NEW context \in Contexts, tick(user_tick, context) PROVE SInv'
  <2>1. acct' \in Acct
    BY <1>5, TickAcct DEF Charged
  <2>2. jiffies' \in 0 .. MaxJiffies /\ phase' \in 0 .. (TICK_NSEC - 1) /\ ran' \in Nat /\ missed' \in -1 .. jiffies'
    BY <1>5 DEF tick, SInv, Typed
  <2>3. clocked' \in Nat
    BY <1>5 DEF tick, SInv, Typed
  <2> QED BY <1>0, <1>5, <2>1, <2>2, <2>3 DEF tick, SInv, Typed
<1>6. ASSUME NEW next \in Threads, schedule(next) PROVE SInv'
  <2>1. acct' \in Acct
    BY <1>6, UpdateCurr DEF schedule, SInv, Typed, Charged
  <2> QED BY <1>0, <1>6, <2>1 DEF schedule, SInv, Typed
<1>7. ASSUME NEW next \in Threads, io_schedule(next) PROVE SInv'
  <2>1. acct' \in Acct
    BY <1>7, UpdateCurr DEF io_schedule, SInv, Typed, Charged
  <2>2. task' \in [Tasks -> TaskRec] /\ \A t \in Tasks : task'[t].ca = task[t].ca
    BY <1>7 DEF io_schedule, SInv, Typed, TaskRec, Threads
  <2> QED BY <1>0, <1>7, <2>1, <2>2 DEF io_schedule, SInv, Typed
<1>8. CASE io_schedule_return
  <2>1. task' \in [Tasks -> TaskRec] /\ \A t \in Tasks : task'[t].ca = task[t].ca
    BY <1>8 DEF io_schedule_return, SInv, Typed, TaskRec, Threads
  <2> QED BY <1>0, <1>8, <2>1 DEF io_schedule_return, SInv, Typed
<1>9. CASE thread_group_times
  BY <1>0, <1>9 DEF thread_group_times, SInv, Typed
<1>10. CASE task_times_resumed
  BY <1>0, <1>10 DEF task_times_resumed, SInv, Typed
<1>11. ASSUME NEW t \in Tasks, task_times(t) \/ task_times_preempted(t) PROVE SInv'
  BY <1>0, <1>11 DEF task_times, task_times_preempted, SInv, Typed
<1>12. ASSUME NEW t \in Tasks, set_user_nice(t) PROVE SInv'
  <2>1. task' \in [Tasks -> TaskRec] /\ \A x \in Tasks : task'[x].ca = task[x].ca
    BY <1>12 DEF set_user_nice, SInv, Typed, TaskRec
  <2> QED BY <1>0, <1>12, <2>1 DEF set_user_nice, SInv, Typed
<1>13. ASSUME NEW t \in Tasks, NEW g \in Groups, cpuacct_attach(t, g) PROVE SInv'
  <2>1. task' \in [Tasks -> TaskRec] /\ \A x \in Tasks : task'[x].ca = IF x = t THEN g ELSE task[x].ca
    BY <1>13 DEF cpuacct_attach, SInv, Typed, TaskRec
  <2> QED BY <1>0, <1>13, <2>1 DEF cpuacct_attach, SInv, Typed
<1>14. ASSUME NEW g \in Groups, cpuacct_destroy(g) PROVE SInv'
  <2>1. TreeOK' /\ Live' = Live \ {g}
    BY <1>14, TreeDestroy DEF SInv
  <2> QED BY <1>14, <2>1 DEF cpuacct_destroy, SInv, Typed
<1>15. ASSUME NEW g \in Groups, cpuusage_write(g) PROVE SInv'
  <2>1. acct' \in Acct /\ discarded' \in Nat
    <3> DEFINE c == [acct.cpuusage EXCEPT ![g] = 0]
    <3>1. acct.cpuusage \in [Groups -> Nat] /\ c \in [Groups -> Nat] /\ acct \in Acct /\ discarded \in Nat
      BY DEF SInv, Typed, Acct
    <3>2. acct' = [acct EXCEPT !.cpuusage = c]
      BY <1>15, <3>1 DEF cpuusage_write, Acct
    <3> HIDE DEF c
    <3>3. acct' \in Acct
      BY <3>1, <3>2 DEF Acct
    <3>4. discarded' \in Nat
      BY <1>15, <3>1 DEF cpuusage_write
    <3> QED BY <3>3, <3>4
  <2> QED BY <1>0, <1>15, <2>1 DEF cpuusage_write, SInv, Typed
<1>16. ASSUME NEW g \in Groups, NEW parent \in Groups, cpuacct_create(g, parent) PROVE SInv'
  <2>1. TreeOK' /\ Live' = Live \cup {g}
    BY <1>16, TreeCreate DEF SInv
  <2>2. acct' \in Acct
    BY <1>16 DEF cpuacct_create, SInv, Typed, Acct, Zero
  <2> QED BY <1>16, <2>1, <2>2 DEF cpuacct_create, SInv, Typed
<1>17. CASE UNCHANGED vars
  BY <1>0, <1>17 DEF vars, SInv, Typed
<1> QED BY <1>1, <1>2, <1>3, <1>4, <1>5, <1>6, <1>7, <1>8, <1>9, <1>10, <1>11, <1>12, <1>13, <1>14,
           <1>15, <1>16, <1>17 DEF Next, Threads

-----------------------------------------------------------------------------
(* The clock's time. *)

Exec(A) == SumFunction([t \in Tasks |-> A.sum_exec_runtime[t]])
Pending == IF curr = Idle THEN 0 ELSE ran

\* The time the CPU was not idle is what the tasks were charged and what curr has yet
\* to be; the root was charged as much, and no more can have been run than has passed.
RInv ==
  /\ Exec(acct) + Pending = clocked
  /\ acct.cpuusage[RootCa] + discarded = Exec(acct)
  /\ clocked <= jiffies * TICK_NSEC + phase

\* The time charged to the tasks.
LEMMA ExecType ==
  ASSUME NEW A \in Acct
  PROVE  /\ [t \in Tasks |-> A.sum_exec_runtime[t]] \in [Tasks -> Nat] /\ Exec(A) \in Nat
         /\ \A t \in Tasks : A.sum_exec_runtime[t] \in Nat /\ A.sum_exec_runtime[t] <= Exec(A)
<1> DEFINE f == [t \in Tasks |-> A.sum_exec_runtime[t]]
<1>1. f \in [Tasks -> Nat] /\ \A t \in Tasks : f[t] = A.sum_exec_runtime[t]
  BY DEF Acct, Threads
<1> HIDE DEF f
<1>2. SumFunction(f) \in Nat /\ \A t \in Tasks : f[t] <= SumFunction(f)
  BY <1>1, SumNat, TimeConstants
<1>3. Exec(A) = SumFunction(f)
  BY DEF Exec, f
<1> QED BY <1>1, <1>2, <1>3 DEF f

\* A charge is in the sum once.
LEMMA ExecUp ==
  ASSUME NEW A \in Acct, NEW t \in Tasks, NEW d \in Nat, NEW B, Charged(A, B, t, d)
  PROVE  Exec(B) = Exec(A) + d
<1> DEFINE f == [x \in Tasks |-> A.sum_exec_runtime[x]]
           h == [x \in Tasks |-> B.sum_exec_runtime[x]]
           v == f[t] + d
<1>1. f \in [Tasks -> Nat] /\ Exec(A) \in Nat
  BY ExecType
<1>2. h = [f EXCEPT ![t] = v]
  BY DEF Charged, Acct, Threads
<1>3. f \in [Tasks -> Int] /\ v \in Int /\ f[t] \in Int /\ IsFiniteSet(Tasks)
  BY <1>1, TimeConstants
<1> HIDE DEF f, v
<1>4. SumFunction([f EXCEPT ![t] = v]) = SumFunction(f) - f[t] + v
  BY <1>3, SumChange
<1>5. Exec(A) = SumFunction(f) /\ Exec(B) = SumFunction([f EXCEPT ![t] = v])
  BY <1>2 DEF Exec, f
<1> QED BY <1>1, <1>3, <1>4, <1>5 DEF v

\* task_sched_runtime() adds what the running task has yet to be charged.
LEMMA RuntimeSum ==
  ASSUME SInv
  PROVE  SumOver(task_sched_runtime, Tasks) = Exec(acct) + Pending
<1> DEFINE f == [x \in Tasks |-> acct.sum_exec_runtime[x]]
           h == [x \in Tasks |-> task_sched_runtime(x)]
           v == f[curr] + ran
<1>1. f \in [Tasks -> Nat] /\ Exec(acct) \in Nat /\ ran \in Nat /\ curr \in Threads
  BY ExecType DEF SInv, Typed
<1>2. SumOver(task_sched_runtime, Tasks) = SumFunction(h) /\ Exec(acct) = SumFunction(f)
  BY DEF SumOver, Exec
<1>3. CASE curr = Idle
  <2>1. \A x \in Tasks : task_sched_runtime(x) = f[x]
    BY <1>1, <1>3, TimeConstants DEF task_sched_runtime
  <2>2. h = f
    BY <2>1
  <2> QED BY <1>1, <1>2, <1>3, <2>2 DEF Pending
<1>4. CASE curr # Idle
  <2>1. curr \in Tasks /\ f[curr] \in Nat
    BY <1>1, <1>4 DEF Threads
  <2>2. \A x \in Tasks : task_sched_runtime(x) = IF x = curr THEN v ELSE f[x]
    BY <1>1 DEF task_sched_runtime
  <2>3. f \in [Tasks -> Int] /\ v \in Int /\ IsFiniteSet(Tasks)
    BY <1>1, <2>1, TimeConstants
  <2> HIDE DEF f, v
  <2>4. h = [x \in Tasks |-> IF x = curr THEN v ELSE f[x]]
    BY <2>2
  <2>5. h = [f EXCEPT ![curr] = v]
    BY <2>3, <2>4
  <2> HIDE DEF h
  <2>6. SumFunction([f EXCEPT ![curr] = v]) = SumFunction(f) - f[curr] + v
    BY <2>1, <2>3, SumChange
  <2>7. SumFunction(h) = SumFunction(f) - f[curr] + v
    BY <2>5, <2>6
  <2>8. Exec(acct) = SumFunction(f)
    BY <1>2
  <2> QED BY <1>1, <1>2, <1>4, <2>1, <2>7, <2>8 DEF Pending, v
<1> QED BY <1>3, <1>4

\* At the start.
LEMMA InitR == Init => RInv
<1> SUFFICES ASSUME Init PROVE RInv
  OBVIOUS
<1>1. SInv
  BY InitS
<1> DEFINE f == [x \in Tasks |-> acct.sum_exec_runtime[x]]
<1>2. f = [x \in Tasks |-> 0]
  BY DEF Init
<1>3. Exec(acct) = 0
  <2>1. SumFunction([x \in Tasks |-> 0]) = 0
    BY SumZero, TimeConstants
  <2> QED BY <1>2, <2>1 DEF Exec
<1>4. acct.cpuusage[RootCa] = 0
  BY TimeConstants DEF Init
<1> QED BY <1>3, <1>4, TimeConstants DEF Init, RInv, Pending

\* Nothing of the sums changes when these do not.
LEMMA SameR ==
  ASSUME RInv, acct'.sum_exec_runtime = acct.sum_exec_runtime, acct'.cpuusage = acct.cpuusage,
         curr' = curr, ran' = ran, clocked' = clocked, discarded' = discarded,
         jiffies' = jiffies, phase' = phase
  PROVE  RInv'
<1>1. Exec(acct)' = Exec(acct)
  BY DEF Exec
<1>2. Pending' = Pending
  BY DEF Pending
<1> QED BY <1>1, <1>2 DEF RInv

\* The sums after a charge of what curr has run, and what else has passed.
LEMMA ChargedR ==
  ASSUME SInv, RInv, NEW A \in Acct, A.sum_exec_runtime = acct.sum_exec_runtime,
         A.cpuusage = acct.cpuusage, NEW d \in Nat,
         curr = Idle => acct' = A,
         curr # Idle => Charged(A, acct', curr, ran + d) /\ clocked' = clocked + d,
         curr = Idle => clocked' = clocked,
         ran' = 0, discarded' = discarded, clocked' <= jiffies' * TICK_NSEC + phase'
  PROVE  RInv'
<1>1. /\ acct \in Acct /\ curr \in Threads /\ ran \in Nat /\ clocked \in Nat /\ discarded \in Nat
      /\ Exec(acct) \in Nat /\ acct.cpuusage[RootCa] \in Nat
  BY ExecType, TimeConstants DEF SInv, Typed, Acct
<1>2. Exec(A) = Exec(acct)
  BY DEF Exec
<1>3. Pending' = 0
  BY DEF Pending
<1>4. CASE curr = Idle
  <2>1. Exec(acct)' = Exec(acct)
    BY <1>2, <1>4 DEF Exec
  <2>2. acct'.cpuusage[RootCa] = acct.cpuusage[RootCa] /\ Pending = 0
    BY <1>4 DEF Pending
  <2> QED BY <1>1, <1>3, <1>4, <2>1, <2>2 DEF RInv
<1>5. CASE curr # Idle
  <2>1. curr \in Tasks /\ ran + d \in Nat /\ Charged(A, acct', curr, ran + d)
    BY <1>1, <1>5 DEF Threads
  <2>2. Exec(acct') = Exec(acct) + (ran + d)
    BY <1>2, <2>1, ExecUp
  <2>3. Exec(acct)' = Exec(acct')
    BY DEF Exec
  <2>4. acct'.cpuusage[RootCa] = acct.cpuusage[RootCa] + (ran + d)
    BY <2>1 DEF Charged
  <2>5. Pending = ran
    BY <1>5 DEF Pending
  <2>6. Exec(acct) + ran = clocked /\ acct.cpuusage[RootCa] + discarded = Exec(acct)
    BY <2>5 DEF RInv
  <2>7. Exec(acct') + 0 = clocked'
    <3>1. clocked' = clocked + d
      BY <1>5
    <3> DEFINE e == Exec(acct)
               z == Exec(acct')
    <3>2. e \in Nat /\ z = e + (ran + d) /\ e + ran = clocked
      BY <1>1, <2>2, <2>6
    <3> HIDE DEF e, z
    <3>3. z + 0 = clocked'
      BY <1>1, <3>1, <3>2
    <3> QED BY <3>3 DEF z
  <2>8. acct'.cpuusage[RootCa] + discarded' = Exec(acct')
    BY <1>1, <2>2, <2>4, <2>6
  <2> QED BY <1>3, <2>3, <2>7, <2>8 DEF RInv
<1> QED BY <1>4, <1>5

\* Every step keeps the sums.
LEMMA NextR == SInv /\ RInv /\ [Next]_vars => RInv'
<1> SUFFICES ASSUME SInv, RInv, [Next]_vars PROVE RInv'
  OBVIOUS
<1>0. /\ jiffies \in Nat /\ phase \in Nat /\ ran \in Nat /\ clocked \in Nat /\ discarded \in Nat
      /\ TICK_NSEC \in Nat \ {0} /\ jiffies * TICK_NSEC \in Nat
      /\ (jiffies + 1) * TICK_NSEC = jiffies * TICK_NSEC + TICK_NSEC
      /\ acct \in Acct /\ Exec(acct) \in Nat /\ acct.cpuusage \in [Groups -> Nat] /\ RootCa \in Groups
  <2>1. jiffies \in Nat /\ TICK_NSEC \in Nat /\ TICK_NSEC \in Nat \ {0}
    BY TimeConstants DEF SInv, Typed
  <2>2. jiffies * TICK_NSEC \in Nat /\ (jiffies + 1) * TICK_NSEC = jiffies * TICK_NSEC + TICK_NSEC
    BY <2>1
  <2> QED BY <2>1, <2>2, ExecType, TimeConstants DEF SInv, Typed, Acct
<1> DEFINE J == jiffies * TICK_NSEC
<1>1. CASE clock
  <2>1. Exec(acct)' = Exec(acct) /\ acct' = acct /\ discarded' = discarded /\ jiffies' * TICK_NSEC = J
    BY <1>1 DEF clock, Exec
  <2>2. phase' = phase + 1 /\ Pending' = (IF curr = Idle THEN 0 ELSE ran + 1)
        /\ clocked' = (IF curr = Idle THEN clocked ELSE clocked + 1)
    BY <1>1 DEF clock, Pending
  <2> HIDE DEF J
  <2>3. clocked <= J + phase /\ J \in Nat
    BY <1>0 DEF RInv, J
  <2>4. clocked' <= J + phase'
    BY <1>0, <2>2, <2>3
  <2> QED BY <1>0, <2>1, <2>2, <2>4 DEF RInv, Pending
<1>2. CASE nohz_stop \/ io_schedule_return \/ thread_group_times \/ task_times_resumed \/ UNCHANGED vars
  BY <1>2, SameR DEF nohz_stop, io_schedule_return, thread_group_times, task_times_resumed, vars
<1>3. CASE nohz_pass
  <2>1. /\ Exec(acct)' = Exec(acct) /\ Pending' = Pending /\ acct' = acct /\ discarded' = discarded
        /\ clocked' = clocked /\ phase' = phase
    BY <1>3 DEF nohz_pass, Exec, Pending
  <2>2. jiffies' * TICK_NSEC = J + TICK_NSEC
    BY <1>0, <1>3 DEF nohz_pass
  <2> HIDE DEF J
  <2>3. clocked <= J + phase /\ J \in Nat
    BY <1>0 DEF RInv, J
  <2>4. clocked' <= jiffies' * TICK_NSEC + phase'
    BY <1>0, <2>1, <2>2, <2>3
  <2> QED BY <2>1, <2>4 DEF RInv
<1>4. CASE nohz_restart
  <2>1. missed \in Nat /\ acct' = account_idle_time(acct, missed)
    BY <1>4 DEF nohz_restart, account_idle_ticks, SInv, Typed
  <2>2. acct'.sum_exec_runtime = acct.sum_exec_runtime /\ acct'.cpuusage = acct.cpuusage
    BY <1>0, <2>1, IdleTime DEF Accounted
  <2> QED BY <1>4, <2>2, SameR DEF nohz_restart
<1>5. ASSUME NEW user_tick \in BOOLEAN, NEW context \in Contexts, tick(user_tick, context) PROVE RInv'
  <2>1. PICK A \in Acct : /\ Accounted(acct, A, 1)
                          /\ curr = Idle => acct' = A
                          /\ curr # Idle => Charged(A, acct', curr, ran + 1)
    BY <1>5, TickAcct
  <2>2. A.sum_exec_runtime = acct.sum_exec_runtime /\ A.cpuusage = acct.cpuusage
    BY <2>1 DEF Accounted
  <2>3. /\ phase = TICK_NSEC - 1 /\ jiffies' = jiffies + 1 /\ phase' = 0 /\ ran' = 0 /\ discarded' = discarded
        /\ clocked' = (IF curr = Idle THEN clocked ELSE clocked + 1)
    BY <1>5 DEF tick
  <2>4. clocked' <= jiffies' * TICK_NSEC + phase'
    <3>1. jiffies' * TICK_NSEC = J + TICK_NSEC
      BY <1>0, <2>3
    <3> HIDE DEF J
    <3>2. clocked <= J + phase /\ J \in Nat
      BY <1>0 DEF RInv, J
    <3> QED BY <1>0, <2>3, <3>1, <3>2
  <2>5. 1 \in Nat
    OBVIOUS
  <2> QED BY <2>1, <2>2, <2>3, <2>4, <2>5, ChargedR
<1>6. ASSUME NEW next \in Threads, schedule(next) \/ io_schedule(next) PROVE RInv'
  <2>1. /\ acct' = update_curr(acct, ran) /\ ran' = 0 /\ discarded' = discarded /\ clocked' = clocked
        /\ jiffies' = jiffies /\ phase' = phase
    BY <1>6 DEF schedule, io_schedule
  <2>2. (curr = Idle => acct' = acct) /\ (curr # Idle => Charged(acct, acct', curr, ran))
    BY <1>0, <2>1, UpdateCurr
  <2>3. clocked' <= jiffies' * TICK_NSEC + phase'
    BY <2>1 DEF RInv
  <2>4. ran + 0 = ran /\ clocked + 0 = clocked /\ 0 \in Nat
    BY <1>0
  <2>5. curr # Idle => Charged(acct, acct', curr, ran + 0) /\ clocked' = clocked + 0
    BY <2>1, <2>2, <2>4
  <2> QED BY <1>0, <2>1, <2>2, <2>3, <2>4, <2>5, ChargedR
<1>7. ASSUME NEW t \in Tasks, \/ task_times(t) \/ task_times_preempted(t) \/ set_user_nice(t)
                              \/ \E g \in Groups : cpuacct_attach(t, g)
      PROVE  RInv'
  BY <1>7, SameR DEF task_times, task_times_preempted, set_user_nice, cpuacct_attach
<1>8. ASSUME NEW g \in Groups, cpuacct_destroy(g) PROVE RInv'
  BY <1>8, SameR DEF cpuacct_destroy
<1>9. ASSUME NEW g \in Groups, cpuusage_write(g) PROVE RInv'
  <2>1. /\ acct' = [acct EXCEPT !.cpuusage[g] = 0] /\ curr' = curr /\ ran' = ran /\ clocked' = clocked
        /\ jiffies' = jiffies /\ phase' = phase
        /\ discarded' = IF g = RootCa THEN discarded + acct.cpuusage[g] ELSE discarded
    BY <1>9 DEF cpuusage_write
  <2>2. acct'.sum_exec_runtime = acct.sum_exec_runtime
    BY <1>0, <2>1 DEF Acct
  <2>3. acct'.cpuusage = [acct.cpuusage EXCEPT ![g] = 0]
    BY <1>0, <2>1 DEF Acct
  <2>4. acct'.cpuusage[RootCa] + discarded' = acct.cpuusage[RootCa] + discarded
    BY <1>0, <2>1, <2>3
  <2>5. Exec(acct)' = Exec(acct) /\ Pending' = Pending
    BY <2>1, <2>2 DEF Exec, Pending
  <2> QED BY <2>1, <2>4, <2>5 DEF RInv
<1>10. ASSUME NEW g \in Groups, NEW parent \in Groups, cpuacct_create(g, parent) PROVE RInv'
  <2>1. /\ acct' = [acct EXCEPT !.cpustat[g] = Zero, !.cpuusage[g] = 0] /\ curr' = curr /\ ran' = ran
        /\ clocked' = clocked /\ jiffies' = jiffies /\ phase' = phase /\ discarded' = discarded /\ g # RootCa
    BY <1>10 DEF cpuacct_create, Live
  <2>2. acct'.sum_exec_runtime = acct.sum_exec_runtime
    BY <1>0, <2>1 DEF Acct
  <2>3. acct'.cpuusage[RootCa] = acct.cpuusage[RootCa]
    BY <1>0, <2>1 DEF Acct
  <2>4. Exec(acct)' = Exec(acct) /\ Pending' = Pending
    BY <2>1, <2>2 DEF Exec, Pending
  <2> QED BY <2>1, <2>3, <2>4 DEF RInv
<1> QED BY <1>1, <1>2, <1>3, <1>4, <1>5, <1>6, <1>7, <1>8, <1>9, <1>10 DEF Next, Threads

\* RuntimeChargedOnce, for any number of tasks, groups and writes to cpuacct.usage.
THEOREM RuntimeCharged == Spec => []RuntimeChargedOnce
<1>1. Init => SInv /\ RInv
  BY InitS, InitR
<1>2. SInv /\ RInv /\ [Next]_vars => (SInv /\ RInv)'
  BY NextS, NextR
<1>3. SInv /\ RInv => RuntimeChargedOnce
  <2> SUFFICES ASSUME SInv, RInv PROVE RuntimeChargedOnce
    OBVIOUS
  <2>1. SumOver(task_sched_runtime, Tasks) = clocked
    BY RuntimeSum DEF RInv
  <2>2. SumOver(LAMBDA t : acct.sum_exec_runtime[t], Tasks) = Exec(acct)
    BY DEF SumOver, Exec
  <2> QED BY <2>1, <2>2 DEF RInv, RuntimeChargedOnce
<1> QED BY <1>1, <1>2, <1>3, PTL DEF Spec

-----------------------------------------------------------------------------
(* Reports. *)

Who == Tasks \cup {Process}
PrevRec == [prev_utime : 0 .. CPUTIME_MAX, prev_stime : 0 .. CPUTIME_MAX]
ReadRec == [utime : Nat, stime : Nat, rtime : 0 .. CPUTIME_MAX]
Within(p, n) == p.prev_utime <= n /\ p.prev_stime <= n
AtLeast(q, p) == q.prev_utime >= p.prev_utime /\ q.prev_stime >= p.prev_stime
Rt(x) == (IF x = Process THEN clocked ELSE acct.sum_exec_runtime[x]) \div TICK_NSEC

\* Division keeps the order.
LEMMA DivOrder ==
  ASSUME NEW T \in Nat \ {0}, NEW a \in Nat, NEW b \in Nat, a <= b
  PROVE  a \div T \in Nat /\ a \div T <= b \div T
OBVIOUS

\* A quotient is less than what the dividend is a part of.
LEMMA DivBound ==
  ASSUME NEW T \in Nat \ {0}, NEW a \in Nat, NEW b \in Nat, a < T * b
  PROVE  a \div T \in Nat /\ a \div T < b
OBVIOUS

\* The larger of two numbers.
LEMMA MaxTwo ==
  ASSUME NEW a \in Int, NEW b \in Int
  PROVE  Max({a, b}) = IF a <= b THEN b ELSE a
BY DEF Max

\* scale_utime(): a part of the time run.
LEMMA ScaleUtime ==
  ASSUME NEW u \in Nat, NEW s \in Nat, NEW r \in Nat, u + s > 0
  PROVE  scale_utime(u, r, u + s) \in 0 .. r
<1>1. r * u \in Nat /\ u + s \in Nat \ {0} /\ r + 1 \in Nat
  OBVIOUS
<1>2. r * u < (u + s) * (r + 1)
  <2>1. (u + s) * (r + 1) = r * u + r * s + (u + s)
    OBVIOUS
  <2>2. r * s \in Nat
    OBVIOUS
  <2> QED BY <1>1, <2>1, <2>2
<1>3. (r * u) \div (u + s) \in Nat /\ (r * u) \div (u + s) < r + 1
  BY <1>1, <1>2, DivBound
<1> QED BY <1>3 DEF scale_utime

\* times_of(): the new values are no less than the old ones, and the time run, if the
\* old ones are, bounds them: the difference does not wrap.
LEMMA TimesOf ==
  ASSUME NEW p \in PrevRec, NEW r \in ReadRec
  PROVE  /\ times_of(p, r) \in PrevRec /\ AtLeast(times_of(p, r), p)
         /\ Within(p, r.rtime) => Within(times_of(p, r), r.rtime)
<1> DEFINE total == r.utime + r.stime
           utime == IF total > 0 THEN scale_utime(r.utime, r.rtime, total) ELSE r.rtime
           u == Max({p.prev_utime, utime})
           d == (r.rtime - u) % (CPUTIME_MAX + 1)
           s == Max({p.prev_stime, d})
<1>1. /\ r.utime \in Nat /\ r.stime \in Nat /\ r.rtime \in 0 .. CPUTIME_MAX /\ r.rtime \in Nat
      /\ p.prev_utime \in 0 .. CPUTIME_MAX /\ p.prev_stime \in 0 .. CPUTIME_MAX /\ CPUTIME_MAX \in Nat
  BY TimeConstants DEF PrevRec, ReadRec
<1>2. utime \in 0 .. r.rtime
  BY <1>1, ScaleUtime
<1> HIDE DEF utime
<1>3. u = IF p.prev_utime <= utime THEN utime ELSE p.prev_utime
  BY <1>1, <1>2, MaxTwo
<1> HIDE DEF u
<1>4. u \in 0 .. CPUTIME_MAX /\ u >= p.prev_utime /\ (p.prev_utime <= r.rtime => u <= r.rtime)
  BY <1>1, <1>2, <1>3
<1>5. d \in 0 .. CPUTIME_MAX
  <2>1. r.rtime - u \in Int /\ CPUTIME_MAX + 1 \in Nat \ {0}
    BY <1>1, <1>4
  <2> QED BY <1>1, <2>1
<1>6. u <= r.rtime => d <= r.rtime
  <2> SUFFICES ASSUME u <= r.rtime PROVE d <= r.rtime
    OBVIOUS
  <2> DEFINE e == r.rtime - u
             m == CPUTIME_MAX + 1
  <2>1. e \in 0 .. r.rtime /\ m \in Nat \ {0} /\ e < m
    BY <1>1, <1>4
  <2> HIDE DEF e, m
  <2>2. e % m = e
    BY <2>1
  <2> QED BY <1>1, <2>1, <2>2 DEF e, m
<1> HIDE DEF d
<1>7. s = IF p.prev_stime <= d THEN d ELSE p.prev_stime
  BY <1>1, <1>5, MaxTwo
<1> HIDE DEF s
<1>8. times_of(p, r) = [prev_utime |-> u, prev_stime |-> s]
  BY DEF times_of, s, d, u, utime
<1>9. s \in 0 .. CPUTIME_MAX /\ s >= p.prev_stime
  BY <1>1, <1>5, <1>7
<1>10. ASSUME Within(p, r.rtime) PROVE u <= r.rtime /\ s <= r.rtime
  BY <1>1, <1>4, <1>6, <1>7, <1>10 DEF Within
<1> QED BY <1>4, <1>8, <1>9, <1>10 DEF PrevRec, AtLeast, Within

\* What a caller reads, and that it fits a cputime_t.
LEMMA ReadingIs ==
  ASSUME SInv, RInv, NEW x \in Who
  PROVE  Reading(x) \in ReadRec /\ Reading(x).rtime = Rt(x) /\ Rt(x) \in 0 .. CPUTIME_MAX
<1>1. /\ acct \in Acct /\ clocked \in Nat /\ jiffies \in 0 .. MaxJiffies /\ phase \in 0 .. (TICK_NSEC - 1)
      /\ TICK_NSEC \in Nat \ {0} /\ MaxJiffies \in Nat /\ CPUTIME_MAX \in Nat /\ MaxJiffies < CPUTIME_MAX
  BY TimeConstants DEF SInv, Typed
<1>2. clocked < TICK_NSEC * (jiffies + 1) /\ jiffies + 1 \in Nat
  <2> DEFINE J == jiffies * TICK_NSEC
  <2>1. TICK_NSEC * (jiffies + 1) = J + TICK_NSEC /\ J \in Nat
    BY <1>1
  <2> HIDE DEF J
  <2>2. clocked <= J + phase
    BY DEF RInv, J
  <2> QED BY <1>1, <2>1, <2>2
<1>3. clocked \div TICK_NSEC \in Nat /\ clocked \div TICK_NSEC < jiffies + 1
  BY <1>1, <1>2, DivBound
<1>4. clocked \div TICK_NSEC \in 0 .. CPUTIME_MAX
  BY <1>1, <1>3
<1>5. CASE x = Process
  <2> DEFINE U == [t \in Tasks |-> acct.utime[t]]
             S == [t \in Tasks |-> acct.stime[t]]
  <2>1. U \in [Tasks -> Nat] /\ S \in [Tasks -> Nat] /\ IsFiniteSet(Tasks)
    BY <1>1, TimeConstants DEF Acct, Threads
  <2>2. SumFunction(U) \in Nat /\ SumFunction(S) \in Nat
    <3> HIDE DEF U, S
    <3> QED BY <2>1, SumNat
  <2>3. SumOver(task_sched_runtime, Tasks) = clocked
    BY RuntimeSum DEF RInv
  <2>4. Reading(x) = [utime |-> SumFunction(U), stime |-> SumFunction(S),
                      rtime |-> nsecs_to_cputime(SumOver(task_sched_runtime, Tasks))]
    BY <1>5 DEF Reading, SumOver
  <2>5. Reading(x) = [utime |-> SumFunction(U), stime |-> SumFunction(S), rtime |-> clocked \div TICK_NSEC]
    BY <2>3, <2>4 DEF nsecs_to_cputime
  <2> HIDE DEF U, S
  <2> QED BY <1>4, <1>5, <2>2, <2>5 DEF ReadRec, Rt
<1>6. CASE x # Process
  <2> DEFINE e == acct.sum_exec_runtime[x]
  <2>1. x \in Tasks /\ Pending \in Nat
    BY <1>6 DEF Who, Pending, SInv, Typed
  <2>2. e \in Nat /\ e <= Exec(acct) /\ Exec(acct) \in Nat /\ acct.utime[x] \in Nat /\ acct.stime[x] \in Nat
    BY <1>1, <2>1, ExecType DEF Acct, Threads
  <2>3. e <= clocked
    BY <2>1, <2>2 DEF RInv
  <2>4. Reading(x) = [utime |-> acct.utime[x], stime |-> acct.stime[x], rtime |-> e \div TICK_NSEC]
    BY <1>6 DEF Reading, nsecs_to_cputime
  <2>5. Rt(x) = e \div TICK_NSEC
    BY <1>6 DEF Rt
  <2> HIDE DEF e
  <2>6. e \div TICK_NSEC \in Nat /\ e \div TICK_NSEC <= clocked \div TICK_NSEC
    BY <1>1, <2>2, <2>3, DivOrder
  <2>7. e \div TICK_NSEC \in 0 .. CPUTIME_MAX
    BY <1>1, <1>3, <2>6
  <2> QED BY <2>2, <2>4, <2>5, <2>7 DEF ReadRec
<1> QED BY <1>5, <1>6

\* No step takes back what was charged.
LEMMA ExecGrows ==
  ASSUME SInv, [Next]_vars
  PROVE  /\ clocked' >= clocked
         /\ \A x \in Tasks : acct'.sum_exec_runtime[x] >= acct.sum_exec_runtime[x]
<1>0. /\ acct \in Acct /\ clocked \in Nat /\ ran \in Nat /\ curr \in Threads
      /\ acct.sum_exec_runtime \in [Threads -> Nat] /\ Tasks \subseteq Threads
  BY DEF SInv, Typed, Acct, Threads
<1>1. ASSUME NEW A \in Acct, A.sum_exec_runtime = acct.sum_exec_runtime, NEW d \in Nat,
             curr = Idle => acct' = A, curr # Idle => Charged(A, acct', curr, d)
      PROVE  \A x \in Tasks : acct'.sum_exec_runtime[x] >= acct.sum_exec_runtime[x]
  BY <1>0, <1>1 DEF Charged
<1>2. ASSUME acct'.sum_exec_runtime = acct.sum_exec_runtime
      PROVE  \A x \in Tasks : acct'.sum_exec_runtime[x] >= acct.sum_exec_runtime[x]
  BY <1>0, <1>2
<1>3. CASE clock
  BY <1>0, <1>2, <1>3 DEF clock
<1>4. CASE nohz_stop \/ nohz_pass \/ io_schedule_return \/ thread_group_times \/ task_times_resumed
           \/ UNCHANGED vars
  BY <1>0, <1>2, <1>4 DEF nohz_stop, nohz_pass, io_schedule_return, thread_group_times,
                          task_times_resumed, vars
<1>5. CASE nohz_restart
  <2>1. missed \in Nat /\ acct' = account_idle_time(acct, missed) /\ clocked' = clocked
    BY <1>5 DEF nohz_restart, account_idle_ticks, SInv, Typed
  <2>2. acct'.sum_exec_runtime = acct.sum_exec_runtime
    BY <1>0, <2>1, IdleTime DEF Accounted
  <2> QED BY <1>0, <1>2, <2>1, <2>2
<1>6. ASSUME NEW user_tick \in BOOLEAN, NEW context \in Contexts, tick(user_tick, context)
      PROVE  /\ clocked' >= clocked
             /\ \A x \in Tasks : acct'.sum_exec_runtime[x] >= acct.sum_exec_runtime[x]
  <2>1. PICK A \in Acct : /\ Accounted(acct, A, 1)
                          /\ curr = Idle => acct' = A
                          /\ curr # Idle => Charged(A, acct', curr, ran + 1)
    BY <1>6, TickAcct
  <2>2. A.sum_exec_runtime = acct.sum_exec_runtime /\ ran + 1 \in Nat
    BY <1>0, <2>1 DEF Accounted
  <2>3. clocked' >= clocked
    BY <1>0, <1>6 DEF tick
  <2> QED BY <1>1, <2>1, <2>2, <2>3
<1>7. ASSUME NEW next \in Threads, schedule(next) \/ io_schedule(next)
      PROVE  /\ clocked' >= clocked
             /\ \A x \in Tasks : acct'.sum_exec_runtime[x] >= acct.sum_exec_runtime[x]
  <2>1. acct' = update_curr(acct, ran) /\ clocked' = clocked
    BY <1>7 DEF schedule, io_schedule
  <2>2. (curr = Idle => acct' = acct) /\ (curr # Idle => Charged(acct, acct', curr, ran))
    BY <1>0, <2>1, UpdateCurr
  <2> QED BY <1>0, <1>1, <2>1, <2>2
<1>8. ASSUME NEW t \in Tasks, \/ task_times(t) \/ task_times_preempted(t) \/ set_user_nice(t)
                              \/ \E g \in Groups : cpuacct_attach(t, g)
      PROVE  /\ clocked' >= clocked
             /\ \A x \in Tasks : acct'.sum_exec_runtime[x] >= acct.sum_exec_runtime[x]
  BY <1>0, <1>2, <1>8 DEF task_times, task_times_preempted, set_user_nice, cpuacct_attach
<1>9. ASSUME NEW g \in Groups, \/ cpuacct_destroy(g) \/ cpuusage_write(g)
                               \/ \E parent \in Groups : cpuacct_create(g, parent)
      PROVE  /\ clocked' >= clocked
             /\ \A x \in Tasks : acct'.sum_exec_runtime[x] >= acct.sum_exec_runtime[x]
  <2>1. clocked' = clocked
    BY <1>9 DEF cpuacct_destroy, cpuusage_write, cpuacct_create
  <2>2. CASE cpuacct_destroy(g)
    BY <1>0, <1>2, <2>1, <2>2 DEF cpuacct_destroy
  <2>3. CASE cpuusage_write(g)
    <3>1. acct'.sum_exec_runtime = acct.sum_exec_runtime
      BY <1>0, <2>3 DEF cpuusage_write, Acct
    <3> QED BY <1>0, <1>2, <2>1, <3>1
  <2>4. ASSUME NEW parent \in Groups, cpuacct_create(g, parent)
        PROVE  \A x \in Tasks : acct'.sum_exec_runtime[x] >= acct.sum_exec_runtime[x]
    <3>1. acct'.sum_exec_runtime = acct.sum_exec_runtime
      BY <1>0, <2>4 DEF cpuacct_create, Acct
    <3> QED BY <1>2, <3>1
  <2> QED BY <1>0, <1>9, <2>1, <2>2, <2>3, <2>4
<1> QED BY <1>3, <1>4, <1>5, <1>6, <1>7, <1>8, <1>9 DEF Next, Threads

\* The time a report is made of fits a cputime_t, now ...
LEMMA RtType == SInv /\ RInv => \A x \in Who : Rt(x) \in 0 .. CPUTIME_MAX
BY ReadingIs

\* ... and after the step.
LEMMA RtTypeNext == SInv' /\ RInv' => \A x \in Who : Rt(x)' \in 0 .. CPUTIME_MAX
<1>1. (SInv /\ RInv)' => (\A x \in Who : Rt(x) \in 0 .. CPUTIME_MAX)'
  BY RtType, PTL
<1> QED BY <1>1 DEF Who

\* The time a report is made of does not go back.
LEMMA RtGrows ==
  ASSUME SInv, RInv, SInv', RInv', [Next]_vars, NEW x \in Who
  PROVE  /\ Rt(x)' >= Rt(x) /\ Rt(x) \in 0 .. CPUTIME_MAX /\ Rt(x)' \in 0 .. CPUTIME_MAX
<1>1. Rt(x) \in 0 .. CPUTIME_MAX
  BY ReadingIs
<1>2. Rt(x)' \in 0 .. CPUTIME_MAX
  BY RtTypeNext
<1> DEFINE a == IF x = Process THEN clocked ELSE acct.sum_exec_runtime[x]
           b == IF x = Process THEN clocked' ELSE acct'.sum_exec_runtime[x]
<1>3. a \in Nat /\ b \in Nat /\ a <= b
  <2>1. CASE x = Process
    BY <2>1, ExecGrows DEF SInv, Typed
  <2>2. CASE x # Process
    <3>1. x \in Tasks
      BY <2>2 DEF Who
    <3>2. acct.sum_exec_runtime[x] \in Nat /\ acct'.sum_exec_runtime[x] \in Nat
      BY <3>1 DEF SInv, Typed, Acct, Threads
    <3> QED BY <2>2, <3>1, <3>2, ExecGrows
  <2> QED BY <2>1, <2>2
<1>4. Rt(x) = a \div TICK_NSEC /\ Rt(x)' = b \div TICK_NSEC
  BY DEF Rt
<1> HIDE DEF a, b
<1>5. a \div TICK_NSEC <= b \div TICK_NSEC
  BY <1>3, DivOrder, TimeConstants
<1> QED BY <1>1, <1>2, <1>4, <1>5

\* A caller of task_times that was preempted: unless another call came between, the
\* previous values are still those it read, and its reading bounds them.
ReaderOK ==
  /\ reader[1] \in Tasks /\ reader[2] \in ReadRec /\ reader[3] \in PrevRec
  /\ reader[2].rtime <= Rt(reader[1])
  /\ reader[1] \notin raced => reader[3] = prev[reader[1]] /\ Within(reader[3], reader[2].rtime)

PInv ==
  /\ prev \in [Who -> PrevRec] /\ raced \in SUBSET Tasks
  /\ \A x \in Who \ raced : Within(prev[x], Rt(x))
  /\ reader # NoReader => ReaderOK

\* At the start.
LEMMA InitP == Init => PInv
<1> SUFFICES ASSUME Init PROVE PInv
  OBVIOUS
<1>1. SInv /\ RInv
  BY InitS, InitR
<1>2. \A x \in Who : Rt(x) \in 0 .. CPUTIME_MAX
  BY <1>1, ReadingIs
<1>3. prev \in [Who -> PrevRec] /\ \A x \in Who : prev[x].prev_utime = 0 /\ prev[x].prev_stime = 0
  BY TimeConstants DEF Init, Who, PrevRec
<1> QED BY <1>2, <1>3, TimeConstants DEF Init, PInv, Within

\* Steps that report nothing.
LEMMA SameP ==
  ASSUME PInv, prev' = prev, raced' = raced, reader' = reader,
         \A x \in Who : Rt(x)' >= Rt(x) /\ Rt(x) \in 0 .. CPUTIME_MAX /\ Rt(x)' \in 0 .. CPUTIME_MAX
  PROVE  PInv'
<1>1. ASSUME NEW x \in Who \ raced PROVE Within(prev[x], Rt(x)')
  <2>1. prev[x].prev_utime \in Int /\ prev[x].prev_stime \in Int
    BY TimeConstants DEF PInv, PrevRec
  <2> QED BY <2>1 DEF PInv, Within
<1>2. ASSUME reader # NoReader PROVE ReaderOK'
  <2>1. ReaderOK
    BY <1>2 DEF PInv
  <2>2. reader[1] \in Who /\ reader[2].rtime \in Int
    BY <2>1, TimeConstants DEF ReaderOK, Who, ReadRec
  <2>3. reader[2].rtime <= Rt(reader[1])'
    BY <2>1, <2>2 DEF ReaderOK
  <2> QED BY <2>1, <2>3 DEF ReaderOK, Rt
<1> QED BY <1>1, <1>2 DEF PInv, Within, Rt

\* Steps that report: the reported times only grow, unless two callers overlapped, and
\* the time run bounds them.
LEMMA NextP ==
  ASSUME SInv, RInv, SInv', RInv', PInv, [Next]_vars
  PROVE  PInv' /\ \A x \in Who \ raced : AtLeast(prev'[x], prev[x])
<1>1. \A x \in Who : Rt(x)' >= Rt(x) /\ Rt(x) \in 0 .. CPUTIME_MAX /\ Rt(x)' \in 0 .. CPUTIME_MAX
  BY RtGrows
<1>2. prev \in [Who -> PrevRec] /\ raced \in SUBSET Tasks
      /\ \A x \in Who : prev[x].prev_utime \in Int /\ prev[x].prev_stime \in Int
  BY DEF PInv, PrevRec
<1>3. ASSUME prev' = prev PROVE \A x \in Who \ raced : AtLeast(prev'[x], prev[x])
  BY <1>2, <1>3 DEF AtLeast
<1>4. ASSUME prev' = prev, raced' = raced, reader' = reader
      PROVE  PInv' /\ \A x \in Who \ raced : AtLeast(prev'[x], prev[x])
  BY <1>1, <1>3, <1>4, SameP
<1>5. ASSUME acct' = acct, clocked' = clocked PROVE \A x : Rt(x)' = Rt(x)
  BY <1>5 DEF Rt
<1>6. ASSUME NEW x \in Who, NEW p \in PrevRec, NEW r \in ReadRec, prev' = [prev EXCEPT ![x] = times_of(p, r)],
             acct' = acct, clocked' = clocked, r.rtime <= Rt(x),
             x \notin raced => p = prev[x] /\ Within(p, r.rtime)
      PROVE  /\ prev' \in [Who -> PrevRec]
             /\ \A y \in Who \ raced : Within(prev'[y], Rt(y)') /\ AtLeast(prev'[y], prev[y])
             /\ \A y \in Who \ {x} : prev'[y] = prev[y]
  <2> DEFINE n == times_of(p, r)
  <2>1. n \in PrevRec /\ AtLeast(n, p) /\ (Within(p, r.rtime) => Within(n, r.rtime))
    BY <1>6, TimesOf
  <2>2. prev' = [prev EXCEPT ![x] = n]
    BY <1>6
  <2> HIDE DEF n
  <2>3. prev' \in [Who -> PrevRec] /\ prev'[x] = n /\ \A y \in Who \ {x} : prev'[y] = prev[y]
    BY <1>2, <2>1, <2>2
  <2>4. ASSUME NEW y \in Who \ raced PROVE Within(prev'[y], Rt(y)) /\ AtLeast(prev'[y], prev[y])
    <3>1. CASE y = x
      <4>1. p = prev[x] /\ Within(n, r.rtime) /\ prev'[y] = n
        BY <1>6, <2>1, <2>3, <2>4, <3>1
      <4>2. n.prev_utime \in Int /\ n.prev_stime \in Int /\ r.rtime \in Int /\ Rt(x) \in Int
        BY <1>1, <1>6, <2>1, TimeConstants DEF PrevRec, ReadRec
      <4> QED BY <1>6, <2>1, <3>1, <4>1, <4>2 DEF Within
    <3>2. CASE y # x
      BY <1>2, <2>3, <2>4, <3>2 DEF PInv, AtLeast
    <3> QED BY <3>1, <3>2
  <2> QED BY <1>5, <1>6, <2>3, <2>4
<1>7. CASE thread_group_times
  <2> DEFINE r == Reading(Process)
  <2>1. /\ Process \in Who /\ prev[Process] \in PrevRec /\ r \in ReadRec /\ r.rtime = Rt(Process)
        /\ Process \notin raced
    BY <1>2, ReadingIs, SetupsFormed DEF Who
  <2>2. /\ prev' = [prev EXCEPT ![Process] = times_of(prev[Process], r)] /\ acct' = acct
        /\ clocked' = clocked /\ raced' = raced /\ reader' = reader
    BY <1>7 DEF thread_group_times
  <2> HIDE DEF r
  <2>3. Within(prev[Process], r.rtime)
    BY <2>1 DEF PInv
  <2>4. r.rtime <= Rt(Process)
    BY <1>1, <2>1
  <2>5. /\ prev' \in [Who -> PrevRec]
        /\ \A y \in Who \ raced : Within(prev'[y], Rt(y)') /\ AtLeast(prev'[y], prev[y])
        /\ \A y \in Who \ {Process} : prev'[y] = prev[y]
    BY <1>6, <2>1, <2>2, <2>3, <2>4
  <2>6. ASSUME reader # NoReader PROVE ReaderOK'
    <3>1. ReaderOK
      BY <2>6 DEF PInv
    <3>2. reader[1] \in Tasks /\ reader[1] \in Who \ {Process}
      BY <3>1, SetupsFormed DEF ReaderOK, Who
    <3>3. prev'[reader[1]] = prev[reader[1]] /\ Rt(reader[1])' = Rt(reader[1])
      BY <1>5, <2>2, <2>5, <3>2
    <3> QED BY <2>2, <3>1, <3>3 DEF ReaderOK, Rt
  <2> QED BY <1>2, <2>2, <2>5, <2>6 DEF PInv, Rt
<1>8. ASSUME NEW t \in Tasks, task_times(t)
      PROVE  PInv' /\ \A x \in Who \ raced : AtLeast(prev'[x], prev[x])
  <2> DEFINE r == Reading(t)
  <2>1. t \in Who /\ prev[t] \in PrevRec /\ r \in ReadRec /\ r.rtime = Rt(t)
    BY <1>2, ReadingIs DEF Who
  <2>2. /\ prev' = [prev EXCEPT ![t] = times_of(prev[t], r)] /\ acct' = acct
        /\ clocked' = clocked /\ reader' = reader
        /\ raced' = IF reader # NoReader /\ reader[1] = t THEN raced \cup {t} ELSE raced
    BY <1>8 DEF task_times
  <2> HIDE DEF r
  <2>3. t \notin raced => Within(prev[t], r.rtime)
    BY <2>1 DEF PInv
  <2>4. r.rtime <= Rt(t)
    BY <1>1, <2>1
  <2>5. /\ prev' \in [Who -> PrevRec]
        /\ \A y \in Who \ raced : Within(prev'[y], Rt(y)') /\ AtLeast(prev'[y], prev[y])
        /\ \A y \in Who \ {t} : prev'[y] = prev[y]
    BY <1>6, <2>1, <2>2, <2>3, <2>4
  <2>6. raced \subseteq raced' /\ raced' \in SUBSET Tasks
    BY <1>2, <2>2
  <2>7. ASSUME reader # NoReader PROVE ReaderOK'
    <3>1. ReaderOK
      BY <2>7 DEF PInv
    <3>2. CASE reader[1] = t
      <4>1. reader[1] \in raced' /\ Rt(reader[1])' = Rt(reader[1])
        BY <1>5, <2>2, <2>7, <3>2
      <4> QED BY <2>2, <3>1, <4>1 DEF ReaderOK, Rt
    <3>3. CASE reader[1] # t
      <4>1. reader[1] \in Who \ {t} /\ raced' = raced
        BY <2>2, <3>1, <3>3 DEF ReaderOK, Who
      <4>2. prev'[reader[1]] = prev[reader[1]] /\ Rt(reader[1])' = Rt(reader[1])
        BY <1>5, <2>2, <2>5, <4>1
      <4> QED BY <2>2, <3>1, <4>1, <4>2 DEF ReaderOK, Rt
    <3> QED BY <3>2, <3>3
  <2> QED BY <2>2, <2>5, <2>6, <2>7 DEF PInv, Rt
<1>9. ASSUME NEW t \in Tasks, task_times_preempted(t)
      PROVE  PInv' /\ \A x \in Who \ raced : AtLeast(prev'[x], prev[x])
  <2> DEFINE r == Reading(t)
  <2>1. t \in Who /\ prev[t] \in PrevRec /\ r \in ReadRec /\ r.rtime = Rt(t) /\ Rt(t) <= Rt(t)
    BY <1>1, <1>2, ReadingIs DEF Who
  <2>2. /\ reader' = <<t, r, prev[t]>> /\ prev' = prev /\ raced' = raced /\ acct' = acct /\ clocked' = clocked
    BY <1>9 DEF task_times_preempted
  <2> HIDE DEF r
  <2>3. reader'[1] = t /\ reader'[2] = r /\ reader'[3] = prev[t]
    BY <2>2
  <2>4. t \notin raced => Within(prev[t], r.rtime)
    BY <2>1 DEF PInv
  <2>5. Rt(t)' = Rt(t)
    BY <1>5, <2>2
  <2>6. ReaderOK'
    BY <2>1, <2>2, <2>3, <2>4, <2>5 DEF ReaderOK, Rt
  <2>7. \A y \in Who \ raced : Within(prev[y], Rt(y)')
    BY <1>5, <2>2 DEF PInv
  <2> QED BY <1>2, <1>3, <2>2, <2>6, <2>7 DEF PInv, Rt
<1>10. CASE task_times_resumed
  <2> DEFINE t == reader[1]
             r == reader[2]
  <2>1. ReaderOK /\ reader # NoReader
    BY <1>10 DEF task_times_resumed, PInv
  <2>2. PICK p \in {reader[3], prev[t]} : prev' = [prev EXCEPT ![t] = times_of(p, r)]
    BY <1>10 DEF task_times_resumed
  <2>3. acct' = acct /\ clocked' = clocked /\ raced' = raced /\ reader' = NoReader
    BY <1>10 DEF task_times_resumed
  <2>4. /\ t \in Who /\ t \in Tasks /\ r \in ReadRec /\ p \in PrevRec /\ r.rtime <= Rt(t)
        /\ t \notin raced => p = prev[t] /\ Within(p, r.rtime)
    BY <1>2, <2>1, <2>2 DEF ReaderOK, Who
  <2> HIDE DEF t, r
  <2>5. /\ prev' \in [Who -> PrevRec]
        /\ \A y \in Who \ raced : Within(prev'[y], Rt(y)') /\ AtLeast(prev'[y], prev[y])
    BY <1>6, <2>2, <2>3, <2>4
  <2> QED BY <1>2, <2>3, <2>5 DEF PInv, Rt
<1>11. CASE clock \/ nohz_stop \/ nohz_pass \/ nohz_restart \/ io_schedule_return \/ UNCHANGED vars
  BY <1>4, <1>11 DEF clock, nohz_stop, nohz_pass, nohz_restart, io_schedule_return, vars
<1>12. ASSUME NEW user_tick \in BOOLEAN, NEW context \in Contexts, tick(user_tick, context)
       PROVE  PInv' /\ \A x \in Who \ raced : AtLeast(prev'[x], prev[x])
  BY <1>4, <1>12 DEF tick
<1>13. ASSUME NEW next \in Threads, schedule(next) \/ io_schedule(next)
       PROVE  PInv' /\ \A x \in Who \ raced : AtLeast(prev'[x], prev[x])
  BY <1>4, <1>13 DEF schedule, io_schedule
<1>14. ASSUME NEW t \in Tasks, set_user_nice(t) \/ \E g \in Groups : cpuacct_attach(t, g)
       PROVE  PInv' /\ \A x \in Who \ raced : AtLeast(prev'[x], prev[x])
  BY <1>4, <1>14 DEF set_user_nice, cpuacct_attach
<1>15. ASSUME NEW g \in Groups, \/ cpuacct_destroy(g) \/ cpuusage_write(g)
                                \/ \E parent \in Groups : cpuacct_create(g, parent)
       PROVE  PInv' /\ \A x \in Who \ raced : AtLeast(prev'[x], prev[x])
  BY <1>4, <1>15 DEF cpuacct_destroy, cpuusage_write, cpuacct_create
<1> QED BY <1>7, <1>8, <1>9, <1>10, <1>11, <1>12, <1>13, <1>14, <1>15 DEF Next, Threads

\* TimesSane, for any number of threads and any interleaving of their readers.
THEOREM ReportsSane == Spec => []TimesSane
<1>1. Init => SInv /\ RInv /\ PInv
  BY InitS, InitR, InitP
<1>2. SInv /\ RInv /\ PInv /\ [Next]_vars => (SInv /\ RInv /\ PInv)'
  BY NextS, NextR, NextP
<1>3. SInv /\ RInv /\ PInv => TimesSane
  <2> SUFFICES ASSUME SInv, RInv, PInv, NEW x \in (Tasks \cup {Process}) \ raced
               PROVE  prev[x].prev_utime <= Reading(x).rtime /\ prev[x].prev_stime <= Reading(x).rtime
    BY DEF TimesSane
  <2>1. x \in Who /\ Reading(x).rtime = Rt(x)
    BY ReadingIs DEF Who
  <2>2. Within(prev[x], Rt(x))
    BY <2>1 DEF PInv
  <2> QED BY <2>1, <2>2 DEF Within
<1> QED BY <1>1, <1>2, <1>3, PTL DEF Spec

\* TimesMonotone, for any number of threads and any interleaving of their readers.
THEOREM ReportsMonotone == Spec => TimesMonotone
<1> DEFINE Grow == \A x \in DOMAIN prev \ raced : /\ prev'[x].prev_utime >= prev[x].prev_utime
                                                  /\ prev'[x].prev_stime >= prev[x].prev_stime
<1>1. Init => SInv /\ RInv /\ PInv
  BY InitS, InitR, InitP
<1>2. SInv /\ RInv /\ PInv /\ [Next]_vars => (SInv /\ RInv /\ PInv)'
  BY NextS, NextR, NextP
<1>3. SInv /\ RInv /\ PInv /\ [Next]_vars => [Grow]_vars
  <2> SUFFICES ASSUME SInv, RInv, PInv, [Next]_vars PROVE Grow
    OBVIOUS
  <2>1. \A x \in Who \ raced : AtLeast(prev'[x], prev[x])
    BY <1>2, NextP
  <2>2. DOMAIN prev = Who
    BY DEF PInv
  <2> QED BY <2>1, <2>2 DEF AtLeast
<1> HIDE DEF Grow
<1>4. Spec => [][Grow]_vars
  BY <1>1, <1>2, <1>3, PTL DEF Spec
<1> QED BY <1>4 DEF TimesMonotone, Grow

-----------------------------------------------------------------------------
(* Ticks. *)

Skipped == IF missed < 0 THEN 0 ELSE missed

\* The ticks are in the statistics of the CPU, and in as many times of tasks, but for
\* those that passed since the tick was stopped; every group covers its children.
KInv ==
  /\ RootSums(acct) /\ Ticks(acct.cpustat[RootCa]) + Skipped = jiffies
  /\ Covers(acct.cpustat)

\* Groups that were charged nothing cover theirs.
LEMMA NoKids ==
  ASSUME NEW st, NEW g, NEW f, \A x \in Groups : tree[x] = g => Show(st[x], f) = 0
  PROVE  SumFunction(Kids(st, g, f)) = 0
<1>1. Kids(st, g, f) = [x \in Groups |-> 0]
  BY DEF Kids
<1>2. SumFunction([x \in Groups |-> 0]) = 0
  BY SumZero, TimeConstants
<1> QED BY <1>1, <1>2

\* At the start.
LEMMA InitK == Init => KInv
<1> SUFFICES ASSUME Init PROVE KInv
  OBVIOUS
<1>1. \A g \in Groups, f \in Fields : acct.cpustat[g][f] = 0
  BY DEF Init, Zero
<1> DEFINE none == [t \in Threads |-> 0]
<1>2. acct.utime = none /\ acct.stime = none /\ acct.gtime = none
  BY DEF Init, Threads
<1>3. SumFunction(none) = 0
  <2>1. IsFiniteSet(Threads)
    BY TimeConstants, FS_AddElement DEF Threads
  <2> QED BY <2>1, SumZero
<1> HIDE DEF none
<1>4. \A f \in Fields : acct.cpustat[RootCa][f] = 0
  BY <1>1, TimeConstants
<1>5. RootSums(acct)
  BY <1>2, <1>3, <1>4 DEF RootSums, Fields
<1>6. Ticks(acct.cpustat[RootCa]) + Skipped = jiffies
  BY <1>4 DEF Ticks, Fields, Skipped, Init
<1>7. \A g \in Groups, f \in {"user", "system"} : Show(acct.cpustat[g], f) = 0
  BY <1>1 DEF Show, Fields
<1>8. Covers(acct.cpustat)
  BY <1>7, NoKids DEF Covers, Live
<1> QED BY <1>5, <1>6, <1>8 DEF KInv

\* A step that does not touch the tree, by what it does to the counters.
LEMMA SameK ==
  ASSUME KInv, tree' = tree, NEW B, RootSums(B), Covers(B.cpustat),
         acct'.cpustat = B.cpustat, acct'.utime = B.utime, acct'.stime = B.stime, acct'.gtime = B.gtime,
         Ticks(B.cpustat[RootCa]) + Skipped' = jiffies'
  PROVE  KInv'
<1>1. RootSums(acct)'
  BY DEF RootSums
<1>2. Covers(acct.cpustat)'
  BY DEF Covers, Kids, Live
<1>3. (Ticks(acct.cpustat[RootCa]) + Skipped = jiffies)'
  BY DEF Ticks
<1> QED BY <1>1, <1>2, <1>3 DEF KInv

\* The report of a group that was charged nothing.
LEMMA ShowZero == ASSUME NEW f PROVE Show(Zero, f) = 0
BY DEF Show, Zero, Fields

\* A new group starts without anything charged, and nobody's parent.
LEMMA CreateK ==
  ASSUME SInv, KInv, NEW g \in Groups, NEW parent \in Groups, cpuacct_create(g, parent)
  PROVE  KInv'
<1> DEFINE st == acct.cpustat
           b == acct'.cpustat
<1>1. /\ acct' = [acct EXCEPT !.cpustat[g] = Zero, !.cpuusage[g] = 0] /\ acct \in Acct
      /\ tree' = [tree EXCEPT ![g] = parent] /\ jiffies' = jiffies /\ missed' = missed
      /\ g \notin Live /\ g # RootCa /\ parent \in Live /\ parent # g /\ tree[g] = NoGroup
  BY DEF cpuacct_create, SInv, Typed, Live
<1>2. /\ Live' = Live \cup {g} /\ \A x \in Groups : tree[x] # g
      /\ tree \in [Groups -> Groups \cup {NoGroup}] /\ NoGroup \notin Groups /\ RootCa \in Groups
  BY TreeCreate, TimeConstants DEF SInv, TreeOK
<1>3. b = [st EXCEPT ![g] = Zero] /\ st \in Stats
  BY <1>1 DEF Acct, Stats
<1>4. b[g] = Zero /\ \A x \in Groups \ {g} : b[x] = st[x]
  BY <1>3 DEF Stats
<1>5. acct'.utime = acct.utime /\ acct'.stime = acct.stime /\ acct'.gtime = acct.gtime
  BY <1>1 DEF Acct
<1> HIDE DEF b, st
<1>6. b[RootCa] = st[RootCa]
  BY <1>1, <1>2, <1>4
<1>7. RootSums(acct)'
  BY <1>5, <1>6 DEF RootSums, KInv, b, st
<1>8. (Ticks(acct.cpustat[RootCa]) + Skipped = jiffies)'
  <2>1. Skipped' = Skipped
    BY <1>1 DEF Skipped
  <2>2. Ticks(b[RootCa]) = Ticks(st[RootCa])
    BY <1>6
  <2>3. Ticks(st[RootCa]) + Skipped = jiffies
    BY DEF KInv, st
  <2>4. Ticks(acct.cpustat[RootCa])' = Ticks(b[RootCa])
    BY DEF Ticks, b
  <2> QED BY <1>1, <2>1, <2>2, <2>3, <2>4
<1>9. ASSUME NEW h \in Live', NEW f \in {"user", "system"}
      PROVE  Show(b[h], f) >= SumFunction([x \in Groups |-> IF tree'[x] = h THEN Show(b[x], f) ELSE 0])
  <2> DEFINE k == [x \in Groups |-> IF tree'[x] = h THEN Show(b[x], f) ELSE 0]
  <2>1. h \in Groups /\ h # NoGroup
    BY <1>2 DEF Live
  <2>2. Show(b[g], f) = 0
    BY <1>4, ShowZero
  <2>3. CASE h = g
    <3>1. \A x \in Groups : tree'[x] # h
      BY <1>1, <1>2, <2>3
    <3>2. k = [x \in Groups |-> 0]
      BY <3>1
    <3>3. SumFunction([x \in Groups |-> 0]) = 0
      BY SumZero, TimeConstants
    <3> QED BY <2>2, <2>3, <3>2, <3>3
  <2>4. CASE h # g
    <3>1. \A x \in Groups : (IF tree'[x] = h THEN Show(b[x], f) ELSE 0)
                              = IF tree[x] = h THEN Show(st[x], f) ELSE 0
      BY <1>1, <1>2, <1>4, <2>1, <2>2
    <3>2. k = Kids(st, h, f)
      BY <3>1 DEF Kids
    <3>3. h \in Live /\ b[h] = st[h]
      BY <1>2, <1>4, <2>1, <2>4
    <3>4. Show(st[h], f) >= SumFunction(Kids(st, h, f))
      BY <3>3 DEF KInv, Covers, st
    <3> QED BY <3>2, <3>3, <3>4
  <2> QED BY <2>3, <2>4
<1>10. Covers(acct.cpustat)'
  BY <1>9 DEF Covers, Kids, Show, b
<1> QED BY <1>7, <1>8, <1>10 DEF KInv

\* A group that goes takes what it was charged out of its parent's children.
LEMMA DestroyK ==
  ASSUME SInv, KInv, NEW g \in Groups, cpuacct_destroy(g)
  PROVE  KInv'
<1> DEFINE st == acct.cpustat
<1>1. /\ acct' = acct /\ tree' = [tree EXCEPT ![g] = NoGroup] /\ jiffies' = jiffies /\ missed' = missed
      /\ acct \in Acct /\ st \in Stats
  BY DEF cpuacct_destroy, SInv, Typed, Acct, Stats
<1>2. /\ Live' = Live \ {g} /\ tree \in [Groups -> Groups \cup {NoGroup}]
      /\ NoGroup \notin Groups /\ IsFiniteSet(Groups)
  BY TreeDestroy, TimeConstants DEF SInv, TreeOK
<1> HIDE DEF st
<1>3. RootSums(acct)' /\ (Ticks(acct.cpustat[RootCa]) + Skipped = jiffies)'
  BY <1>1 DEF KInv, RootSums, Skipped, Ticks
<1>4. ASSUME NEW h \in Live', NEW f \in {"user", "system"}
      PROVE  Show(st[h], f) >= SumFunction([x \in Groups |-> IF tree'[x] = h THEN Show(st[x], f) ELSE 0])
  <2> DEFINE n == [x \in Groups |-> IF tree'[x] = h THEN Show(st[x], f) ELSE 0]
             k == Kids(st, h, f)
  <2>1. h \in Live /\ h \in Groups /\ h # NoGroup
    BY <1>2 DEF Live
  <2>2. Show(st[h], f) >= SumFunction(k)
    BY <2>1 DEF KInv, Covers, st
  <2>3. \A x \in Groups : Show(st[x], f) \in Nat
    BY <1>1, ShowType DEF Stats
  <2>4. k \in [Groups -> Nat] /\ \A x \in Groups : k[x] = IF tree[x] = h THEN Show(st[x], f) ELSE 0
    BY <2>3 DEF Kids
  <2> HIDE DEF k
  <2>5. SumFunction(k) \in Nat /\ k[g] <= SumFunction(k) /\ k[g] \in Nat /\ k \in [Groups -> Int]
    BY <1>2, <2>4, SumNat
  <2>6. \A x \in Groups : (IF tree'[x] = h THEN Show(st[x], f) ELSE 0) = IF x = g THEN 0 ELSE k[x]
    BY <1>1, <1>2, <2>1, <2>4
  <2>7. n = [x \in Groups |-> IF x = g THEN 0 ELSE k[x]]
    BY <2>6
  <2>8. n = [k EXCEPT ![g] = 0]
    BY <2>4, <2>7
  <2>9. SumFunction([k EXCEPT ![g] = 0]) = SumFunction(k) - k[g] + 0
    <3> DEFINE v == 0
    <3>1. v \in Int /\ k \in [Groups -> Int] /\ IsFiniteSet(Groups)
      BY <1>2, <2>5
    <3> HIDE DEF v
    <3>2. SumFunction([k EXCEPT ![g] = v]) = SumFunction(k) - k[g] + v
      BY <3>1, SumChange
    <3> QED BY <3>2 DEF v
  <2> HIDE DEF n
  <2>10. SumFunction(n) <= SumFunction(k) /\ SumFunction(n) \in Int
    BY <2>5, <2>8, <2>9
  <2>11. Show(st[h], f) \in Int
    BY <2>1, <2>3
  <2>12. Show(st[h], f) >= SumFunction(n)
    BY <2>2, <2>5, <2>10, <2>11
  <2> QED BY <2>12 DEF n
<1>5. Covers(acct.cpustat)'
  BY <1>1, <1>4 DEF Covers, Kids, Show, st
<1> QED BY <1>3, <1>5 DEF KInv

\* Every step keeps the ticks.
LEMMA NextK == SInv /\ KInv /\ [Next]_vars => KInv'
<1> SUFFICES ASSUME SInv, KInv, [Next]_vars PROVE KInv'
  OBVIOUS
<1> DEFINE N == Ticks(acct.cpustat[RootCa])
<1>0. /\ acct \in Acct /\ acct.cpustat \in Stats /\ jiffies \in Nat /\ missed \in Int /\ missed >= -1 /\ ran \in Nat
      /\ RootSums(acct) /\ Covers(acct.cpustat) /\ N + Skipped = jiffies /\ N \in Nat
  <2>1. acct \in Acct /\ acct.cpustat \in Stats /\ jiffies \in Nat /\ missed \in Int /\ missed >= -1 /\ ran \in Nat
    BY TimeConstants DEF SInv, Typed, Acct, Stats
  <2>2. N \in Nat
    BY <2>1, RootFields DEF Ticks
  <2> QED BY <2>1, <2>2 DEF KInv
<1> HIDE DEF N
<1>1. ASSUME tree' = tree, acct'.cpustat = acct.cpustat, acct'.utime = acct.utime, acct'.stime = acct.stime,
             acct'.gtime = acct.gtime, N + Skipped' = jiffies'
      PROVE  KInv'
  BY <1>0, <1>1, SameK DEF N
<1>2. ASSUME tree' = tree, acct'.cpustat = acct.cpustat, acct'.utime = acct.utime, acct'.stime = acct.stime,
             acct'.gtime = acct.gtime, missed' = missed, jiffies' = jiffies
      PROVE  KInv'
  <2>1. Skipped' = Skipped
    BY <1>2 DEF Skipped
  <2> QED BY <1>0, <1>1, <1>2, <2>1
<1>3. CASE clock \/ io_schedule_return \/ thread_group_times \/ task_times_resumed \/ UNCHANGED vars
  BY <1>2, <1>3 DEF clock, io_schedule_return, thread_group_times, task_times_resumed, vars
<1>4. CASE nohz_stop
  <2>1. Skipped' = 0 /\ Skipped = 0 /\ acct' = acct /\ tree' = tree /\ jiffies' = jiffies
    BY <1>4 DEF nohz_stop, Skipped
  <2> QED BY <1>0, <1>1, <2>1
<1>5. CASE nohz_pass
  <2>1. acct' = acct /\ tree' = tree /\ jiffies' = jiffies + 1 /\ missed' = missed + 1 /\ missed >= 0
    BY <1>5 DEF nohz_pass
  <2>2. Skipped = missed /\ Skipped' = missed + 1
    BY <1>0, <2>1 DEF Skipped
  <2>3. N + Skipped' = jiffies'
    BY <1>0, <2>1, <2>2
  <2> QED BY <1>1, <2>1, <2>3
<1>6. CASE nohz_restart
  <2>1. /\ missed \in Nat /\ acct' = account_idle_time(acct, missed) /\ missed' = -1 /\ tree' = tree
        /\ jiffies' = jiffies
    BY <1>6 DEF nohz_restart, account_idle_ticks, SInv, Typed
  <2>2. Accounted(acct, acct', missed)
    BY <1>0, <2>1, IdleTime
  <2>3. RootSums(acct') /\ Covers(acct'.cpustat) /\ Ticks(acct'.cpustat[RootCa]) = N + missed
    BY <1>0, <2>2 DEF Accounted, N
  <2>4. Skipped = missed /\ Skipped' = 0
    BY <2>1 DEF Skipped
  <2>5. Ticks(acct'.cpustat[RootCa]) + Skipped' = jiffies'
    BY <1>0, <2>1, <2>3, <2>4
  <2> QED BY <2>1, <2>3, <2>5, SameK
<1>7. ASSUME NEW user_tick \in BOOLEAN, NEW context \in Contexts, tick(user_tick, context) PROVE KInv'
  <2>1. PICK A \in Acct : /\ Accounted(acct, A, 1)
                          /\ curr = Idle => acct' = A
                          /\ curr # Idle => Charged(A, acct', curr, ran + 1)
    BY <1>7, TickAcct
  <2>2. RootSums(A) /\ Covers(A.cpustat) /\ Ticks(A.cpustat[RootCa]) = N + 1
    BY <1>0, <2>1 DEF Accounted, N
  <2>3. /\ acct'.cpustat = A.cpustat /\ acct'.utime = A.utime /\ acct'.stime = A.stime /\ acct'.gtime = A.gtime
    BY <2>1 DEF Charged
  <2>4. missed < 0 /\ missed' = missed /\ tree' = tree /\ jiffies' = jiffies + 1
    BY <1>7 DEF tick
  <2>5. Skipped = 0 /\ Skipped' = 0
    BY <2>4 DEF Skipped
  <2>6. Ticks(A.cpustat[RootCa]) + Skipped' = jiffies'
    BY <1>0, <2>2, <2>4, <2>5
  <2> QED BY <2>2, <2>3, <2>4, <2>6, SameK
<1>8. ASSUME NEW next \in Threads, schedule(next) \/ io_schedule(next) PROVE KInv'
  <2>1. acct' = update_curr(acct, ran) /\ tree' = tree /\ missed' = missed /\ jiffies' = jiffies
    BY <1>8 DEF schedule, io_schedule
  <2>2. (curr = Idle => acct' = acct) /\ (curr # Idle => Charged(acct, acct', curr, ran))
    BY <1>0, <2>1, UpdateCurr
  <2>3. /\ acct'.cpustat = acct.cpustat /\ acct'.utime = acct.utime /\ acct'.stime = acct.stime
        /\ acct'.gtime = acct.gtime
    BY <2>2 DEF Charged
  <2> QED BY <1>2, <2>1, <2>3
<1>9. ASSUME NEW t \in Tasks, \/ task_times(t) \/ task_times_preempted(t) \/ set_user_nice(t)
                              \/ \E g \in Groups : cpuacct_attach(t, g)
      PROVE  KInv'
  BY <1>2, <1>9 DEF task_times, task_times_preempted, set_user_nice, cpuacct_attach
<1>10. ASSUME NEW g \in Groups, cpuacct_destroy(g) PROVE KInv'
  BY <1>10, DestroyK
<1>11. ASSUME NEW g \in Groups, cpuusage_write(g) PROVE KInv'
  <2>1. /\ acct'.cpustat = acct.cpustat /\ acct'.utime = acct.utime /\ acct'.stime = acct.stime
        /\ acct'.gtime = acct.gtime
    BY <1>0, <1>11 DEF cpuusage_write, Acct
  <2> QED BY <1>2, <1>11, <2>1 DEF cpuusage_write
<1>12. ASSUME NEW g \in Groups, NEW parent \in Groups, cpuacct_create(g, parent) PROVE KInv'
  BY <1>12, CreateK
<1> QED BY <1>3, <1>4, <1>5, <1>6, <1>7, <1>8, <1>9, <1>10, <1>11, <1>12 DEF Next, Threads

\* TicksAccounted, for any number of tasks, groups and ticks.
THEOREM TicksAccountedOnce == Spec => []TicksAccounted
<1>1. Init => SInv /\ RInv /\ PInv /\ KInv
  BY InitS, InitR, InitP, InitK
<1>2. SInv /\ RInv /\ PInv /\ KInv /\ [Next]_vars => (SInv /\ RInv /\ PInv /\ KInv)'
  BY NextS, NextR, NextP, NextK
<1>3. SInv /\ PInv /\ KInv => TicksAccounted
  <2> SUFFICES ASSUME SInv, PInv, KInv PROVE TicksAccounted
    OBVIOUS
  <2> DEFINE s == acct.cpustat[RootCa]
  <2>1. TypeOK
    <3>1. DOMAIN prev = Who /\ \A x \in Who : prev[x].prev_utime \in 0 .. CPUTIME_MAX
                                              /\ prev[x].prev_stime \in 0 .. CPUTIME_MAX
      BY DEF PInv, PrevRec
    <3>2. \A g \in Groups, f \in Fields : acct.cpustat[g][f] \in Nat
      BY DEF SInv, Typed, Acct
    <3>3. missed \in -1 .. MaxJiffies
      BY TimeConstants DEF SInv, Typed
    <3> QED BY <3>1, <3>2, <3>3 DEF TypeOK, SInv, Typed, Threads
  <2>2. GroupsCoverChildren
    <3> SUFFICES ASSUME NEW g \in Live, NEW f \in {"user", "system"}
                 PROVE  cpuacct_stats_show(g)[f]
                          >= SumFunction([x \in Groups |-> IF tree[x] = g THEN cpuacct_stats_show(x)[f] ELSE 0])
      BY DEF GroupsCoverChildren, SumOver
    <3>1. \A x : cpuacct_stats_show(x)[f] = Show(acct.cpustat[x], f)
      BY DEF cpuacct_stats_show, Show
    <3>2. [x \in Groups |-> IF tree[x] = g THEN cpuacct_stats_show(x)[f] ELSE 0] = Kids(acct.cpustat, g, f)
      BY <3>1 DEF Kids
    <3>3. Show(acct.cpustat[g], f) >= SumFunction(Kids(acct.cpustat, g, f))
      BY DEF KInv, Covers
    <3> QED BY <3>1, <3>2, <3>3
  <2>3. ASSUME NEW times \in [Threads -> Nat]
        PROVE  SumOver(LAMBDA t : times[t], Tasks \cup {Idle}) = SumFunction(times)
    <3>1. [t \in Threads |-> times[t]] = times
      BY <2>3
    <3> QED BY <3>1 DEF SumOver, Threads
  <2>4. acct.utime \in [Threads -> Nat] /\ acct.stime \in [Threads -> Nat] /\ acct.gtime \in [Threads -> Nat]
    BY DEF SInv, Typed, Acct
  <2>5. /\ s["user"] + s["nice"] = SumOver(LAMBDA t : acct.utime[t], Tasks \cup {Idle})
        /\ s["system"] + s["irq"] + s["softirq"] = SumOver(LAMBDA t : acct.stime[t], Tasks \cup {Idle})
        /\ s["guest"] + s["guest_nice"] = SumOver(LAMBDA t : acct.gtime[t], Tasks \cup {Idle})
    BY <2>3, <2>4 DEF KInv, RootSums
  <2>6. Ticks(s) = jiffies - Max({missed, 0})
    <3>1. missed \in Int /\ jiffies \in Int /\ acct.cpustat \in Stats
      BY DEF SInv, Typed, Acct, Stats
    <3>2. Max({missed, 0}) = Skipped
      BY <3>1, MaxTwo DEF Skipped
    <3>3. Ticks(s) \in Nat /\ Skipped \in Int
      BY <3>1, RootFields DEF Ticks, Skipped
    <3> QED BY <3>1, <3>2, <3>3 DEF KInv
  <2> QED BY <2>1, <2>2, <2>5, <2>6 DEF TicksAccounted, Ticks
<1> QED BY <1>1, <1>2, <1>3, PTL DEF Spec
====
