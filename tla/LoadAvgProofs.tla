---------------------------- MODULE LoadAvgProofs ----------------------------
(***************************************************************************)
(* Proofs about LoadAvg, for any number of CPUs and tasks, any length of   *)
(* the windows and any time: the counts add up, each window is sampled     *)
(* with its own, and no CPU falls further behind than one window.          *)
(***************************************************************************)
EXTENDS LoadAvg, SumProofs

-----------------------------------------------------------------------------
(* The inductive invariant. *)

Rq == [nr_running : Int, nr_uninterruptible : Int, calc_load_active : Int,
       calc_load_update : Int, nohz : BOOLEAN, late : Int]
IsLoad(L) ==
  L \in [calc_load_tasks : Int, calc_load_update : Int, calc_load_idle : [0 .. 1 -> Int],
         calc_load_idx : 0 .. 1, avenrun : {L.avenrun}]

\* Every calc_load_update lies on the same grid.
OnGrid(x) == \E k \in Int : x = k * LOAD_FREQ

Active == [c \in CPUs |-> cpu[c].calc_load_active]

Typed ==
  /\ jiffies \in Int /\ cpu \in [CPUs -> Rq] /\ IsLoad(load) /\ opened \in [CPUs -> Int]

\* The global update is never later than Window ticks; a CPU's may be a window ahead.
TimesOK ==
  /\ OnGrid(load.calc_load_update) /\ jiffies < load.calc_load_update + Window
  /\ \A c \in CPUs : /\ OnGrid(cpu[c].calc_load_update)
                     /\ cpu[c].calc_load_update <= load.calc_load_update + LOAD_FREQ
                     /\ cpu[c].late > 0 => ~cpu[c].nohz

\* The three counters hold what the CPUs contributed; the first and the one to be
\* folded next hold what they contributed up to the window.
SumsOK ==
  /\ load.calc_load_tasks + load.calc_load_idle[0] + load.calc_load_idle[1] = SumFunction(Active)
  /\ load.calc_load_tasks + load.calc_load_idle[load.calc_load_idx] = SumFunction(opened)

\* Only a CPU that has stopped its tick in this window, or does not sample in it,
\* has folded something the window does not count.
OpenedOK ==
  /\ jiffies < load.calc_load_update => opened = Active
  /\ \A c \in CPUs : ~cpu[c].nohz /\ cpu[c].calc_load_update <= load.calc_load_update
                       => opened[c] = cpu[c].calc_load_active

LInv == Typed /\ TimesOK /\ SumsOK /\ OpenedOK /\ sample.used = sample.due

\* The invariant says what the runs check.
LEMMA InvProperties == LInv => DeltasKept /\ WindowsSeparate /\ OneWindowSkipped
BY DEF LInv, DeltasKept, WindowsSeparate, OneWindowSkipped, SumsOK, TimesOK, SumOver, Active

-----------------------------------------------------------------------------
(* Arithmetic. *)

\* Points of the grid are LOAD_FREQ apart.
LEMMA GridApart ==
  ASSUME NEW a \in Int, NEW b \in Int, OnGrid(a), OnGrid(b), a < b + LOAD_FREQ
  PROVE  a <= b
<1>1. PICK k \in Int : a = k * LOAD_FREQ
  BY DEF OnGrid
<1>2. PICK m \in Int : b = m * LOAD_FREQ
  BY DEF OnGrid
<1>3. LOAD_FREQ \in Nat /\ LOAD_FREQ > 0
  BY LoadConstants
<1>4. CASE k <= m
  BY <1>1, <1>2, <1>3, <1>4
<1>5. CASE k >= m + 1
  BY <1>1, <1>2, <1>3, <1>5
<1> QED BY <1>4, <1>5

\* The next ones.
LEMMA GridNext ==
  ASSUME NEW a \in Int, OnGrid(a), NEW n \in Int
  PROVE  OnGrid(a + n * LOAD_FREQ) /\ OnGrid(a + LOAD_FREQ)
<1>1. PICK k \in Int : a = k * LOAD_FREQ
  BY DEF OnGrid
<1>2. LOAD_FREQ \in Int
  BY LoadConstants
<1>3. a + n * LOAD_FREQ = (k + n) * LOAD_FREQ /\ a + LOAD_FREQ = (k + 1) * LOAD_FREQ
  BY <1>1, <1>2
<1> QED BY <1>3 DEF OnGrid

\* delta / LOAD_FREQ windows, and one more, are longer than delta.
LEMMA DivBound ==
  ASSUME NEW d \in Nat
  PROVE  /\ 1 + d \div LOAD_FREQ \in Nat
         /\ d < (1 + d \div LOAD_FREQ) * LOAD_FREQ
<1>1. LOAD_FREQ \in Nat /\ LOAD_FREQ > 0
  BY LoadConstants
<1> DEFINE q == d \div LOAD_FREQ
           m == d % LOAD_FREQ
<1>2. q \in Nat /\ m \in Nat /\ m < LOAD_FREQ /\ d = q * LOAD_FREQ + m
  BY <1>1
<1> HIDE DEF q, m
<1>3. (1 + q) * LOAD_FREQ = LOAD_FREQ + q * LOAD_FREQ
  BY <1>1, <1>2
<1> QED BY <1>1, <1>2, <1>3 DEF q

-----------------------------------------------------------------------------
(* What a CPU and the global update do to the counters. *)

\* The global update: nothing, or the counter of the old window is folded and the
\* index flips, and the next update is less than Window ticks overdue.
Updated(L, N, j) ==
  /\ IsLoad(N) /\ OnGrid(N.calc_load_update) /\ j < N.calc_load_update + Window
  /\ L.calc_load_update <= N.calc_load_update
  /\ \/ N = L
     \/ /\ N.calc_load_update # L.calc_load_update
        /\ N.calc_load_tasks = L.calc_load_tasks + L.calc_load_idle[L.calc_load_idx]
        /\ N.calc_load_idx = 1 - L.calc_load_idx
        /\ N.calc_load_idle[N.calc_load_idx] = L.calc_load_idle[N.calc_load_idx]
        /\ N.calc_load_idle[L.calc_load_idx] = 0

\* calc_load_fold_idle.
LEMMA FoldIdle ==
  ASSUME NEW L, IsLoad(L)
  PROVE  LET S == calc_load_fold_idle(L)
             r == L.calc_load_idx
         IN  /\ S \in [calc_load_tasks : Int, calc_load_update : Int, calc_load_idle : [0 .. 1 -> Int],
                       calc_load_idx : 0 .. 1, avenrun : {L.avenrun}]
             /\ S.calc_load_tasks = L.calc_load_tasks + L.calc_load_idle[r]
             /\ S.calc_load_update = L.calc_load_update /\ S.calc_load_idx = r
             /\ S.calc_load_idle[r] = 0 /\ S.calc_load_idle[1 - r] = L.calc_load_idle[1 - r]
<1> DEFINE r == L.calc_load_idx
           t == L.calc_load_tasks + L.calc_load_idle[r]
           idle == [L.calc_load_idle EXCEPT ![r] = 0]
           S == [L EXCEPT !.calc_load_tasks = t, !.calc_load_idle = idle]
<1>1. r \in 0 .. 1 /\ L.calc_load_idle \in [0 .. 1 -> Int] /\ L.calc_load_tasks \in Int
  BY DEF IsLoad
<1>2. t \in Int /\ idle \in [0 .. 1 -> Int] /\ idle[r] = 0
      /\ idle[1 - r] = L.calc_load_idle[1 - r]
  BY <1>1
<1>3. calc_load_fold_idle(L) = S
  BY <1>1 DEF calc_load_fold_idle, calc_load_read_idx, IsLoad
<1> HIDE DEF t, idle
<1>4. S \in [calc_load_tasks : Int, calc_load_update : Int, calc_load_idle : [0 .. 1 -> Int],
             calc_load_idx : 0 .. 1, avenrun : {L.avenrun}]
  BY <1>2 DEF IsLoad
<1>5. /\ S.calc_load_tasks = t /\ S.calc_load_update = L.calc_load_update
      /\ S.calc_load_idx = L.calc_load_idx /\ S.calc_load_idle = idle
  BY DEF IsLoad
<1> QED BY <1>2, <1>3, <1>4, <1>5 DEF t

\* calc_global_load, with calc_global_nohz.
LEMMA GlobalLoad ==
  ASSUME NEW L, IsLoad(L), OnGrid(L.calc_load_update), NEW j \in Int
  PROVE  Updated(L, calc_global_load(L, j), j)
<1>0. LOAD_FREQ \in Nat /\ Window \in Nat /\ Window < LOAD_FREQ /\ L.calc_load_update \in Int
      /\ L.calc_load_idx \in 0 .. 1
  BY LoadConstants DEF IsLoad
<1>1. CASE j < L.calc_load_update + Window
  <2>1. calc_global_load(L, j) = L
    BY <1>1 DEF calc_global_load
  <2> QED BY <1>0, <1>1, <2>1 DEF Updated
<1>2. CASE ~(j < L.calc_load_update + Window)
  <2> DEFINE S == calc_load_fold_idle(L)
             r == L.calc_load_idx
             av == [e \in Exps |-> calc_load(S.avenrun[e], e, active_of(S))]
             u == L.calc_load_update + LOAD_FREQ
             M == [S EXCEPT !.calc_load_update = u, !.avenrun = av]
             delta == j - M.calc_load_update - Window
             n == 1 + delta \div LOAD_FREQ
             av2 == [e \in Exps |-> calc_load_n(M.avenrun[e], e, active_of(M), n)]
             v == u + n * LOAD_FREQ
             X == IF delta < 0 THEN M
                  ELSE [M EXCEPT !.calc_load_update = v, !.avenrun = av2]
             N == [X EXCEPT !.calc_load_idx = 1 - r]
  <2>1. /\ S \in [calc_load_tasks : Int, calc_load_update : Int, calc_load_idle : [0 .. 1 -> Int],
                  calc_load_idx : 0 .. 1, avenrun : {L.avenrun}]
        /\ S.calc_load_tasks = L.calc_load_tasks + L.calc_load_idle[r]
        /\ S.calc_load_update = L.calc_load_update /\ S.calc_load_idx = r
        /\ S.calc_load_idle[r] = 0 /\ S.calc_load_idle[1 - r] = L.calc_load_idle[1 - r]
    BY FoldIdle
  <2> HIDE DEF S
  <2>2. calc_global_load(L, j) = calc_global_nohz(M, j)
    BY <1>2, <2>1 DEF calc_global_load, S
  <2> HIDE DEF av
  <2>3. /\ M.calc_load_update = u /\ M.calc_load_idx = r /\ M.calc_load_idle = S.calc_load_idle
        /\ M.calc_load_tasks = S.calc_load_tasks
        /\ M \in [calc_load_tasks : Int, calc_load_update : Int, calc_load_idle : [0 .. 1 -> Int],
                  calc_load_idx : 0 .. 1, avenrun : {av}]
    <3>1. u \in Int
      BY <1>0
    <3> HIDE DEF u
    <3>2. M.calc_load_update = u /\ M.calc_load_idx = r /\ M.calc_load_idle = S.calc_load_idle
          /\ M.calc_load_tasks = S.calc_load_tasks
      BY <2>1
    <3>3. M \in [calc_load_tasks : Int, calc_load_update : Int, calc_load_idle : [0 .. 1 -> Int],
                 calc_load_idx : 0 .. 1, avenrun : {av}]
      BY <2>1, <3>1
    <3> QED BY <3>2, <3>3
  <2> HIDE DEF M
  <2>4. calc_global_nohz(M, j) = N
    BY <2>3 DEF calc_global_nohz
  <2>5. /\ OnGrid(X.calc_load_update) /\ j < X.calc_load_update + Window
        /\ X.calc_load_update > L.calc_load_update /\ X.calc_load_idx = r
        /\ X.calc_load_idle = S.calc_load_idle /\ X.calc_load_tasks = S.calc_load_tasks
        /\ X \in [calc_load_tasks : Int, calc_load_update : Int, calc_load_idle : [0 .. 1 -> Int],
                  calc_load_idx : 0 .. 1, avenrun : {X.avenrun}]
    <3>1. OnGrid(u) /\ u \in Int /\ u > L.calc_load_update
      BY <1>0, GridNext
    <3>2. CASE delta < 0
      BY <1>0, <2>3, <3>1, <3>2
    <3>3. CASE ~(delta < 0)
      <4>1. delta \in Nat
        BY <1>0, <2>3, <3>1, <3>3
      <4> HIDE DEF delta
      <4>2. n \in Nat /\ delta < n * LOAD_FREQ
        BY <4>1, DivBound
      <4> HIDE DEF n, u
      <4>3. v \in Int /\ OnGrid(v)
        BY <1>0, <3>1, <4>2, GridNext
      <4>4. n * LOAD_FREQ \in Int /\ n * LOAD_FREQ > 0
        BY <1>0, <4>1, <4>2
      <4>5. j < v + Window /\ v > L.calc_load_update
        <5> DEFINE w == n * LOAD_FREQ
        <5>1. w \in Int /\ w > 0 /\ delta < w /\ v = u + w
          BY <4>2, <4>4
        <5>2. delta = j - u - Window
          BY <2>3 DEF delta
        <5> HIDE DEF w, v
        <5> QED BY <1>0, <3>1, <4>1, <5>1, <5>2
      <4> HIDE DEF v, av2
      <4>6. X = [M EXCEPT !.calc_load_update = v, !.avenrun = av2]
        BY <3>3
      <4> HIDE DEF X
      <4>7. /\ X.calc_load_update = v /\ X.calc_load_idx = r /\ X.avenrun = av2
            /\ X.calc_load_idle = S.calc_load_idle /\ X.calc_load_tasks = S.calc_load_tasks
        BY <2>3, <4>6
      <4>8. X \in [calc_load_tasks : Int, calc_load_update : Int, calc_load_idle : [0 .. 1 -> Int],
                   calc_load_idx : 0 .. 1, avenrun : {av2}]
        BY <2>3, <4>3, <4>6
      <4> QED BY <4>3, <4>5, <4>7, <4>8
    <3> QED BY <3>2, <3>3
  <2> HIDE DEF X
  <2>6. 1 - r \in 0 .. 1
    BY <1>0
  <2>7. /\ N.calc_load_update = X.calc_load_update /\ N.calc_load_idx = 1 - r
        /\ N.calc_load_idle = S.calc_load_idle /\ N.calc_load_tasks = S.calc_load_tasks
        /\ N.avenrun = X.avenrun
    BY <2>5
  <2>8. N \in [calc_load_tasks : Int, calc_load_update : Int, calc_load_idle : [0 .. 1 -> Int],
               calc_load_idx : 0 .. 1, avenrun : {X.avenrun}]
    BY <2>5, <2>6
  <2> HIDE DEF N
  <2>9. X.calc_load_update \in Int
    BY <2>5
  <2> QED BY <1>0, <2>1, <2>2, <2>4, <2>5, <2>7, <2>8, <2>9 DEF Updated, IsLoad
<1> QED BY <1>1, <1>2

Accounted(c, L, j, own, delta) ==
  /\ IsLoad(own.load) /\ own.load.calc_load_tasks = L.calc_load_tasks + delta
  /\ own.load.calc_load_update = L.calc_load_update
  /\ own.load.calc_load_idle = L.calc_load_idle /\ own.load.calc_load_idx = L.calc_load_idx
  /\ own.cpu \in Rq /\ own.cpu.calc_load_active = c.calc_load_active + delta
  /\ own.cpu.nohz = c.nohz /\ own.cpu.late = c.late
  /\ IF j < c.calc_load_update
     THEN delta = 0 /\ own.cpu.calc_load_update = c.calc_load_update
     ELSE own.cpu.calc_load_update = c.calc_load_update + LOAD_FREQ

\* calc_load_account_active: what changed since the CPU's last sample is folded.
LEMMA AccountActive ==
  ASSUME NEW c \in Rq, NEW L, IsLoad(L), NEW j \in Int
  PROVE  \E delta \in Int : Accounted(c, L, j, calc_load_account_active(c, L, j), delta)
<1>0. LOAD_FREQ \in Nat
  BY LoadConstants
<1>1. CASE j < c.calc_load_update
  <2> DEFINE own == [cpu |-> c, load |-> L]
  <2>1. calc_load_account_active(c, L, j) = own
    BY <1>1 DEF calc_load_account_active
  <2>2. own.cpu = c /\ own.load = L
    OBVIOUS
  <2>3. L.calc_load_tasks \in Int /\ c.calc_load_active \in Int
    BY DEF IsLoad, Rq
  <2> HIDE DEF own
  <2>4. Accounted(c, L, j, own, 0)
    BY <1>1, <2>2, <2>3 DEF Accounted
  <2> QED BY <2>1, <2>4
<1>2. CASE ~(j < c.calc_load_update)
  <2> DEFINE delta == calc_load_fold_active(c)
             a == c.calc_load_active + delta
             u == c.calc_load_update + LOAD_FREQ
             d == [c EXCEPT !.calc_load_active = a, !.calc_load_update = u]
             t == L.calc_load_tasks + delta
             M == [L EXCEPT !.calc_load_tasks = t]
             own == [cpu |-> d, load |-> M]
  <2>1. delta \in Int /\ a \in Int /\ u \in Int /\ t \in Int
    BY <1>0 DEF calc_load_fold_active, IsLoad, Rq
  <2>2. calc_load_account_active(c, L, j) = own
    BY <1>2 DEF calc_load_account_active
  <2> HIDE DEF delta
  <2>3. own.cpu = d /\ own.load = M
    OBVIOUS
  <2>4. t = L.calc_load_tasks + delta /\ a = c.calc_load_active + delta
        /\ u = c.calc_load_update + LOAD_FREQ
    OBVIOUS
  <2> HIDE DEF a, u, t, own
  <2>5. d \in Rq
    BY <2>1 DEF Rq
  <2>6. d.calc_load_active = a /\ d.calc_load_update = u /\ d.nohz = c.nohz /\ d.late = c.late
    BY DEF Rq
  <2>7. /\ M.calc_load_tasks = t /\ M.calc_load_update = L.calc_load_update
        /\ M.calc_load_idle = L.calc_load_idle /\ M.calc_load_idx = L.calc_load_idx
        /\ M.avenrun = L.avenrun
    BY DEF IsLoad
  <2>8. IsLoad(M)
    BY <2>1, <2>7 DEF IsLoad
  <2> HIDE DEF d, M
  <2>9. Accounted(c, L, j, own, delta)
    BY <1>2, <2>3, <2>4, <2>5, <2>6, <2>7, <2>8 DEF Accounted
  <2> QED BY <2>1, <2>2, <2>9
<1> QED BY <1>1, <1>2

-----------------------------------------------------------------------------
(* The steps. *)

\* Two records of a CPU that contribute alike.
Alike(c, d) ==
  /\ d \in Rq /\ d.calc_load_active = c.calc_load_active
  /\ d.calc_load_update = c.calc_load_update /\ d.nohz = c.nohz

\* Contributions that do not change.
LEMMA SameActive ==
  ASSUME \A c \in CPUs : cpu'[c].calc_load_active = cpu[c].calc_load_active
  PROVE  Active' = Active
BY DEF Active

\* The contribution of one CPU changes.
LEMMA ActiveChange ==
  ASSUME cpu \in [CPUs -> Rq], NEW c \in CPUs, NEW delta \in Int,
         cpu'[c].calc_load_active = cpu[c].calc_load_active + delta,
         \A d \in CPUs \ {c} : cpu'[d].calc_load_active = cpu[d].calc_load_active
  PROVE  /\ Active \in [CPUs -> Int] /\ Active' \in [CPUs -> Int]
         /\ Active' = [Active EXCEPT ![c] = cpu[c].calc_load_active + delta]
         /\ Active'[c] = Active[c] + delta
         /\ SumFunction(Active') = SumFunction(Active) + delta
<1>1. \A d \in CPUs : cpu[d].calc_load_active \in Int
  BY DEF Rq
<1>2. Active \in [CPUs -> Int] /\ Active[c] = cpu[c].calc_load_active
  BY <1>1 DEF Active
<1> DEFINE v == cpu[c].calc_load_active + delta
<1>3. v \in Int
  BY <1>1
<1>4. Active' = [Active EXCEPT ![c] = v]
  BY DEF Active
<1> HIDE DEF v
<1>5. SumFunction(Active') = SumFunction(Active) - Active[c] + v
  BY <1>2, <1>3, <1>4, SumChange, LoadConstants
<1>6. SumFunction(Active) \in Int
  BY <1>2, SumType, LoadConstants
<1>7. Active' \in [CPUs -> Int] /\ Active'[c] = v
  BY <1>2, <1>3, <1>4
<1>8. SumFunction(Active') = SumFunction(Active) + delta
  BY <1>1, <1>2, <1>5, <1>6 DEF v
<1> QED BY <1>2, <1>4, <1>7, <1>8 DEF v

\* A CPU's tick without the global update: timekeeper_tick and late_tick.
LEMMA TickAlone ==
  ASSUME LInv, NEW c \in CPUs, ~cpu[c].nohz, NEW j \in {jiffies, jiffies + 1},
         j < load.calc_load_update + Window, jiffies' = j,
         NEW own, NEW delta \in Int, Accounted(cpu[c], load, j, own, delta),
         load' = own.load, cpu' \in [CPUs -> Rq], Alike(own.cpu, cpu'[c]),
         \A d \in CPUs \ {c} : Alike(cpu[d], cpu'[d]),
         \A d \in CPUs : cpu'[d].late > 0 => ~cpu'[d].nohz,
         Reopen({c}), sample' = sample
  PROVE  LInv'
<1>1. /\ Typed /\ TimesOK /\ SumsOK /\ OpenedOK
      /\ cpu \in [CPUs -> Rq] /\ opened \in [CPUs -> Int] /\ IsLoad(load) /\ jiffies \in Int
  BY DEF LInv, Typed
<1>2. /\ LOAD_FREQ \in Nat /\ Window \in Nat /\ Window < LOAD_FREQ
      /\ load.calc_load_update \in Int /\ \A d \in CPUs : cpu[d].calc_load_update \in Int
      /\ \A d \in CPUs : cpu[d].calc_load_active \in Int
  BY <1>1, LoadConstants DEF IsLoad, Rq
<1>3. /\ IsLoad(load') /\ load'.calc_load_tasks = load.calc_load_tasks + delta
      /\ load'.calc_load_update = load.calc_load_update
      /\ load'.calc_load_idle = load.calc_load_idle /\ load'.calc_load_idx = load.calc_load_idx
  BY DEF Accounted
<1>4. /\ cpu'[c].calc_load_active = cpu[c].calc_load_active + delta
      /\ \A d \in CPUs \ {c} : cpu'[d].calc_load_active = cpu[d].calc_load_active
  BY DEF Accounted, Alike
<1>5. /\ Active \in [CPUs -> Int] /\ Active' \in [CPUs -> Int]
      /\ Active' = [Active EXCEPT ![c] = cpu[c].calc_load_active + delta]
      /\ Active'[c] = Active[c] + delta
      /\ SumFunction(Active') = SumFunction(Active) + delta
  BY <1>1, <1>4, ActiveChange
<1>6. cpu[c].calc_load_update <= j => cpu[c].calc_load_update <= load.calc_load_update
  BY <1>1, <1>2, GridApart DEF TimesOK
<1>7. /\ cpu[c].calc_load_update <= j => opened[c] = cpu[c].calc_load_active
      /\ j < load.calc_load_update => opened = Active
  BY <1>1, <1>2, <1>6 DEF OpenedOK
<1>8. opened' = [opened EXCEPT ![c] = opened[c] + delta] /\ opened' \in [CPUs -> Int]
  <2>1. CASE j < load.calc_load_update
    <3>1. opened' = Active'
      BY <1>3, <2>1 DEF Reopen, Active
    <3>2. Active[c] = cpu[c].calc_load_active
      BY DEF Active
    <3> QED BY <1>5, <1>7, <2>1, <3>1, <3>2
  <2>2. CASE ~(j < load.calc_load_update)
    <3>1. opened' = [d \in CPUs |-> IF d \in {c} /\ cpu[d].calc_load_update <= j
                                    THEN cpu'[d].calc_load_active ELSE opened[d]]
      BY <1>3, <2>2 DEF Reopen
    <3> DEFINE v == opened[c] + delta
    <3>2. v \in Int
      BY <1>1
    <3>3. CASE cpu[c].calc_load_update <= j
      <4>1. cpu'[c].calc_load_active = v
        BY <1>4, <1>7, <3>3
      <4> HIDE DEF v
      <4>2. opened' = [d \in CPUs |-> IF d = c THEN v ELSE opened[d]]
        BY <3>1, <3>3, <4>1
      <4>3. opened' = [opened EXCEPT ![c] = v] /\ opened' \in [CPUs -> Int]
        BY <1>1, <3>2, <4>2
      <4> QED BY <4>3 DEF v
    <3>4. CASE ~(cpu[c].calc_load_update <= j)
      <4>1. delta = 0
        BY <1>1, <1>2, <3>4 DEF Accounted
      <4>2. v = opened[c]
        BY <1>1, <4>1
      <4>3. opened' = [d \in CPUs |-> opened[d]]
        BY <3>1, <3>4
      <4> HIDE DEF v
      <4>4. opened' = [opened EXCEPT ![c] = v] /\ opened' \in [CPUs -> Int]
        BY <1>1, <4>2, <4>3
      <4> QED BY <4>4 DEF v
    <3> QED BY <3>3, <3>4
  <2> QED BY <2>1, <2>2
<1>9. SumFunction(opened') = SumFunction(opened) + delta
  <2> DEFINE v == opened[c] + delta
  <2>1. v \in Int /\ opened' = [opened EXCEPT ![c] = v]
    BY <1>1, <1>8
  <2>2. SumFunction(opened) \in Int
    BY <1>1, SumType, LoadConstants
  <2> HIDE DEF v
  <2>3. SumFunction(opened') = SumFunction(opened) - opened[c] + v
    BY <1>1, <2>1, SumChange, LoadConstants
  <2> QED BY <1>1, <2>2, <2>3 DEF v
<1>10. Typed'
  BY <1>1, <1>3, <1>8 DEF Typed
<1>11. SumsOK'
  <2>1. /\ load.calc_load_tasks \in Int /\ load.calc_load_idle[0] \in Int
        /\ load.calc_load_idle[1] \in Int /\ load.calc_load_idle[load.calc_load_idx] \in Int
    BY <1>1 DEF IsLoad
  <2> QED BY <1>1, <1>3, <1>5, <1>9, <2>1 DEF SumsOK
<1>12. TimesOK'
  <2>1. ASSUME NEW d \in CPUs
        PROVE  /\ OnGrid(cpu'[d].calc_load_update)
               /\ cpu'[d].calc_load_update <= load.calc_load_update + LOAD_FREQ
    <3>1. CASE cpu'[d].calc_load_update = cpu[d].calc_load_update
      BY <1>1, <3>1 DEF TimesOK
    <3>2. CASE d = c /\ ~(j < cpu[c].calc_load_update)
      <4>1. cpu'[d].calc_load_update = cpu[c].calc_load_update + LOAD_FREQ
        BY <3>2 DEF Accounted, Alike
      <4>2. OnGrid(cpu[c].calc_load_update + LOAD_FREQ)
        BY <1>1, <1>2, GridNext DEF TimesOK
      <4> QED BY <1>1, <1>2, <1>6, <3>2, <4>1, <4>2
    <3> QED BY <3>1, <3>2 DEF Accounted, Alike
  <2>2. jiffies' < load'.calc_load_update + Window /\ OnGrid(load'.calc_load_update)
    BY <1>1, <1>3 DEF TimesOK
  <2> QED BY <1>3, <2>1, <2>2 DEF TimesOK
<1>13. OpenedOK'
  <2>1. jiffies' < load'.calc_load_update => opened' = Active'
    BY <1>3 DEF Reopen, Active
  <2>2. ASSUME NEW d \in CPUs, ~cpu'[d].nohz,
               cpu'[d].calc_load_update <= load.calc_load_update
        PROVE  opened'[d] = cpu'[d].calc_load_active
    <3>1. CASE d = c
      <4>1. cpu[c].calc_load_update <= load.calc_load_update
        BY <1>2, <2>2, <3>1 DEF Accounted, Alike
      <4>2. opened[c] = cpu[c].calc_load_active
        BY <1>1, <4>1 DEF OpenedOK
      <4> QED BY <1>1, <1>4, <1>8, <3>1, <4>2
    <3>2. CASE d # c
      <4>1. opened[d] = cpu[d].calc_load_active
        BY <1>1, <2>2, <3>2 DEF OpenedOK, Alike
      <4> QED BY <1>1, <1>4, <1>8, <3>2, <4>1
    <3> QED BY <3>1, <3>2
  <2> QED BY <1>3, <2>1, <2>2 DEF OpenedOK
<1> QED BY <1>10, <1>11, <1>12, <1>13 DEF LInv

\* A CPU's tick, or an interrupt, with the global update: the index flips, the
\* window that opens next starts from what the CPUs contribute now.
LEMMA UpdateStep ==
  ASSUME LInv, NEW j \in Int, jiffies' = j, NEW N, Updated(load, N, j), N # load,
         IsLoad(load'), NEW delta \in Int,
         load'.calc_load_tasks = N.calc_load_tasks + delta,
         load'.calc_load_update = N.calc_load_update,
         load'.calc_load_idle = N.calc_load_idle, load'.calc_load_idx = N.calc_load_idx,
         cpu' \in [CPUs -> Rq],
         SumFunction(Active') = SumFunction(Active) + delta,
         \A d \in CPUs : /\ OnGrid(cpu'[d].calc_load_update)
                         /\ cpu'[d].calc_load_update <= N.calc_load_update + LOAD_FREQ
                         /\ cpu'[d].late > 0 => ~cpu'[d].nohz,
         opened' = Active', sample'.used = sample'.due
  PROVE  LInv'
<1>1. Typed /\ TimesOK /\ SumsOK /\ IsLoad(load)
  BY DEF LInv, Typed
<1>2. \A d \in CPUs : cpu'[d].calc_load_active \in Int
  BY DEF Rq
<1>3. Active' \in [CPUs -> Int] /\ \A d \in CPUs : Active'[d] = cpu'[d].calc_load_active
  BY <1>2 DEF Active
<1>4. Typed'
  BY <1>3 DEF Typed
<1>5. TimesOK'
  BY DEF TimesOK, Updated
<1>6. OpenedOK'
  BY <1>3 DEF OpenedOK
<1>7. SumsOK'
  <2> DEFINE i == load.calc_load_idx
             a == load.calc_load_idle[i]
             b == load.calc_load_idle[1 - i]
  <2>1. /\ load.calc_load_tasks \in Int /\ i \in 0 .. 1 /\ a \in Int /\ b \in Int
        /\ load.calc_load_idle[0] + load.calc_load_idle[1] = a + b
    BY <1>1 DEF IsLoad
  <2>2. /\ N.calc_load_tasks = load.calc_load_tasks + a /\ N.calc_load_idx = 1 - i
        /\ N.calc_load_idle[1 - i] = b /\ N.calc_load_idle[i] = 0
    BY DEF Updated
  <2>3. /\ load'.calc_load_idle[load'.calc_load_idx] = b
        /\ load'.calc_load_idle[0] + load'.calc_load_idle[1] = b
    BY <2>1, <2>2
  <2>4. load.calc_load_tasks + a + b = SumFunction(Active)
    BY <1>1, <2>1 DEF SumsOK, IsLoad
  <2>5. /\ load'.calc_load_tasks = load.calc_load_tasks + a + delta
        /\ load'.calc_load_idle[0] \in Int /\ load'.calc_load_idle[1] \in Int
    BY <2>2 DEF IsLoad
  <2> HIDE DEF a, b
  <2> QED BY <2>1, <2>3, <2>4, <2>5 DEF SumsOK
<1> QED BY <1>4, <1>5, <1>6, <1>7 DEF LInv

\* The count used for avenrun is the one of the window's opening.
LEMMA SampleOK ==
  ASSUME LInv, NEW j \in Int, NEW N, Updated(load, N, j), Sampled(N)
  PROVE  IF N = load THEN sample' = sample ELSE sample'.used = sample'.due
<1>1. IsLoad(load) /\ SumsOK /\ opened \in [CPUs -> Int]
  BY DEF LInv, Typed
<1>2. CASE N = load
  BY <1>2 DEF Sampled
<1>3. CASE N # load
  <2>1. N.calc_load_update # load.calc_load_update
    BY <1>3 DEF Updated
  <2>2. [c \in CPUs |-> opened[c]] = opened
    BY <1>1
  <2>3. /\ sample'.used = calc_load_fold_idle(load).calc_load_tasks
        /\ sample'.due = SumFunction(opened)
    BY <2>1, <2>2 DEF Sampled, SumOver
  <2>4. calc_load_fold_idle(load).calc_load_tasks
          = load.calc_load_tasks + load.calc_load_idle[load.calc_load_idx]
    BY <1>1, FoldIdle
  <2> QED BY <1>1, <1>3, <2>3, <2>4 DEF SumsOK
<1> QED BY <1>2, <1>3

\* The tick of the CPU that keeps the time.
LEMMA TimekeeperTick ==
  ASSUME LInv, NEW c \in CPUs, timekeeper_tick(c)
  PROVE  LInv'
<1> DEFINE j == jiffies + 1
           L == calc_global_load(load, j)
           own == calc_load_account_active(cpu[c], L, j)
<1>1. /\ cpu \in [CPUs -> Rq] /\ opened \in [CPUs -> Int] /\ IsLoad(load) /\ jiffies \in Int
      /\ TimesOK /\ j \in Int /\ cpu[c] \in Rq /\ OnGrid(load.calc_load_update)
  BY DEF LInv, Typed, TimesOK
<1>2. Updated(load, L, j)
  BY <1>1, GlobalLoad
<1>3. /\ load' = own.load /\ jiffies' = j /\ Reopen({c}) /\ Sampled(L) /\ ~cpu[c].nohz
      /\ cpu' = [d \in CPUs |-> CASE d = c -> own.cpu
                                  [] d # c /\ cpu[d].nohz -> cpu[d]
                                  [] OTHER -> [cpu[d] EXCEPT !.late = @ + 1]]
  BY DEF timekeeper_tick
<1> HIDE DEF j, L
<1>4. IsLoad(L)
  BY <1>2 DEF Updated
<1>5. PICK delta \in Int : Accounted(cpu[c], L, j, own, delta)
  BY <1>1, <1>4, AccountActive
<1> HIDE DEF own
<1>6. cpu'[c] = own.cpu /\ own.cpu \in Rq /\ cpu'[c].nohz = cpu[c].nohz
  BY <1>3, <1>5 DEF Accounted
<1>7. ASSUME NEW d \in CPUs \ {c}
      PROVE  Alike(cpu[d], cpu'[d]) /\ (cpu'[d].late > 0 => ~cpu'[d].nohz)
  <2>1. cpu[d] \in Rq /\ (cpu[d].late > 0 => ~cpu[d].nohz)
    BY <1>1 DEF TimesOK
  <2>2. CASE cpu[d].nohz
    <3>1. cpu'[d] = cpu[d]
      BY <1>3, <1>7, <2>2
    <3> QED BY <2>1, <3>1 DEF Alike
  <2>3. CASE ~cpu[d].nohz
    <3> DEFINE n == cpu[d].late + 1
               r == [cpu[d] EXCEPT !.late = n]
    <3>1. cpu'[d] = r
      BY <1>3, <1>7, <2>3
    <3>2. n \in Int
      BY <2>1 DEF Rq
    <3> HIDE DEF n
    <3>3. /\ r \in Rq /\ r.calc_load_active = cpu[d].calc_load_active /\ r.nohz = cpu[d].nohz
          /\ r.calc_load_update = cpu[d].calc_load_update
      BY <2>1, <3>2 DEF Rq
    <3> HIDE DEF r
    <3> QED BY <2>3, <3>1, <3>3 DEF Alike
  <2> QED BY <2>2, <2>3
<1>8. cpu' \in [CPUs -> Rq]
  <2>1. \A d \in CPUs : cpu'[d] \in Rq
    BY <1>6, <1>7 DEF Alike
  <2> QED BY <1>3, <2>1
<1>9. IF L = load THEN sample' = sample ELSE sample'.used = sample'.due
  BY <1>1, <1>2, <1>3, SampleOK
<1>10. \A d \in CPUs : cpu'[d].late > 0 => ~cpu'[d].nohz
  BY <1>3, <1>6, <1>7
<1>11. CASE L = load
  <2>1. Accounted(cpu[c], load, j, own, delta) /\ j < load.calc_load_update + Window
    BY <1>2, <1>5, <1>11 DEF Updated
  <2>2. Alike(own.cpu, cpu'[c])
    BY <1>6 DEF Alike
  <2>3. j \in {jiffies, jiffies + 1} /\ sample' = sample
    BY <1>9, <1>11 DEF j
  <2> QED BY <1>3, <1>7, <1>8, <1>10, <2>1, <2>2, <2>3, TickAlone
<1>12. CASE L # load
  <2>1. /\ IsLoad(load') /\ load'.calc_load_tasks = L.calc_load_tasks + delta
        /\ load'.calc_load_update = L.calc_load_update
        /\ load'.calc_load_idle = L.calc_load_idle /\ load'.calc_load_idx = L.calc_load_idx
    BY <1>3, <1>5 DEF Accounted
  <2>2. SumFunction(Active') = SumFunction(Active) + delta
    <3>1. /\ cpu'[c].calc_load_active = cpu[c].calc_load_active + delta
          /\ \A d \in CPUs \ {c} : cpu'[d].calc_load_active = cpu[d].calc_load_active
      BY <1>5, <1>6, <1>7 DEF Accounted, Alike
    <3> QED BY <1>1, <3>1, ActiveChange
  <2>3. opened' = Active'
    BY <1>2, <1>3, <1>12, <2>1 DEF Reopen, Active, Updated
  <2>4. ASSUME NEW d \in CPUs
        PROVE  /\ OnGrid(cpu'[d].calc_load_update)
               /\ cpu'[d].calc_load_update <= L.calc_load_update + LOAD_FREQ
    <3>0. /\ LOAD_FREQ \in Nat /\ Window \in Nat /\ Window < LOAD_FREQ
          /\ L.calc_load_update \in Int /\ load.calc_load_update \in Int
          /\ cpu[d].calc_load_update \in Int
          /\ load.calc_load_update <= L.calc_load_update
          /\ OnGrid(L.calc_load_update) /\ j < L.calc_load_update + Window
      BY <1>1, <1>2, <1>4, LoadConstants DEF IsLoad, Rq, Updated
    <3>00. OnGrid(cpu[d].calc_load_update)
           /\ cpu[d].calc_load_update <= load.calc_load_update + LOAD_FREQ
      BY <1>1 DEF TimesOK
    <3>1. CASE cpu'[d].calc_load_update = cpu[d].calc_load_update
      BY <3>0, <3>00, <3>1
    <3>2. CASE d = c /\ ~(j < cpu[c].calc_load_update)
      <4>1. cpu'[d].calc_load_update = cpu[c].calc_load_update + LOAD_FREQ
        BY <1>5, <1>6, <3>2 DEF Accounted
      <4>2. OnGrid(cpu[c].calc_load_update + LOAD_FREQ)
        BY <3>0, <3>00, <3>2, GridNext
      <4>3. cpu[c].calc_load_update <= L.calc_load_update
        BY <1>1, <3>0, <3>00, <3>2, GridApart
      <4> QED BY <3>0, <3>2, <4>1, <4>2, <4>3
    <3> QED BY <1>5, <1>6, <1>7, <3>1, <3>2 DEF Accounted, Alike
  <2> QED BY <1>1, <1>2, <1>3, <1>8, <1>9, <1>10, <1>12, <2>1, <2>2, <2>3, <2>4, UpdateStep
<1> QED BY <1>11, <1>12

\* Another CPU's tick.
LEMMA LateTick ==
  ASSUME LInv, NEW c \in CPUs, late_tick(c)
  PROVE  LInv'
<1> DEFINE own == calc_load_account_active(cpu[c], load, jiffies)
           r == [own.cpu EXCEPT !.late = 0]
<1>1. /\ cpu \in [CPUs -> Rq] /\ IsLoad(load) /\ jiffies \in Int /\ TimesOK /\ cpu[c] \in Rq
      /\ ~cpu[c].nohz /\ jiffies < load.calc_load_update + Window
  BY DEF LInv, Typed, TimesOK, late_tick
<1>2. /\ load' = own.load /\ cpu' = [cpu EXCEPT ![c] = r] /\ jiffies' = jiffies
      /\ Reopen({c}) /\ sample' = sample
  BY DEF late_tick
<1>3. PICK delta \in Int : Accounted(cpu[c], load, jiffies, own, delta)
  BY <1>1, AccountActive
<1> HIDE DEF own
<1>4. own.cpu \in Rq /\ own.cpu.nohz = cpu[c].nohz
  BY <1>3 DEF Accounted
<1>5. Alike(own.cpu, r) /\ r \in Rq /\ r.late = 0
  BY <1>4 DEF Alike, Rq
<1> HIDE DEF r
<1>6. cpu' \in [CPUs -> Rq] /\ cpu'[c] = r /\ \A d \in CPUs \ {c} : cpu'[d] = cpu[d]
  BY <1>1, <1>2, <1>5
<1>7. \A d \in CPUs \ {c} : Alike(cpu[d], cpu'[d])
  BY <1>1, <1>6 DEF Alike
<1>8. \A d \in CPUs : cpu'[d].late > 0 => ~cpu'[d].nohz
  BY <1>1, <1>5, <1>6 DEF TimesOK
<1>9. Alike(own.cpu, cpu'[c]) /\ jiffies \in {jiffies, jiffies + 1}
  BY <1>5, <1>6
<1> QED BY <1>1, <1>2, <1>3, <1>6, <1>7, <1>8, <1>9, TickAlone

\* A step that changes no contribution and no time: the tasks come and go.
LEMMA Uncounted ==
  ASSUME LInv, cpu' \in [CPUs -> Rq], UNCHANGED <<jiffies, load, opened, sample>>,
         \A d \in CPUs : Alike(cpu[d], cpu'[d]) /\ cpu'[d].late = cpu[d].late
  PROVE  LInv'
<1>1. Active' = Active
  BY SameActive DEF Alike
<1>2. Typed'
  BY DEF LInv, Typed
<1>3. SumsOK'
  BY <1>1 DEF LInv, SumsOK
<1>4. TimesOK'
  BY DEF LInv, TimesOK, Alike
<1>5. OpenedOK'
  BY <1>1 DEF LInv, OpenedOK, Alike
<1> QED BY <1>2, <1>3, <1>4, <1>5 DEF LInv

\* activate_task and deactivate_task.
LEMMA MoveTasks ==
  ASSUME LInv, NEW c \in CPUs, NEW b \in BOOLEAN, activate_task(c, b) \/ deactivate_task(c, b)
  PROVE  LInv'
<1>1. cpu \in [CPUs -> Rq] /\ cpu[c] \in Rq /\ UNCHANGED <<jiffies, load, opened, sample>>
  BY DEF LInv, Typed, activate_task, deactivate_task
<1>2. PICK n \in Int, m \in Int :
        cpu' = [cpu EXCEPT ![c] = [cpu[c] EXCEPT !.nr_running = n, !.nr_uninterruptible = m]]
  <2>1. cpu[c].nr_running \in Int /\ cpu[c].nr_uninterruptible \in Int
    BY <1>1 DEF Rq
  <2>2. CASE activate_task(c, b)
    <3> DEFINE n == cpu[c].nr_running + 1
               m == IF b THEN cpu[c].nr_uninterruptible - 1 ELSE cpu[c].nr_uninterruptible
    <3>1. cpu' = [cpu EXCEPT ![c] = [cpu[c] EXCEPT !.nr_running = n, !.nr_uninterruptible = m]]
      BY <1>1, <2>2 DEF activate_task, Rq
    <3>2. n \in Int /\ m \in Int
      BY <2>1
    <3> HIDE DEF n, m
    <3> QED BY <3>1, <3>2
  <2>3. CASE deactivate_task(c, b)
    <3> DEFINE n == cpu[c].nr_running - 1
               m == IF b THEN cpu[c].nr_uninterruptible + 1 ELSE cpu[c].nr_uninterruptible
    <3>1. cpu' = [cpu EXCEPT ![c] = [cpu[c] EXCEPT !.nr_running = n, !.nr_uninterruptible = m]]
      BY <1>1, <2>3 DEF deactivate_task, Rq
    <3>2. n \in Int /\ m \in Int
      BY <2>1
    <3> HIDE DEF n, m
    <3> QED BY <3>1, <3>2
  <2> QED BY <2>2, <2>3
<1> DEFINE r == [cpu[c] EXCEPT !.nr_running = n, !.nr_uninterruptible = m]
<1>3. Alike(cpu[c], r) /\ r \in Rq /\ r.late = cpu[c].late
  BY <1>1 DEF Alike, Rq
<1> HIDE DEF r
<1>4. cpu' = [cpu EXCEPT ![c] = r]
  BY <1>2 DEF r
<1>5. cpu' \in [CPUs -> Rq]
  BY <1>1, <1>3, <1>4
<1>6. \A d \in CPUs : Alike(cpu[d], cpu'[d]) /\ cpu'[d].late = cpu[d].late
  BY <1>1, <1>3, <1>4 DEF Alike
<1> QED BY <1>1, <1>5, <1>6, Uncounted

\* An interrupt while every CPU sleeps.
LEMMA IdleInterrupt ==
  ASSUME LInv, NEW ticks \in Int, ticks > 0, idle_interrupt(ticks)
  PROVE  LInv'
<1> DEFINE j == jiffies + ticks
<1>1. /\ cpu \in [CPUs -> Rq] /\ opened \in [CPUs -> Int] /\ IsLoad(load) /\ jiffies \in Int
      /\ TimesOK /\ SumsOK /\ OpenedOK /\ j \in Int /\ jiffies < j /\ OnGrid(load.calc_load_update)
  BY DEF LInv, Typed, TimesOK
<1>2. /\ load' = calc_global_load(load, j) /\ jiffies' = j /\ cpu' = cpu /\ Reopen({})
      /\ Sampled(load') /\ \A c \in CPUs : cpu[c].nohz
  BY DEF idle_interrupt
<1> HIDE DEF j
<1>3. Updated(load, load', j)
  BY <1>1, <1>2, GlobalLoad
<1>4. Active' = Active
  BY <1>2, SameActive
<1>5. IF load' = load THEN sample' = sample ELSE sample'.used = sample'.due
  BY <1>1, <1>2, <1>3, SampleOK
<1>6. CASE load' = load
  <2>1. load.calc_load_update \in Int
    BY <1>1 DEF IsLoad
  <2>2. opened' = opened
    <3>1. CASE j < load.calc_load_update
      <4>1. opened' = Active'
        BY <1>2, <1>6, <3>1 DEF Reopen, Active
      <4> QED BY <1>1, <1>4, <2>1, <3>1, <4>1 DEF OpenedOK
    <3>2. CASE ~(j < load.calc_load_update)
      <4>1. opened' = [c \in CPUs |-> opened[c]]
        BY <1>2, <1>6, <3>2 DEF Reopen
      <4> QED BY <1>1, <4>1
    <3> QED BY <3>1, <3>2
  <2>3. Typed' /\ SumsOK'
    BY <1>1, <1>2, <1>4, <1>6, <2>2 DEF Typed, SumsOK
  <2>4. TimesOK'
    BY <1>1, <1>2, <1>3, <1>6 DEF TimesOK, Updated
  <2>5. OpenedOK'
    BY <1>1, <1>2, <1>4, <1>6, <2>1, <2>2 DEF OpenedOK
  <2> QED BY <1>5, <1>6, <2>3, <2>4, <2>5 DEF LInv
<1>7. CASE load' # load
  <2> DEFINE N == load'
  <2>1. IsLoad(load') /\ opened' = Active'
    BY <1>2, <1>3, <1>7 DEF Updated, Reopen, Active
  <2>2. /\ N.calc_load_tasks \in Int /\ N.calc_load_update \in Int
        /\ load.calc_load_update \in Int /\ load.calc_load_update <= N.calc_load_update
    BY <1>1, <1>3, <2>1 DEF IsLoad, Updated
  <2>3. Active \in [CPUs -> Int]
    BY <1>1 DEF Active, Rq
  <2>4. SumFunction(Active') = SumFunction(Active) + 0
    BY <1>4, <2>3, SumType, LoadConstants
  <2>5. load'.calc_load_tasks = N.calc_load_tasks + 0
    BY <2>2
  <2>6. \A d \in CPUs : /\ OnGrid(cpu'[d].calc_load_update)
                        /\ cpu'[d].calc_load_update <= N.calc_load_update + LOAD_FREQ
                        /\ cpu'[d].late > 0 => ~cpu'[d].nohz
    BY <1>1, <1>2, <2>2, LoadConstants DEF TimesOK, Rq
  <2>7. cpu' \in [CPUs -> Rq] /\ sample'.used = sample'.due
    BY <1>1, <1>2, <1>5, <1>7
  <2> QED BY <1>1, <1>2, <1>3, <1>7, <2>1, <2>4, <2>5, <2>6, <2>7, UpdateStep
<1> QED BY <1>6, <1>7

\* A CPU stops its tick: before the window what it folds belongs to this window,
\* from its opening on to the next.
LEMMA EnterIdle ==
  ASSUME LInv, NEW c \in CPUs, calc_load_enter_idle(c)
  PROVE  LInv'
<1> DEFINE delta == calc_load_fold_active(cpu[c])
           w == calc_load_write_idx(load)
           a == cpu[c].calc_load_active + delta
           r == [cpu[c] EXCEPT !.calc_load_active = a, !.nohz = TRUE, !.late = 0]
           v == load.calc_load_idle[w] + delta
           idle == [load.calc_load_idle EXCEPT ![w] = v]
           N == [load EXCEPT !.calc_load_idle = idle]
<1>1. /\ cpu \in [CPUs -> Rq] /\ opened \in [CPUs -> Int] /\ IsLoad(load) /\ jiffies \in Int
      /\ TimesOK /\ SumsOK /\ OpenedOK /\ cpu[c] \in Rq
      /\ jiffies' = jiffies /\ Reopen({}) /\ sample' = sample
  BY DEF LInv, Typed, calc_load_enter_idle
<1>2. /\ load.calc_load_idle \in [0 .. 1 -> Int] /\ load.calc_load_idx \in 0 .. 1
      /\ load.calc_load_tasks \in Int
  BY <1>1 DEF IsLoad
<1>3. delta \in Int /\ a \in Int
  BY <1>1 DEF calc_load_fold_active, Rq
<1>4. w \in 0 .. 1
  BY <1>2 DEF calc_load_write_idx
<1>5. load' = N /\ cpu' = [cpu EXCEPT ![c] = r]
  BY <1>1, <1>2 DEF calc_load_enter_idle, IsLoad
<1>6. /\ w = (IF jiffies < load.calc_load_update THEN load.calc_load_idx
              ELSE 1 - load.calc_load_idx)
      /\ a = cpu[c].calc_load_active + delta
  BY DEF calc_load_write_idx
<1> HIDE DEF delta, w, a
<1>7. v \in Int
  BY <1>2, <1>3, <1>4
<1>8. idle \in [0 .. 1 -> Int] /\ idle[w] = load.calc_load_idle[w] + delta
      /\ idle[1 - w] = load.calc_load_idle[1 - w]
  BY <1>2, <1>4, <1>7
<1> HIDE DEF v, idle
<1>9. /\ N.calc_load_idle = idle /\ N.calc_load_tasks = load.calc_load_tasks
      /\ N.calc_load_update = load.calc_load_update /\ N.calc_load_idx = load.calc_load_idx
      /\ N.avenrun = load.avenrun
  BY <1>1 DEF IsLoad
<1>10. IsLoad(N)
  BY <1>1, <1>8, <1>9 DEF IsLoad
<1> HIDE DEF N
<1>11. r \in Rq
  <2> DEFINE q == [cpu[c] EXCEPT !.calc_load_active = a]
  <2>1. q \in Rq
    BY <1>1, <1>3 DEF Rq
  <2> DEFINE p == [q EXCEPT !.nohz = TRUE]
  <2>2. r = [p EXCEPT !.late = 0]
    OBVIOUS
  <2> HIDE DEF q
  <2>3. p \in Rq
    BY <2>1 DEF Rq
  <2> HIDE DEF p, r
  <2> QED BY <2>2, <2>3 DEF Rq
<1>12. r.calc_load_active = a /\ r.nohz = TRUE /\ r.late = 0
       /\ r.calc_load_update = cpu[c].calc_load_update
  BY <1>1 DEF Rq
<1> HIDE DEF r
<1>13. /\ cpu' \in [CPUs -> Rq] /\ cpu'[c] = r /\ \A d \in CPUs \ {c} : cpu'[d] = cpu[d]
  BY <1>1, <1>5, <1>11
<1>14. /\ Active' = [Active EXCEPT ![c] = cpu[c].calc_load_active + delta]
       /\ Active' \in [CPUs -> Int]
       /\ SumFunction(Active') = SumFunction(Active) + delta
  BY <1>1, <1>3, <1>6, <1>12, <1>13, ActiveChange
<1>15. opened' = IF jiffies < load.calc_load_update THEN Active' ELSE opened
  <2>1. opened = [d \in CPUs |-> opened[d]]
    BY <1>1
  <2> QED BY <1>1, <1>5, <1>9, <2>1 DEF Reopen, Active
<1>16. Typed'
  BY <1>1, <1>5, <1>10, <1>13, <1>14, <1>15 DEF Typed
<1>17. TimesOK'
  BY <1>1, <1>5, <1>9, <1>12, <1>13 DEF TimesOK
<1>18. OpenedOK'
  <2>1. ASSUME NEW d \in CPUs, ~cpu'[d].nohz,
               cpu'[d].calc_load_update <= load.calc_load_update
        PROVE  opened'[d] = cpu'[d].calc_load_active
    <3>1. d # c /\ cpu'[d] = cpu[d]
      BY <1>12, <1>13, <2>1
    <3>2. opened[d] = cpu[d].calc_load_active
      BY <1>1, <2>1, <3>1 DEF OpenedOK
    <3> QED BY <1>15, <3>1, <3>2 DEF Active
  <2> QED BY <1>1, <1>5, <1>9, <1>15, <2>1 DEF OpenedOK
<1>19. SumsOK'
  <2>1. /\ load.calc_load_idle[0] \in Int /\ load.calc_load_idle[1] \in Int
        /\ idle[0] \in Int /\ idle[1] \in Int
        /\ idle[0] + idle[1] = load.calc_load_idle[0] + load.calc_load_idle[1] + delta
    BY <1>2, <1>3, <1>4, <1>8
  <2>2. load'.calc_load_tasks + load'.calc_load_idle[0] + load'.calc_load_idle[1]
          = SumFunction(Active')
    BY <1>1, <1>2, <1>3, <1>5, <1>9, <1>14, <2>1 DEF SumsOK
  <2>3. CASE jiffies < load.calc_load_update
    <3>1. opened = Active /\ opened' = Active' /\ idle[load.calc_load_idx]
            = load.calc_load_idle[load.calc_load_idx] + delta
      BY <1>1, <1>6, <1>8, <1>15, <2>3 DEF OpenedOK
    <3>2. load'.calc_load_tasks + load'.calc_load_idle[load'.calc_load_idx] = SumFunction(opened')
      BY <1>1, <1>2, <1>3, <1>5, <1>9, <1>14, <3>1 DEF SumsOK
    <3> QED BY <2>2, <3>2 DEF SumsOK
  <2>4. CASE ~(jiffies < load.calc_load_update)
    <3>1. opened' = opened /\ idle[load.calc_load_idx] = load.calc_load_idle[load.calc_load_idx]
      BY <1>2, <1>6, <1>8, <1>15, <2>4
    <3>2. load'.calc_load_tasks + load'.calc_load_idle[load'.calc_load_idx] = SumFunction(opened')
      BY <1>1, <1>5, <1>9, <3>1 DEF SumsOK
    <3> QED BY <2>2, <3>2 DEF SumsOK
  <2> QED BY <2>3, <2>4
<1> QED BY <1>1, <1>16, <1>17, <1>18, <1>19 DEF LInv

\* A CPU starts its tick again: one that missed its sample has none in this window.
LEMMA ExitIdle ==
  ASSUME LInv, NEW c \in CPUs, calc_load_exit_idle(c)
  PROVE  LInv'
<1> DEFINE u == IF jiffies < cpu[c].calc_load_update THEN cpu[c].calc_load_update
                ELSE IF jiffies < load.calc_load_update + Window
                     THEN load.calc_load_update + LOAD_FREQ ELSE load.calc_load_update
           r == [cpu[c] EXCEPT !.nohz = FALSE, !.calc_load_update = u]
<1>1. /\ cpu \in [CPUs -> Rq] /\ opened \in [CPUs -> Int] /\ IsLoad(load) /\ jiffies \in Int
      /\ TimesOK /\ SumsOK /\ OpenedOK /\ cpu[c] \in Rq
      /\ UNCHANGED <<jiffies, load, opened, sample>>
  BY DEF LInv, Typed, calc_load_exit_idle
<1>2. cpu' = [cpu EXCEPT ![c] = r]
  BY <1>1 DEF calc_load_exit_idle, Rq
<1>3. /\ LOAD_FREQ \in Nat /\ LOAD_FREQ > 0 /\ Window \in Nat /\ load.calc_load_update \in Int
      /\ cpu[c].calc_load_update \in Int /\ jiffies < load.calc_load_update + Window
      /\ OnGrid(load.calc_load_update) /\ OnGrid(cpu[c].calc_load_update)
      /\ cpu[c].calc_load_update <= load.calc_load_update + LOAD_FREQ
  BY <1>1, LoadConstants DEF IsLoad, Rq, TimesOK
<1>4. /\ u \in Int /\ OnGrid(u) /\ u <= load.calc_load_update + LOAD_FREQ
      /\ u <= load.calc_load_update => jiffies < load.calc_load_update
  BY <1>1, <1>3, GridNext
<1> HIDE DEF u
<1>5. r \in Rq
  BY <1>1, <1>4 DEF Rq
<1>6. r.calc_load_active = cpu[c].calc_load_active /\ r.calc_load_update = u /\ r.nohz = FALSE
      /\ r.late = cpu[c].late
  BY <1>1 DEF Rq
<1> HIDE DEF r
<1>7. /\ cpu' \in [CPUs -> Rq] /\ cpu'[c] = r /\ \A d \in CPUs \ {c} : cpu'[d] = cpu[d]
  BY <1>1, <1>2, <1>5
<1>8. Active' = Active
  <2>1. \A d \in CPUs : cpu'[d].calc_load_active = cpu[d].calc_load_active
    BY <1>6, <1>7
  <2> QED BY <2>1, SameActive
<1>9. Typed' /\ SumsOK'
  BY <1>1, <1>7, <1>8 DEF Typed, SumsOK
<1>10. TimesOK'
  BY <1>1, <1>4, <1>6, <1>7 DEF TimesOK
<1>11. OpenedOK'
  <2>1. ASSUME NEW d \in CPUs, ~cpu'[d].nohz,
               cpu'[d].calc_load_update <= load.calc_load_update
        PROVE  opened[d] = cpu'[d].calc_load_active
    <3>1. CASE d = c
      <4>1. opened = Active
        BY <1>1, <1>4, <1>6, <1>7, <2>1, <3>1 DEF OpenedOK
      <4> QED BY <1>6, <1>7, <3>1, <4>1 DEF Active
    <3>2. CASE d # c
      BY <1>1, <1>7, <2>1, <3>2 DEF OpenedOK
    <3> QED BY <3>1, <3>2
  <2> QED BY <1>1, <1>8, <2>1 DEF OpenedOK
<1> QED BY <1>1, <1>9, <1>10, <1>11 DEF LInv

-----------------------------------------------------------------------------
(* The theorems. *)

\* Initially nothing is counted.
LEMMA InitInv == Init => LInv
<1> SUFFICES ASSUME Init PROVE LInv
  OBVIOUS
<1>0. LOAD_FREQ \in Nat /\ LOAD_FREQ > 0 /\ Window \in Nat
  BY LoadConstants
<1> DEFINE none == [c \in CPUs |-> 0]
<1>1. Active = none /\ opened = none
  BY DEF Init, Active
<1>2. SumFunction(none) = 0
  BY SumZero, LoadConstants
<1>3. /\ load.calc_load_tasks = 0 /\ load.calc_load_update = LOAD_FREQ
      /\ load.calc_load_idle = [i \in 0 .. 1 |-> 0] /\ load.calc_load_idx = 0
  BY DEF Init
<1>4. IsLoad(load)
  BY <1>0 DEF Init, IsLoad
<1>5. cpu \in [CPUs -> Rq] /\ jiffies = 0
  BY <1>0 DEF Init, Rq
<1>6. Typed
  BY <1>1, <1>4, <1>5 DEF Typed
<1> HIDE DEF none
<1>7. SumsOK
  BY <1>1, <1>2, <1>3 DEF SumsOK
<1>8. OnGrid(LOAD_FREQ)
  <2>1. LOAD_FREQ = 1 * LOAD_FREQ
    BY <1>0
  <2> QED BY <2>1 DEF OnGrid
<1>9. \A c \in CPUs : cpu[c].calc_load_update = LOAD_FREQ /\ cpu[c].late = 0
                      /\ cpu[c].calc_load_active = 0
  BY DEF Init
<1>10. TimesOK
  BY <1>0, <1>3, <1>5, <1>8, <1>9 DEF TimesOK
<1>11. OpenedOK
  BY <1>1, <1>9 DEF OpenedOK, none
<1>12. sample.used = sample.due
  BY DEF Init
<1> QED BY <1>6, <1>7, <1>10, <1>11, <1>12 DEF LInv

\* Every step keeps the invariant.
LEMMA NextInv == LInv /\ [Next]_vars => LInv'
<1> SUFFICES ASSUME LInv, [Next]_vars PROVE LInv'
  OBVIOUS
<1>1. CASE UNCHANGED vars
  BY <1>1 DEF vars, LInv, Typed, TimesOK, SumsOK, OpenedOK, Active
<1>2. ASSUME NEW c \in CPUs,
             \/ timekeeper_tick(c) \/ late_tick(c)
             \/ calc_load_enter_idle(c) \/ calc_load_exit_idle(c)
      PROVE  LInv'
  BY <1>2, TimekeeperTick, LateTick, EnterIdle, ExitIdle
<1>3. ASSUME NEW c \in CPUs, NEW b \in BOOLEAN, activate_task(c, b) \/ deactivate_task(c, b)
      PROVE  LInv'
  BY <1>3, MoveTasks
<1>4. ASSUME NEW ticks \in 1 .. MaxSleep, idle_interrupt(ticks)
      PROVE  LInv'
  BY <1>4, IdleInterrupt
<1> QED BY <1>1, <1>2, <1>3, <1>4 DEF Next

\* No contribution to the load is lost or counted twice (calc_load_tasks and the two
\* idle counters), whatever the CPUs' ticks do.
THEOREM LoadConserved == Spec => []DeltasKept
<1>1. LInv => DeltasKept
  BY InvProperties
<1> QED BY <1>1, InitInv, NextInv, PTL DEF Spec

\* The two idle counters separate the windows (calc_load_write_idx, calc_global_nohz):
\* the count used for avenrun is that of the window's opening.
THEOREM WindowsKeptApart == Spec => []WindowsSeparate
<1>1. LInv => WindowsSeparate
  BY InvProperties
<1> QED BY <1>1, InitInv, NextInv, PTL DEF Spec

\* No CPU skips more than one window (calc_load_exit_idle).
THEOREM NeverFarBehind == Spec => []OneWindowSkipped
<1>1. LInv => OneWindowSkipped
  BY InvProperties
<1> QED BY <1>1, InitInv, NextInv, PTL DEF Spec
====
