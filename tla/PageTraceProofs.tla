--------------------------- MODULE PageTraceProofs ---------------------------
(***************************************************************************)
(* Proofs about PageTrace: what wcounts holds, for any number of           *)
(* processes, programs, pages and calls.                                   *)
(***************************************************************************)
EXTENDS PageTrace, TLAPS

-----------------------------------------------------------------------------
(* The inductive invariant, process by process. *)

TaskStruct == [alive : BOOLEAN, killed : BOOLEAN, trace_flag : 0 .. 1,
               wcounts : Nat, rr_fifo_trace : 0 .. 1]
Mm == [prot : [Pages -> Prot], pte : [Pages -> BOOLEAN], sem : {"free", "read"},
       times : Nat, got : Nat, pgd : BOOLEAN]
Cpu == [pc : {"user", "start", "put", "fault", "count", "segv", "exited"}, ip : Nat,
        prog : Seq(Operation), resume : {"user", "put"}, allow_retry : BOOLEAN,
        reg : Nat, reg2 : Nat, errors : Nat, inside : {"none", "start", "get"}]
History == [base : Nat, since : Nat, raced : BOOLEAN, times0 : Nat, kernel : Nat,
            touched : BOOLEAN]
Typed ==
  /\ ts \in [Procs -> TaskStruct] /\ mm \in [Procs -> Mm]
  /\ cpu \in [Procs -> Cpu] /\ hist \in [Procs -> History]
SysTyped ==
  /\ sys \in [table : [Modules -> {"sys_ni_syscall", "module"}],
              old : [Modules -> {"sys_ni_syscall", "module"}], loaded : SUBSET Modules]

\* The program's own memory stays mapped, and a fault of its own comes from a write.
MemoryOK(t, m, c) ==
  /\ \A p \in Mapped : m.prot[p] \in {"r", "rw"}
  /\ c.prog \in Programs[t]
  /\ c.pc \in {"fault", "count"} /\ c.resume = "user"
       => c.ip \in 1 .. Len(c.prog) /\ c.prog[c.ip].op = "write"

\* The counter, and the value current->wcounts++ has loaded.
CountOK(s, c, h) ==
  /\ ~h.raced => s.wcounts = h.base + h.since
  /\ ~h.raced /\ c.pc = "count" => c.reg2 = s.wcounts
  /\ h.raced => h.touched

\* The counter of a process that is traced and left alone is that of its handler,
\* which has yet to run when SIGSEGV is pending.
TimesOK(t, s, m, c, h) ==
  s.trace_flag = 1 /\ ~h.touched =>
    /\ c.pc \in {"user", "start", "put", "fault", "count"}
         => s.wcounts = m.times - h.times0 + h.kernel
    /\ c.pc = "segv" /\ t \in Catchers => s.wcounts = m.times - h.times0 + h.kernel + 1

ProcOK(t, s, m, c, h) == MemoryOK(t, m, c) /\ CountOK(s, c, h) /\ TimesOK(t, s, m, c, h)
PInv == Typed /\ SysTyped /\ \A t \in Procs : ProcOK(t, ts[t], mm[t], cpu[t], hist[t])

\* The invariant says what the runs check.
LEMMA InvProperties == PInv => CountExact /\ WcountsIsTimes
<1> SUFFICES ASSUME PInv PROVE CountExact /\ WcountsIsTimes
  OBVIOUS
<1>1. TypeOK
  BY DEF PInv, Typed, SysTyped, TypeOK, TaskStruct, Mm, Cpu
<1>2. CountExact
  BY <1>1 DEF PInv, ProcOK, CountOK, CountExact
<1>3. WcountsIsTimes
  BY PageTraceConstants DEF PInv, ProcOK, TimesOK, WcountsIsTimes
<1> QED BY <1>2, <1>3

\* What the operations of a program hold.
LEMMA OperationTypes ==
  ASSUME NEW o \in Operation
  PROVE  /\ o.op \in {"start", "stop", "get", "set", "trace_rr"} => o.pid \in Procs
         /\ o.op = "set" => o.val \in Nat
         /\ o.op \in {"write", "get"} => o.page \in Pages
         /\ o.op = "mprotect" => o.pages \subseteq Pages /\ o.prot \in {"r", "rw"}
         /\ o.op \in {"fork", "wait"} => o.child \in Procs
         /\ o.op \in {"rmmod", "insmod"} => o.module \in Modules
BY DEF Operation

\* Initially no process is traced.
LEMMA InitInv == Init => PInv
<1> SUFFICES ASSUME Init PROVE PInv
  OBVIOUS
<1> PICK v \in Vmas :
       mm = [t \in Procs |-> [prot |-> v, pte |-> [p \in Pages |-> v[p] = "rw"],
                              sem |-> "free", times |-> 0, got |-> 0, pgd |-> FALSE]]
  BY DEF Init
<1> PICK prog \in [Procs -> UNION {Programs[t] : t \in Procs}] :
       /\ \A t \in Procs : prog[t] \in Programs[t]
       /\ cpu = [t \in Procs |->
                  [pc |-> "user", ip |-> IF t \in Initial THEN 1 ELSE 0, prog |-> prog[t],
                   resume |-> "user", allow_retry |-> TRUE, reg |-> 0, reg2 |-> 0, errors |-> 0,
                   inside |-> "none"]]
  BY DEF Init
<1>1. ts \in [Procs -> TaskStruct]
  BY DEF Init, TaskStruct
<1>2. hist \in [Procs -> History]
  BY DEF Init, History
<1>3. SysTyped
  BY DEF Init, SysTyped
<1>4. mm \in [Procs -> Mm]
  <2>1. v \in [Pages -> Prot]
    BY ProgramsTyped
  <2>2. [p \in Pages |-> v[p] = "rw"] \in [Pages -> BOOLEAN]
    OBVIOUS
  <2> QED BY <2>1, <2>2 DEF Mm
<1>5. cpu \in [Procs -> Cpu]
  <2>1. \A t \in Procs : prog[t] \in Seq(Operation)
    BY ProgramsTyped
  <2> QED BY <2>1 DEF Cpu
<1>6. ASSUME NEW t \in Procs
      PROVE  ProcOK(t, ts[t], mm[t], cpu[t], hist[t])
  <2>1. ts[t].wcounts = 0 /\ ts[t].trace_flag = 0
    BY DEF Init
  <2>2. hist[t].base = 0 /\ hist[t].since = 0 /\ hist[t].raced = FALSE
    BY DEF Init
  <2>3. cpu[t].pc = "user" /\ cpu[t].prog \in Programs[t]
    OBVIOUS
  <2>4. mm[t].prot = v
    OBVIOUS
  <2> QED BY <2>1, <2>2, <2>3, <2>4 DEF ProcOK, MemoryOK, CountOK, TimesOK, Mapped
<1> QED BY <1>1, <1>2, <1>3, <1>4, <1>5, <1>6 DEF PInv, Typed

-----------------------------------------------------------------------------
(* Steps of one process. *)

Running == {"user", "start", "put", "fault", "count"}

\* A step that gives one process new records.
LEMMA Frame ==
  ASSUME PInv, SysTyped', NEW t \in Procs,
         NEW s \in TaskStruct, NEW m \in Mm, NEW c \in Cpu, NEW h \in History,
         ts' = [ts EXCEPT ![t] = s], mm' = [mm EXCEPT ![t] = m],
         cpu' = [cpu EXCEPT ![t] = c], hist' = [hist EXCEPT ![t] = h],
         ProcOK(t, s, m, c, h)
  PROVE  PInv'
<1>1. Typed
  BY DEF PInv
<1>2. Typed'
  BY <1>1 DEF Typed
<1>3. ASSUME NEW u \in Procs
      PROVE  ProcOK(u, ts'[u], mm'[u], cpu'[u], hist'[u])
  <2>1. CASE u = t
    <3>1. ts'[u] = s /\ mm'[u] = m /\ cpu'[u] = c /\ hist'[u] = h
      BY <1>1, <2>1 DEF Typed
    <3> QED BY <2>1, <3>1
  <2>2. CASE u # t
    <3>1. ts'[u] = ts[u] /\ mm'[u] = mm[u] /\ cpu'[u] = cpu[u] /\ hist'[u] = hist[u]
      BY <1>1, <2>2 DEF Typed
    <3> QED BY <3>1 DEF PInv
  <2> QED BY <2>1, <2>2
<1> QED BY <1>2, <1>3 DEF PInv

\* A step of one process that changes neither its counter nor that of its handler.
Mild(t, s, m, c) ==
  /\ s \in TaskStruct /\ s.wcounts = ts[t].wcounts /\ s.trace_flag = ts[t].trace_flag
  /\ m \in Mm /\ m.times = mm[t].times /\ \A p \in Mapped : m.prot[p] \in {"r", "rw"}
  /\ c \in Cpu /\ c.prog = cpu[t].prog
  /\ c.pc \in {"fault", "count"} /\ c.resume = "user"
       => c.ip \in 1 .. Len(c.prog) /\ c.prog[c.ip].op = "write"
  /\ c.pc = "count" => c.reg2 = ts[t].wcounts
  /\ c.pc \in Running => cpu[t].pc \in Running
  /\ c.pc = "segv" /\ t \in Catchers => ts[t].trace_flag = 0

\* A mild step keeps the invariant.
LEMMA MildStep ==
  ASSUME PInv, SysTyped', NEW t \in Procs, NEW s, NEW m, NEW c, Mild(t, s, m, c),
         ts' = [ts EXCEPT ![t] = s], mm' = [mm EXCEPT ![t] = m],
         cpu' = [cpu EXCEPT ![t] = c], UNCHANGED hist
  PROVE  PInv'
<1> DEFINE h == hist[t]
<1>1. ProcOK(t, ts[t], mm[t], cpu[t], h) /\ h \in History /\ hist \in [Procs -> History]
  BY DEF PInv, Typed
<1>2. hist' = [hist EXCEPT ![t] = h]
  BY <1>1
<1> HIDE DEF h
<1>3. MemoryOK(t, m, c)
  BY <1>1 DEF ProcOK, MemoryOK, Mild
<1>4. CountOK(s, c, h)
  BY <1>1 DEF ProcOK, CountOK, Mild
<1>5. TimesOK(t, s, m, c, h)
  BY <1>1 DEF ProcOK, TimesOK, Mild, Running
<1>6. ProcOK(t, s, m, c, h) /\ s \in TaskStruct /\ m \in Mm /\ c \in Cpu
  BY <1>3, <1>4, <1>5 DEF ProcOK, Mild
<1> QED BY <1>1, <1>2, <1>6, Frame

\* The records of a process in a reachable state.
LEMMA Records ==
  ASSUME PInv, NEW t \in Procs
  PROVE  /\ ts[t] \in TaskStruct /\ mm[t] \in Mm /\ cpu[t] \in Cpu /\ hist[t] \in History
         /\ ts = [ts EXCEPT ![t] = ts[t]] /\ mm = [mm EXCEPT ![t] = mm[t]]
         /\ ProcOK(t, ts[t], mm[t], cpu[t], hist[t])
         /\ \A p \in Mapped : mm[t].prot[p] \in {"r", "rw"}
<1>1. /\ ts \in [Procs -> TaskStruct] /\ mm \in [Procs -> Mm] /\ cpu \in [Procs -> Cpu]
      /\ hist \in [Procs -> History]
  BY DEF PInv, Typed
<1>2. ProcOK(t, ts[t], mm[t], cpu[t], hist[t])
  BY DEF PInv
<1> QED BY <1>1, <1>2 DEF ProcOK, MemoryOK

\* The operation a process is at.
LEMMA CurrentTyped ==
  ASSUME PInv, NEW t \in Procs, cpu[t].ip > 0, NEW op, Op(t, op)
  PROVE  /\ Current(t) \in Operation /\ Current(t).op = op
         /\ cpu[t].ip \in 1 .. Len(cpu[t].prog) /\ cpu[t].pc = "user"
<1>1. cpu[t].prog \in Seq(Operation) /\ cpu[t].ip \in Nat
  BY Records DEF Cpu
<1>2. cpu[t].ip \in 1 .. Len(cpu[t].prog) /\ Current(t).op = op /\ cpu[t].pc = "user"
  BY <1>1 DEF Op
<1> QED BY <1>1, <1>2 DEF Current

\* A process that goes on to its next operation.
Gone(c) == [c EXCEPT !.pc = "user", !.ip = @ + 1]
Left(c) == [Gone(c) EXCEPT !.inside = "none"]

\* Next_op and no_context in terms of the record of one process.
LEMMA NextForm ==
  ASSUME PInv, NEW t \in Procs
  PROVE  /\ Next_op(t) = [cpu EXCEPT ![t] = Gone(cpu[t])]
         /\ [Next_op(t) EXCEPT ![t].inside = "none"] = [cpu EXCEPT ![t] = Left(cpu[t])]
         /\ Gone(cpu[t]) \in Cpu /\ Gone(cpu[t]).pc = "user" /\ Gone(cpu[t]).prog = cpu[t].prog
         /\ Left(cpu[t]) \in Cpu /\ Left(cpu[t]).pc = "user" /\ Left(cpu[t]).prog = cpu[t].prog
<1>1. cpu \in [Procs -> Cpu] /\ cpu[t] \in Cpu
  BY DEF PInv, Typed
<1>2. Next_op(t) = [cpu EXCEPT ![t] = Gone(cpu[t])]
  BY <1>1 DEF Next_op, Gone
<1>3. Gone(cpu[t]) \in Cpu /\ Gone(cpu[t]).pc = "user" /\ Gone(cpu[t]).prog = cpu[t].prog
  <2> DEFINE c == cpu[t]
  <2>1. c.ip + 1 \in Nat /\ c \in Cpu
    BY <1>1 DEF Cpu
  <2> HIDE DEF c
  <2>2. Gone(c) \in Cpu
    BY <2>1 DEF Gone, Cpu
  <2>3. Gone(c).pc = "user" /\ Gone(c).prog = c.prog
    BY <2>1 DEF Gone, Cpu
  <2> QED BY <2>2, <2>3 DEF c
<1> DEFINE g == Gone(cpu[t])
<1> HIDE DEF g
<1>4. Left(cpu[t]) = [g EXCEPT !.inside = "none"] /\ g \in Cpu /\ g.pc = "user"
      /\ g.prog = cpu[t].prog
  BY <1>3 DEF Left, g
<1>5. Left(cpu[t]) \in Cpu /\ Left(cpu[t]).pc = "user" /\ Left(cpu[t]).prog = cpu[t].prog
  BY <1>4 DEF Cpu
<1>6. [Next_op(t) EXCEPT ![t].inside = "none"] = [cpu EXCEPT ![t] = Left(cpu[t])]
  <2>1. Next_op(t) = [cpu EXCEPT ![t] = g]
    BY <1>2 DEF g
  <2> QED BY <1>1, <1>4, <2>1
<1> QED BY <1>2, <1>3, <1>5, <1>6

\* Going on is mild from wherever the process runs.
LEMMA GoneMild ==
  ASSUME PInv, NEW t \in Procs, cpu[t].pc \in Running, NEW m \in Mm,
         m.times = mm[t].times, \A p \in Mapped : m.prot[p] \in {"r", "rw"}
  PROVE  Mild(t, ts[t], m, Gone(cpu[t])) /\ Mild(t, ts[t], m, Left(cpu[t]))
BY NextForm, Records DEF Mild

-----------------------------------------------------------------------------
(* The actions that leave the counters alone. *)

\* Operations that only go on: a system call without a module, a store the pte
\* allows, wait, and the system calls that find nothing to do.
LEMMA GoOn ==
  ASSUME PInv, NEW t \in Procs, cpu[t].pc = "user", cpu' = Next_op(t),
         UNCHANGED <<ts, mm, hist>>, SysTyped'
  PROVE  PInv'
<1> DEFINE s == ts[t]
           m == mm[t]
           c == Gone(cpu[t])
<1>1. Mild(t, s, m, c)
  BY GoneMild, Records DEF Running
<1>2. /\ ts' = [ts EXCEPT ![t] = s] /\ mm' = [mm EXCEPT ![t] = m]
      /\ cpu' = [cpu EXCEPT ![t] = c] /\ UNCHANGED hist
  BY Records, NextForm
<1> HIDE DEF s, m, c
<1> QED BY <1>1, <1>2, MildStep

\* A step that changes only where a process is.
LEMMA CpuOnly ==
  ASSUME PInv, NEW t \in Procs, NEW c, Mild(t, ts[t], mm[t], c),
         cpu' = [cpu EXCEPT ![t] = c], UNCHANGED <<ts, mm, sys, hist>>
  PROVE  PInv'
<1>1. ts' = [ts EXCEPT ![t] = ts[t]] /\ mm' = [mm EXCEPT ![t] = mm[t]]
  BY Records
<1>2. SysTyped'
  BY DEF PInv, SysTyped
<1> QED BY <1>1, <1>2, MildStep

\* mprotect_fixup keeps the address space typed and the program's memory mapped.
LEMMA FixupOK ==
  ASSUME NEW m \in Mm, NEW pages, NEW prot \in {"r", "rw"},
         \A p \in Mapped : m.prot[p] \in {"r", "rw"}
  PROVE  /\ mprotect_fixup(m, pages, prot) \in Mm
         /\ mprotect_fixup(m, pages, prot).times = m.times
         /\ \A p \in Mapped : mprotect_fixup(m, pages, prot).prot[p] \in {"r", "rw"}
<1> DEFINE pr == [p \in Pages |-> IF p \in pages THEN prot ELSE m.prot[p]]
           pt == [p \in Pages |-> m.pte[p] /\ p \notin pages]
<1>1. m.prot \in [Pages -> Prot] /\ m.pte \in [Pages -> BOOLEAN]
  BY DEF Mm
<1>2. pr \in [Pages -> Prot] /\ \A p \in Mapped : pr[p] \in {"r", "rw"}
  BY <1>1 DEF Prot, Mapped
<1>3. pt \in [Pages -> BOOLEAN]
  OBVIOUS
<1>4. mprotect_fixup(m, pages, prot) = [m EXCEPT !.prot = pr, !.pte = pt]
  BY DEF mprotect_fixup
<1> HIDE DEF pr, pt
<1> QED BY <1>2, <1>3, <1>4 DEF Mm

\* The programs' mprotect changes protections only.
LEMMA StepMprotect ==
  ASSUME PInv, NEW t \in Procs, cpu[t].ip > 0, Mprotect(t)
  PROVE  PInv'
<1> DEFINE m == mprotect_fixup(mm[t], Current(t).pages, Current(t).prot)
<1>1. cpu[t].pc = "user" /\ Current(t).prot \in {"r", "rw"}
  BY CurrentTyped, OperationTypes DEF Mprotect
<1>2. m \in Mm /\ m.times = mm[t].times /\ \A p \in Mapped : m.prot[p] \in {"r", "rw"}
  BY <1>1, FixupOK, Records
<1>3. /\ mm' = [mm EXCEPT ![t] = m] /\ ts' = [ts EXCEPT ![t] = ts[t]]
      /\ cpu' = [cpu EXCEPT ![t] = Gone(cpu[t])] /\ UNCHANGED <<sys, hist>>
  BY Records, NextForm DEF Mprotect
<1> HIDE DEF m
<1>4. Mild(t, ts[t], m, Gone(cpu[t]))
  BY <1>1, <1>2, GoneMild DEF Running
<1>5. SysTyped'
  BY <1>3 DEF PInv, SysTyped
<1> QED BY <1>3, <1>4, <1>5, MildStep

\* mprotect_s within sys_start_trace, complete or not, changes protections only.
LEMMA StepStartMprotect ==
  ASSUME PInv, NEW t \in Procs, start_mprotect(t)
  PROVE  PInv'
<1> DEFINE from == Current(t).from
           to == Current(t).to
           aligned == Current(t).aligned
<1>1. PICK fails \in {FALSE, cpu[t].errors < MaxErrors} :
        /\ \E m \in mprotect_s(mm[t], from, to, aligned, fails) : mm' = [mm EXCEPT ![t] = m]
        /\ cpu' = [Next_op(t) EXCEPT ![t].inside = "none",
                                     ![t].errors = IF fails THEN @ + 1 ELSE @]
  BY DEF start_mprotect
<1>2. PICK m \in mprotect_s(mm[t], from, to, aligned, fails) : mm' = [mm EXCEPT ![t] = m]
  BY <1>1
<1>3. m \in Mm /\ m.times = mm[t].times /\ \A p \in Mapped : m.prot[p] \in {"r", "rw"}
  <2>1. m = mm[t] \/ \E k : m = mprotect_fixup(mm[t], from .. k, "r")
    BY DEF mprotect_s
  <2> QED BY <2>1, FixupOK, Records
<1>4. cpu[t].pc = "start" /\ UNCHANGED <<ts, sys, hist>> /\ ts' = [ts EXCEPT ![t] = ts[t]]
  BY Records DEF start_mprotect
<1> DEFINE c == Left(cpu[t])
           d == [c EXCEPT !.errors = IF fails THEN @ + 1 ELSE @]
<1>5. Mild(t, ts[t], m, c) /\ c \in Cpu /\ c.pc = "user" /\ c.prog = cpu[t].prog
  BY <1>3, <1>4, GoneMild, NextForm DEF Running
<1>6. cpu' = [cpu EXCEPT ![t] = d]
  <2> DEFINE e == Next_op(t)
  <2>1. cpu \in [Procs -> Cpu] /\ e = [cpu EXCEPT ![t] = Gone(cpu[t])] /\ Gone(cpu[t]) \in Cpu
    BY NextForm DEF PInv, Typed
  <2>2. cpu' = [e EXCEPT ![t].inside = "none", ![t].errors = IF fails THEN @ + 1 ELSE @]
    BY <1>1
  <2> HIDE DEF e
  <2> QED BY <2>1, <2>2 DEF Left, Cpu
<1> HIDE DEF c
<1>7. d \in Cpu /\ d.pc = "user" /\ d.prog = cpu[t].prog
  <2>1. (IF fails THEN c.errors + 1 ELSE c.errors) \in Nat
    BY <1>5 DEF Cpu
  <2>2. d = [c EXCEPT !.errors = IF fails THEN c.errors + 1 ELSE c.errors]
    OBVIOUS
  <2> QED BY <1>5, <2>1, <2>2 DEF Cpu
<1> HIDE DEF d
<1>8. Mild(t, ts[t], m, d)
  BY <1>5, <1>7 DEF Mild
<1>9. SysTyped'
  BY <1>4 DEF PInv, SysTyped
<1> QED BY <1>2, <1>4, <1>6, <1>8, <1>9, MildStep

\* sys_get_trace reads the counter; put_user writes the caller's memory.
LEMMA StepGet ==
  ASSUME PInv, NEW t \in Procs, cpu[t].ip > 0, sys_get_trace(t) \/ put_user(t)
  PROVE  PInv'
<1>1. CASE sys_get_trace(t)
  <2>1. cpu[t].pc = "user" /\ Current(t).pid \in Procs /\ UNCHANGED <<ts, mm, sys, hist>>
    BY <1>1, CurrentTyped, OperationTypes DEF sys_get_trace, Call
  <2>2. CASE pid_task(Current(t).pid)
    <3> DEFINE n == ts[Current(t).pid].wcounts
               c == [cpu[t] EXCEPT !.pc = "put", !.inside = "get", !.reg = n]
    <3>1. n \in Nat /\ cpu[t] \in Cpu /\ cpu \in [Procs -> Cpu]
      BY <2>1, Records DEF TaskStruct, PInv, Typed
    <3>2. cpu' = [cpu EXCEPT ![t] = c]
      BY <1>1, <2>2, <3>1 DEF sys_get_trace
    <3> HIDE DEF n
    <3>3. c \in Cpu /\ c.pc = "put" /\ c.prog = cpu[t].prog
      BY <3>1 DEF Cpu
    <3> HIDE DEF c
    <3>4. Mild(t, ts[t], mm[t], c)
      BY <2>1, <3>3, Records DEF Mild, Running
    <3> QED BY <2>1, <3>2, <3>4, CpuOnly
  <2>3. CASE ~pid_task(Current(t).pid)
    <3>1. cpu' = Next_op(t)
      BY <1>1, <2>3 DEF sys_get_trace
    <3>2. SysTyped'
      BY <2>1 DEF PInv, SysTyped
    <3> QED BY <2>1, <3>1, <3>2, GoOn
  <2> QED BY <2>2, <2>3
<1>2. CASE put_user(t)
  <2> DEFINE m == [mm[t] EXCEPT !.got = cpu[t].reg]
  <2>1. /\ mm[t] \in Mm /\ cpu[t].reg \in Nat /\ mm \in [Procs -> Mm] /\ cpu[t].pc = "put"
        /\ UNCHANGED <<ts, sys, hist>>
    BY <1>2, Records DEF Cpu, PInv, Typed, put_user
  <2>2. mm' = [mm EXCEPT ![t] = m] /\ ts' = [ts EXCEPT ![t] = ts[t]]
    BY <1>2, <2>1, Records DEF put_user
  <2>3. cpu' = [cpu EXCEPT ![t] = Left(cpu[t])]
    BY <1>2, NextForm DEF put_user
  <2>4. m \in Mm /\ m.times = mm[t].times /\ m.prot = mm[t].prot
    BY <2>1 DEF Mm
  <2> HIDE DEF m
  <2>5. Mild(t, ts[t], m, Left(cpu[t]))
    BY <2>1, <2>4, GoneMild, Records DEF Running
  <2>6. SysTyped'
    BY <2>1 DEF PInv, SysTyped
  <2> QED BY <2>1, <2>2, <2>3, <2>5, <2>6, MildStep
<1> QED BY <1>1, <1>2

\* A store of a program with a handler goes to its own memory.
LEMMA WritesOwn ==
  ASSUME PInv, NEW t \in Catchers, cpu[t].ip \in 1 .. Len(cpu[t].prog), Current(t).op = "write"
  PROVE  mm[t].prot[Page(t)] \in {"r", "rw"}
<1>1. t \in Procs
  BY PageTraceConstants
<1>2. cpu[t].prog \in Programs[t] /\ \A p \in Mapped : mm[t].prot[p] \in {"r", "rw"}
  BY <1>1, Records DEF ProcOK, MemoryOK
<1>3. Page(t) \in Mapped
  BY <1>2, ProgramsTyped DEF Current, Page
<1> QED BY <1>2, <1>3

\* A fault that could not be handled, of a process that is not both traced and
\* has a handler: SIGSEGV, or the fixup of put_user.
LEMMA BadFault ==
  ASSUME PInv, NEW t \in Procs, cpu[t].pc = "fault", cpu' = bad_fault(t),
         UNCHANGED <<ts, mm, sys, hist>>,
         cpu[t].resume = "user" /\ t \in Catchers => ts[t].trace_flag = 0
  PROVE  PInv'
<1>1. cpu[t] \in Cpu /\ cpu \in [Procs -> Cpu]
  BY DEF PInv, Typed
<1>2. CASE InUser(t)
  <2> DEFINE c == [cpu[t] EXCEPT !.pc = "segv"]
  <2>1. cpu' = [cpu EXCEPT ![t] = c]
    BY <1>1, <1>2 DEF bad_fault, do_user_fault
  <2>2. c \in Cpu /\ c.pc = "segv" /\ c.prog = cpu[t].prog
    BY <1>1 DEF Cpu
  <2> HIDE DEF c
  <2>3. Mild(t, ts[t], mm[t], c)
    BY <1>2, <2>2, Records DEF Mild, InUser, Running
  <2> QED BY <2>1, <2>3, CpuOnly
<1>3. CASE ~InUser(t)
  <2>1. cpu' = [cpu EXCEPT ![t] = Left(cpu[t])]
    BY <1>3, NextForm DEF bad_fault, no_context
  <2>2. Mild(t, ts[t], mm[t], Left(cpu[t]))
    BY GoneMild, Records DEF Running
  <2> HIDE DEF Left
  <2> QED BY <2>1, <2>2, CpuOnly
<1> QED BY <1>2, <1>3

\* A fault of a program's own store to a page that is not mapped for it.
LEMMA BadMemory ==
  ASSUME PInv, NEW t \in Procs, cpu[t].pc = "fault", cpu' = bad_fault(t),
         UNCHANGED <<ts, mm, sys, hist>>, mm[t].prot[Page(t)] \notin {"r", "rw"}
  PROVE  PInv'
<1>1. ASSUME cpu[t].resume = "user", t \in Catchers PROVE FALSE
  <2>1. cpu[t].ip \in 1 .. Len(cpu[t].prog) /\ Current(t).op = "write"
    BY <1>1, Records DEF ProcOK, MemoryOK, Current
  <2> QED BY <1>1, <2>1, WritesOwn
<1> QED BY <1>1, BadFault

\* A fault that counts nothing is a bad one of an unmapped page or of a process not traced.
LEMMA StepFault ==
  ASSUME PInv, NEW t \in Procs, BadMap(t) \/ BadAccess(t)
  PROVE  PInv'
<1>1. CASE BadMap(t)
  BY <1>1, BadMemory DEF BadMap
<1>2. CASE BadAccess(t)
  <2>1. ts[t].trace_flag \in 0 .. 1 /\ ts[t].trace_flag # 1
    BY <1>2, Records DEF BadAccess, access_error, TaskStruct
  <2>2. ts[t].trace_flag = 0
    BY <2>1
  <2> QED BY <1>2, <2>2, BadFault DEF BadAccess
<1> QED BY <1>1, <1>2

\* Growing the stack, or failing to.
LEMMA StepExpand ==
  ASSUME PInv, NEW t \in Procs, expand_stack(t)
  PROVE  PInv'
<1>1. CASE cpu' = bad_fault(t) /\ UNCHANGED <<mm, sys, hist, ts>>
  BY <1>1, BadMemory DEF expand_stack
<1>2. CASE mm' = [mm EXCEPT ![t].prot[Page(t)] = "rw"] /\ UNCHANGED <<cpu, sys, hist, ts>>
  <2> DEFINE m == [mm[t] EXCEPT !.prot[Page(t)] = "rw"]
             pr == [mm[t].prot EXCEPT ![Page(t)] = "rw"]
  <2>1. mm[t] \in Mm /\ mm \in [Procs -> Mm] /\ mm[t].prot \in [Pages -> Prot]
    BY DEF PInv, Typed, Mm
  <2>2. mm' = [mm EXCEPT ![t] = m] /\ m = [mm[t] EXCEPT !.prot = pr]
    BY <1>2, <2>1 DEF Mm
  <2>3. pr \in [Pages -> Prot] /\ \A p \in Mapped : pr[p] \in {"r", "rw"}
    BY <2>1, Records DEF Prot, Mapped
  <2> HIDE DEF pr
  <2>4. m \in Mm /\ m.times = mm[t].times /\ \A p \in Mapped : m.prot[p] \in {"r", "rw"}
    BY <2>1, <2>2, <2>3 DEF Mm
  <2> HIDE DEF m
  <2>5. Mild(t, ts[t], m, cpu[t])
    BY <2>4, Records DEF Mild, ProcOK, MemoryOK, expand_stack, Running
  <2>6. ts' = [ts EXCEPT ![t] = ts[t]] /\ cpu' = [cpu EXCEPT ![t] = cpu[t]] /\ UNCHANGED hist
    BY <1>2, Records DEF PInv, Typed
  <2>7. SysTyped'
    BY <1>2 DEF PInv, SysTyped
  <2> QED BY <2>2, <2>5, <2>6, <2>7, MildStep
<1> QED BY <1>1, <1>2 DEF expand_stack

\* A fault is entered from a write of the program or from put_user.
LEMMA StepAbort ==
  ASSUME PInv, NEW t \in Procs, cpu[t].ip > 0, do_DataAbort(t)
  PROVE  PInv'
<1> DEFINE c == [cpu[t] EXCEPT !.pc = "fault", !.resume = cpu[t].pc, !.allow_retry = TRUE]
<1>1. cpu[t] \in Cpu /\ cpu \in [Procs -> Cpu] /\ UNCHANGED <<ts, mm, sys, hist>>
  BY DEF PInv, Typed, do_DataAbort
<1>2. cpu' = [cpu EXCEPT ![t] = c]
  BY <1>1 DEF do_DataAbort
<1>3. \/ cpu[t].pc = "put"
      \/ /\ cpu[t].pc = "user" /\ cpu[t].ip \in 1 .. Len(cpu[t].prog)
         /\ cpu[t].prog[cpu[t].ip].op = "write"
  BY CurrentTyped DEF do_DataAbort, Current
<1>4. c \in Cpu /\ c.pc = "fault" /\ c.resume = cpu[t].pc /\ c.ip = cpu[t].ip
      /\ c.prog = cpu[t].prog
  BY <1>1, <1>3 DEF Cpu
<1> HIDE DEF c
<1>5. Mild(t, ts[t], mm[t], c)
  BY <1>3, <1>4, Records DEF Mild, Running
<1> QED BY <1>1, <1>2, <1>5, CpuOnly

\* A kernel address, or the first call of a module.
LEMMA StepTranslation ==
  ASSUME PInv, NEW t \in Procs, cpu[t].ip > 0, do_translation_fault(t)
  PROVE  PInv'
<1>1. CASE /\ Op(t, "write") /\ mm[t].prot[Page(t)] = "kernel"
           /\ cpu' = do_user_fault(t) /\ UNCHANGED <<ts, mm, sys, hist>>
  <2> DEFINE c == [cpu[t] EXCEPT !.pc = "segv"]
  <2>1. cpu[t] \in Cpu /\ cpu \in [Procs -> Cpu]
    BY DEF PInv, Typed
  <2>2. cpu' = [cpu EXCEPT ![t] = c]
    BY <1>1, <2>1 DEF do_user_fault
  <2>3. c \in Cpu /\ c.pc = "segv" /\ c.prog = cpu[t].prog
    BY <2>1 DEF Cpu
  <2>4. t \notin Catchers
    BY <1>1, CurrentTyped, WritesOwn
  <2> HIDE DEF c
  <2>5. Mild(t, ts[t], mm[t], c)
    BY <2>3, <2>4, Records DEF Mild, Running
  <2> QED BY <1>1, <2>2, <2>5, CpuOnly
<1>2. CASE mm' = [mm EXCEPT ![t].pgd = TRUE] /\ UNCHANGED <<ts, cpu, sys, hist>>
  <2> DEFINE m == [mm[t] EXCEPT !.pgd = TRUE]
  <2>1. mm[t] \in Mm /\ mm \in [Procs -> Mm]
    BY DEF PInv, Typed
  <2>2. mm' = [mm EXCEPT ![t] = m]
    BY <1>2, <2>1
  <2>3. m \in Mm /\ m.times = mm[t].times /\ m.prot = mm[t].prot
    BY <2>1 DEF Mm
  <2> HIDE DEF m
  <2>4. ProcOK(t, ts[t], m, cpu[t], hist[t])
    BY <2>3, Records DEF ProcOK, MemoryOK, TimesOK
  <2>5. /\ ts' = [ts EXCEPT ![t] = ts[t]] /\ cpu' = [cpu EXCEPT ![t] = cpu[t]]
        /\ hist' = [hist EXCEPT ![t] = hist[t]]
    BY <1>2, Records DEF PInv, Typed
  <2>6. SysTyped'
    BY <1>2 DEF PInv, SysTyped
  <2> QED BY <2>2, <2>3, <2>4, <2>5, <2>6, Records, Frame
<1> QED BY <1>1, <1>2 DEF do_translation_fault

\* current->wcounts++ loads what the counter holds.
LEMMA StepLoad ==
  ASSUME PInv, NEW t \in Procs, wcounts_load(t)
  PROVE  PInv'
<1> DEFINE c == [cpu[t] EXCEPT !.pc = "count", !.reg2 = ts[t].wcounts]
           m == [mm[t] EXCEPT !.sem = "read"]
<1>1. /\ cpu[t] \in Cpu /\ cpu \in [Procs -> Cpu] /\ mm[t] \in Mm /\ mm \in [Procs -> Mm]
      /\ ts[t].wcounts \in Nat /\ cpu[t].pc = "fault" /\ UNCHANGED <<ts, sys, hist>>
  BY Records DEF PInv, Typed, wcounts_load, TaskStruct
<1>2. cpu' = [cpu EXCEPT ![t] = c] /\ mm' = [mm EXCEPT ![t] = m]
  BY <1>1 DEF wcounts_load
<1>3. /\ c \in Cpu /\ c.pc = "count" /\ c.reg2 = ts[t].wcounts /\ c.prog = cpu[t].prog
      /\ c.ip = cpu[t].ip /\ c.resume = cpu[t].resume
  BY <1>1 DEF Cpu
<1>4. m \in Mm /\ m.times = mm[t].times /\ m.prot = mm[t].prot
  BY <1>1 DEF Mm
<1> HIDE DEF c, m
<1>5. Mild(t, ts[t], m, c)
  BY <1>1, <1>3, <1>4, Records DEF Mild, ProcOK, MemoryOK, Running
<1>6. ts' = [ts EXCEPT ![t] = ts[t]]
  BY <1>1, Records
<1>7. SysTyped'
  BY <1>1 DEF PInv, SysTyped
<1> QED BY <1>1, <1>2, <1>5, <1>6, <1>7, MildStep

\* The ways handle_mm_fault() ends, for the process's records.
LEMMA StepHandle ==
  ASSUME PInv, NEW t \in Procs, handle_mm_fault(t)
  PROVE  PInv'
<1>1. /\ cpu[t] \in Cpu /\ cpu \in [Procs -> Cpu] /\ mm[t] \in Mm /\ mm \in [Procs -> Mm]
      /\ ts[t] \in TaskStruct /\ ts \in [Procs -> TaskStruct]
      /\ cpu[t].pc = "fault" /\ UNCHANGED <<sys, hist>>
  BY Records DEF PInv, Typed, handle_mm_fault
<1>2. SysTyped'
  BY <1>1 DEF PInv, SysTyped
<1>3. cpu[t].resume \in {"user", "put"} /\ cpu[t].errors + 1 \in Nat
  BY <1>1 DEF Cpu
<1> DEFINE back == [cpu[t] EXCEPT !.pc = cpu[t].resume]
           backe == [cpu[t] EXCEPT !.pc = cpu[t].resume, !.errors = @ + 1]
           again == [cpu[t] EXCEPT !.allow_retry = FALSE, !.errors = @ + 1]
           lefte == [cpu[t] EXCEPT !.pc = "user", !.ip = @ + 1, !.inside = "none", !.errors = @ + 1]
           exit == [cpu[t] EXCEPT !.pc = "exited"]
<1>4. ASSUME NEW c \in {back, backe, again, lefte, exit}, cpu' = [cpu EXCEPT ![t] = c],
             NEW m, mm' = [mm EXCEPT ![t] = m], m \in Mm, m.times = mm[t].times,
             m.prot = mm[t].prot,
             NEW s, ts' = [ts EXCEPT ![t] = s], s \in TaskStruct,
             s.wcounts = ts[t].wcounts, s.trace_flag = ts[t].trace_flag
      PROVE  PInv'
  <2>1. /\ c \in Cpu /\ c.prog = cpu[t].prog /\ c.pc \in {"user", "put", "fault", "exited"}
        /\ c.pc = "fault" => c.ip = cpu[t].ip /\ c.resume = cpu[t].resume
    <3>1. cpu[t].ip + 1 \in Nat
      BY <1>1 DEF Cpu
    <3> QED BY <1>1, <1>3, <3>1 DEF Cpu
  <2> HIDE DEF back, backe, again, lefte, exit
  <2>2. Mild(t, s, m, c)
    BY <1>1, <1>4, <2>1, Records DEF Mild, ProcOK, MemoryOK, Running
  <2> QED BY <1>1, <1>2, <1>4, <2>2, MildStep
<1>5. /\ Resume(t) = [cpu EXCEPT ![t] = back] /\ Exited(t) = [cpu EXCEPT ![t] = exit]
      /\ [Resume(t) EXCEPT ![t].errors = @ + 1] = [cpu EXCEPT ![t] = backe]
      /\ [cpu EXCEPT ![t].allow_retry = FALSE, ![t].errors = @ + 1] = [cpu EXCEPT ![t] = again]
      /\ [no_context(t) EXCEPT ![t].errors = @ + 1] = [cpu EXCEPT ![t] = lefte]
  <2>1. Resume(t) = [cpu EXCEPT ![t] = back] /\ Exited(t) = [cpu EXCEPT ![t] = exit]
    BY <1>1 DEF Resume, Exited
  <2>2. [Resume(t) EXCEPT ![t].errors = @ + 1] = [cpu EXCEPT ![t] = backe]
    BY <1>1 DEF Resume
  <2>3. [cpu EXCEPT ![t].allow_retry = FALSE, ![t].errors = @ + 1] = [cpu EXCEPT ![t] = again]
    BY <1>1
  <2>4. [no_context(t) EXCEPT ![t].errors = @ + 1] = [cpu EXCEPT ![t] = lefte]
    <3>1. no_context(t) = [cpu EXCEPT ![t] = Left(cpu[t])] /\ Left(cpu[t]) \in Cpu
      BY NextForm DEF no_context
    <3>2. [Left(cpu[t]) EXCEPT !.errors = @ + 1] = lefte
      BY <1>1 DEF Left, Gone, Cpu
    <3> QED BY <1>1, <3>1, <3>2
  <2> QED BY <2>1, <2>2, <2>3, <2>4
<1> DEFINE pt == [mm[t].pte EXCEPT ![Page(t)] = TRUE]
           m1 == [mm[t] EXCEPT !.pte = pt]
<1>6. /\ [mm EXCEPT ![t].pte[Page(t)] = TRUE] = [mm EXCEPT ![t] = m1]
      /\ m1 \in Mm /\ m1.times = mm[t].times /\ m1.prot = mm[t].prot
  <2>1. pt \in [Pages -> BOOLEAN]
    BY <1>1 DEF Mm
  <2>2. [mm EXCEPT ![t].pte[Page(t)] = TRUE] = [mm EXCEPT ![t] = m1]
    BY <1>1 DEF Mm
  <2> HIDE DEF pt
  <2> QED BY <1>1, <2>1, <2>2 DEF Mm
<1>7. mm = [mm EXCEPT ![t] = mm[t]] /\ ts = [ts EXCEPT ![t] = ts[t]]
  BY Records
<1>8. ASSUME NEW b \in BOOLEAN, ts' = [ts EXCEPT ![t].killed = @ \/ b]
      PROVE  \E s \in TaskStruct : /\ ts' = [ts EXCEPT ![t] = s]
                                   /\ s.wcounts = ts[t].wcounts /\ s.trace_flag = ts[t].trace_flag
  <2> DEFINE s == [ts[t] EXCEPT !.killed = @ \/ b]
  <2>1. ts' = [ts EXCEPT ![t] = s]
    BY <1>1, <1>8
  <2>2. s \in TaskStruct /\ s.wcounts = ts[t].wcounts /\ s.trace_flag = ts[t].trace_flag
    BY <1>1 DEF TaskStruct
  <2> QED BY <2>1, <2>2
<1>9. \E s \in TaskStruct : /\ [ts EXCEPT ![t].alive = FALSE] = [ts EXCEPT ![t] = s]
                            /\ s.wcounts = ts[t].wcounts /\ s.trace_flag = ts[t].trace_flag
  <2> DEFINE s == [ts[t] EXCEPT !.alive = FALSE]
  <2>1. [ts EXCEPT ![t].alive = FALSE] = [ts EXCEPT ![t] = s]
    BY <1>1
  <2>2. s \in TaskStruct /\ s.wcounts = ts[t].wcounts /\ s.trace_flag = ts[t].trace_flag
    BY <1>1 DEF TaskStruct
  <2> QED BY <2>1, <2>2
<1> HIDE DEF back, backe, again, lefte, exit, m1
<1>10. CASE mm' = [mm EXCEPT ![t].pte[Page(t)] = TRUE] /\ cpu' = Resume(t) /\ UNCHANGED ts
  <2>1. mm' = [mm EXCEPT ![t] = m1] /\ cpu' = [cpu EXCEPT ![t] = back]
        /\ ts' = [ts EXCEPT ![t] = ts[t]]
    BY <1>5, <1>6, <1>7, <1>10
  <2> QED BY <1>1, <1>4, <1>6, <2>1
<1>11. CASE /\ cpu' = IF ts[t].killed THEN [Resume(t) EXCEPT ![t].errors = @ + 1]
                      ELSE [cpu EXCEPT ![t].allow_retry = FALSE, ![t].errors = @ + 1]
            /\ UNCHANGED <<mm, ts>>
  <2>1. PICK c \in {backe, again} : cpu' = [cpu EXCEPT ![t] = c]
    BY <1>5, <1>11
  <2>2. mm' = [mm EXCEPT ![t] = mm[t]] /\ ts' = [ts EXCEPT ![t] = ts[t]]
    BY <1>7, <1>11
  <2> QED BY <1>1, <1>4, <2>1, <2>2
<1>12. CASE /\ cpu' = [Resume(t) EXCEPT ![t].errors = @ + 1]
            /\ \E oom_killed \in BOOLEAN : ts' = [ts EXCEPT ![t].killed = @ \/ oom_killed]
            /\ UNCHANGED mm
  <2>1. PICK s \in TaskStruct : /\ ts' = [ts EXCEPT ![t] = s]
                                /\ s.wcounts = ts[t].wcounts /\ s.trace_flag = ts[t].trace_flag
    BY <1>8, <1>12
  <2>2. mm' = [mm EXCEPT ![t] = mm[t]] /\ cpu' = [cpu EXCEPT ![t] = backe]
    BY <1>5, <1>7, <1>12
  <2> QED BY <1>1, <1>4, <2>1, <2>2
<1>13. CASE /\ cpu' = IF InUser(t) THEN Exited(t) ELSE [no_context(t) EXCEPT ![t].errors = @ + 1]
            /\ ts' = IF InUser(t) THEN [ts EXCEPT ![t].alive = FALSE] ELSE ts
            /\ UNCHANGED mm
  <2>1. PICK c \in {exit, lefte} : cpu' = [cpu EXCEPT ![t] = c]
    BY <1>5, <1>13
  <2>2. \E s \in TaskStruct : /\ ts' = [ts EXCEPT ![t] = s]
                              /\ s.wcounts = ts[t].wcounts /\ s.trace_flag = ts[t].trace_flag
    BY <1>1, <1>7, <1>9, <1>13
  <2>3. mm' = [mm EXCEPT ![t] = mm[t]]
    BY <1>7, <1>13
  <2> QED BY <1>1, <1>4, <2>1, <2>2, <2>3
<1> QED BY <1>10, <1>11, <1>12, <1>13 DEF handle_mm_fault

\* The end of a process.
LEMMA StepExit ==
  ASSUME PInv, NEW t \in Procs, do_exit(t)
  PROVE  PInv'
<1> DEFINE c == [cpu[t] EXCEPT !.pc = "exited"]
           s == [ts[t] EXCEPT !.alive = FALSE]
<1>1. /\ cpu[t] \in Cpu /\ cpu \in [Procs -> Cpu] /\ ts[t] \in TaskStruct
      /\ ts \in [Procs -> TaskStruct] /\ UNCHANGED <<mm, sys, hist>>
  BY DEF PInv, Typed, do_exit
<1>2. cpu' = [cpu EXCEPT ![t] = c] /\ ts' = [ts EXCEPT ![t] = s]
  BY <1>1 DEF do_exit, Exited
<1>3. c \in Cpu /\ c.pc = "exited" /\ c.prog = cpu[t].prog
  BY <1>1 DEF Cpu
<1>4. s \in TaskStruct /\ s.wcounts = ts[t].wcounts /\ s.trace_flag = ts[t].trace_flag
  BY <1>1 DEF TaskStruct
<1> HIDE DEF c, s
<1>5. Mild(t, s, mm[t], c)
  BY <1>3, <1>4, Records DEF Mild, Running
<1>6. mm' = [mm EXCEPT ![t] = mm[t]]
  BY <1>1, Records
<1>7. SysTyped'
  BY <1>1 DEF PInv, SysTyped
<1> QED BY <1>1, <1>2, <1>5, <1>6, <1>7, MildStep

\* Operations that only go on, and those that change the system call table.
LEMMA StepGoOn ==
  ASSUME PInv, NEW t \in Procs, cpu[t].ip > 0,
         Nosys(t) \/ Write(t) \/ do_wait(t) \/ addsyscall_exit(t) \/ addsyscall_init(t)
  PROVE  PInv'
<1>1. cpu[t].pc = "user" /\ cpu' = Next_op(t) /\ UNCHANGED <<ts, mm, hist>>
  BY DEF Nosys, Write, do_wait, addsyscall_exit, addsyscall_init, Op
<1>2. SysTyped'
  <2>1. CASE UNCHANGED sys
    BY <2>1 DEF PInv, SysTyped
  <2>2. CASE addsyscall_exit(t)
    <3>1. Current(t).module \in Modules
      BY <2>2, CurrentTyped, OperationTypes DEF addsyscall_exit
    <3> QED BY <2>2, <3>1 DEF addsyscall_exit, PInv, SysTyped
  <2>3. CASE addsyscall_init(t)
    <3>1. Current(t).module \in Modules
      BY <2>3, CurrentTyped, OperationTypes DEF addsyscall_init
    <3> QED BY <2>3, <3>1 DEF addsyscall_init, PInv, SysTyped
  <2> QED BY <2>1, <2>2, <2>3 DEF Nosys, Write, do_wait
<1> QED BY <1>1, <1>2, GoOn

-----------------------------------------------------------------------------
(* The actions that change a counter, or another process. *)

\* Going on keeps what holds of a process at an operation.
LEMMA Advance ==
  ASSUME NEW t \in Procs, NEW s, NEW m, NEW c \in Cpu, NEW h, c.pc = "user",
         ProcOK(t, s, m, c, h)
  PROVE  ProcOK(t, s, m, Gone(c), h)
<1>1. Gone(c).pc = "user" /\ Gone(c).prog = c.prog
  BY DEF Gone, Cpu
<1> QED BY <1>1 DEF ProcOK, MemoryOK, CountOK, TimesOK

\* A system call of t that gives the process pid other fields.
LEMMA Foreign ==
  ASSUME PInv, NEW t \in Procs, cpu[t].pc = "user", NEW pid \in Procs,
         NEW s \in TaskStruct, NEW h \in History,
         ts' = [ts EXCEPT ![pid] = s], hist' = [hist EXCEPT ![pid] = h],
         cpu' = Next_op(t), UNCHANGED <<mm, sys>>,
         ProcOK(pid, s, mm[pid], cpu[pid], h)
  PROVE  PInv'
<1> DEFINE g == Gone(cpu[t])
<1>1. /\ ts \in [Procs -> TaskStruct] /\ mm \in [Procs -> Mm] /\ cpu \in [Procs -> Cpu]
      /\ hist \in [Procs -> History]
  BY DEF PInv, Typed
<1>2. cpu' = [cpu EXCEPT ![t] = g] /\ g \in Cpu
  BY NextForm
<1> HIDE DEF g
<1>3. Typed' /\ SysTyped'
  BY <1>1, <1>2 DEF Typed, PInv, SysTyped
<1>4. ASSUME NEW u \in Procs
      PROVE  ProcOK(u, ts'[u], mm'[u], cpu'[u], hist'[u])
  <2>1. ProcOK(u, ts'[u], mm[u], cpu[u], hist'[u])
    <3>1. CASE u = pid
      <4>1. ts'[u] = s /\ hist'[u] = h
        BY <1>1, <3>1
      <4> QED BY <3>1, <4>1
    <3>2. CASE u # pid
      <4>1. ts'[u] = ts[u] /\ hist'[u] = hist[u]
        BY <1>1, <3>2
      <4> QED BY <4>1 DEF PInv
    <3> QED BY <3>1, <3>2
  <2>2. CASE u = t
    <3>1. cpu'[u] = Gone(cpu[u]) /\ mm' = mm /\ cpu[u] \in Cpu
      BY <1>1, <1>2, <2>2 DEF g
    <3> QED BY <2>1, <2>2, <3>1, Advance
  <2>3. CASE u # t
    <3>1. cpu'[u] = cpu[u] /\ mm' = mm
      BY <1>1, <1>2, <2>3
    <3> QED BY <2>1, <3>1
  <2> QED BY <2>2, <2>3
<1> QED BY <1>3, <1>4 DEF PInv

\* sys_start_trace clears the counter and starts a new count.
LEMMA StepStart ==
  ASSUME PInv, NEW t \in Procs, cpu[t].ip > 0, sys_start_trace(t)
  PROVE  PInv'
<1>1. /\ cpu[t].pc = "user" /\ UNCHANGED <<mm, sys>>
      /\ ts \in [Procs -> TaskStruct] /\ cpu \in [Procs -> Cpu] /\ hist \in [Procs -> History]
      /\ ts[t] \in TaskStruct /\ cpu[t] \in Cpu /\ hist[t] \in History /\ mm[t].times \in Nat
  BY DEF sys_start_trace, Call, Op, PInv, Typed, Mm
<1>2. SysTyped'
  BY <1>1 DEF PInv, SysTyped
<1>3. CASE cpu' = Next_op(t) /\ UNCHANGED <<ts, hist>>
  BY <1>1, <1>2, <1>3, GoOn
<1>4. CASE /\ ts' = [ts EXCEPT ![t].trace_flag = 1, ![t].wcounts = 0]
           /\ cpu' = [cpu EXCEPT ![t].pc = "start", ![t].inside = "start"]
           /\ hist' = [hist EXCEPT ![t] = Started(t)]
  <2> DEFINE s == [ts[t] EXCEPT !.trace_flag = 1, !.wcounts = 0]
             c == [cpu[t] EXCEPT !.pc = "start", !.inside = "start"]
             h == Started(t)
  <2>1. ts' = [ts EXCEPT ![t] = s] /\ cpu' = [cpu EXCEPT ![t] = c]
        /\ hist' = [hist EXCEPT ![t] = h]
    BY <1>1, <1>4
  <2>2. s \in TaskStruct /\ s.wcounts = 0
    <3> DEFINE r == [ts[t] EXCEPT !.trace_flag = 1]
    <3>1. r \in TaskStruct
      BY <1>1 DEF TaskStruct
    <3>2. s = [r EXCEPT !.wcounts = 0]
      BY <1>1
    <3> HIDE DEF r, s
    <3> QED BY <3>1, <3>2 DEF TaskStruct
  <2>3. c \in Cpu /\ c.pc = "start" /\ c.prog = cpu[t].prog
    BY <1>1 DEF Cpu
  <2>4. h \in History /\ h.base = 0 /\ h.since = 0 /\ ~h.raced /\ h.times0 = mm[t].times
        /\ h.kernel = 0
    BY <1>1 DEF Started, History
  <2> HIDE DEF s, c, h
  <2>5. ProcOK(t, s, mm[t], c, h)
    <3>1. MemoryOK(t, mm[t], c)
      BY <2>3, Records DEF ProcOK, MemoryOK
    <3>2. CountOK(s, c, h)
      BY <2>2, <2>3, <2>4 DEF CountOK
    <3>3. TimesOK(t, s, mm[t], c, h)
      BY <1>1, <2>2, <2>3, <2>4 DEF TimesOK
    <3> QED BY <3>1, <3>2, <3>3 DEF ProcOK
  <2>6. mm' = [mm EXCEPT ![t] = mm[t]]
    BY <1>1, Records
  <2> QED BY <1>2, <2>1, <2>2, <2>3, <2>4, <2>5, <2>6, Frame, Records
<1> QED BY <1>3, <1>4 DEF sys_start_trace

\* System calls on another process: only sys_set_wcounts may race its increment.
LEMMA StepForeign ==
  ASSUME PInv, NEW t \in Procs, cpu[t].ip > 0,
         sys_stop_trace(t) \/ sys_set_wcounts(t) \/ sys_rr_fifo_trace(t)
  PROVE  PInv'
<1> DEFINE pid == Current(t).pid
<1>1. /\ cpu[t].pc = "user" /\ pid \in Procs /\ UNCHANGED <<mm, sys>> /\ cpu' = Next_op(t)
  BY CurrentTyped, OperationTypes DEF sys_stop_trace, sys_set_wcounts, sys_rr_fifo_trace, Call
<1>2. SysTyped'
  BY <1>1 DEF PInv, SysTyped
<1>3. CASE UNCHANGED <<ts, hist>>
  BY <1>1, <1>2, <1>3, GoOn
<1>4. /\ ts[pid] \in TaskStruct /\ hist[pid] \in History /\ cpu[pid] \in Cpu
      /\ ts \in [Procs -> TaskStruct] /\ hist \in [Procs -> History]
      /\ ProcOK(pid, ts[pid], mm[pid], cpu[pid], hist[pid])
  BY <1>1 DEF PInv, Typed
<1>5. CASE sys_stop_trace(t) /\ pid_task(pid) /\ ts[pid].trace_flag = 1
  <2> DEFINE s == [ts[pid] EXCEPT !.trace_flag = 0]
             h == [hist[pid] EXCEPT !.touched = @ \/ pid # t]
  <2>1. ts' = [ts EXCEPT ![pid] = s] /\ hist' = [hist EXCEPT ![pid] = h]
    BY <1>4, <1>5 DEF sys_stop_trace
  <2>2. s \in TaskStruct /\ s.wcounts = ts[pid].wcounts /\ s.trace_flag = 0
    BY <1>4 DEF TaskStruct
  <2>3. /\ h \in History /\ h.base = hist[pid].base /\ h.since = hist[pid].since
        /\ h.raced = hist[pid].raced /\ (hist[pid].touched => h.touched)
    BY <1>4 DEF History
  <2> HIDE DEF s, h
  <2>4. ProcOK(pid, s, mm[pid], cpu[pid], h)
    BY <1>4, <2>2, <2>3 DEF ProcOK, CountOK, TimesOK
  <2> HIDE DEF pid
  <2> QED BY <1>1, <2>1, <2>2, <2>3, <2>4, Foreign
<1>6. CASE sys_set_wcounts(t) /\ pid_task(pid)
  <2> DEFINE n == Current(t).val
             s == [ts[pid] EXCEPT !.wcounts = n]
             h == [hist[pid] EXCEPT !.base = n, !.since = 0, !.touched = TRUE,
                                    !.raced = cpu[pid].pc = "count"]
  <2>1. ts' = [ts EXCEPT ![pid] = s] /\ hist' = [hist EXCEPT ![pid] = h]
    BY <1>4, <1>6 DEF sys_set_wcounts
  <2>2. n \in Nat
    BY <1>6, CurrentTyped, OperationTypes DEF sys_set_wcounts, Call
  <2> HIDE DEF n
  <2>3. s \in TaskStruct /\ s.wcounts = n
    BY <1>4, <2>2 DEF TaskStruct
  <2>4. /\ h \in History /\ h.base = n /\ h.since = 0 /\ h.touched = TRUE
        /\ (cpu[pid].pc # "count" => ~h.raced) /\ (cpu[pid].pc = "count" => h.raced)
    BY <1>4, <2>2 DEF History
  <2> HIDE DEF s, h
  <2>5. ProcOK(pid, s, mm[pid], cpu[pid], h)
    <3>1. MemoryOK(pid, mm[pid], cpu[pid])
      BY <1>4 DEF ProcOK
    <3>2. CountOK(s, cpu[pid], h)
      <4> HIDE DEF pid
      <4> QED BY <2>2, <2>3, <2>4 DEF CountOK
    <3>3. TimesOK(pid, s, mm[pid], cpu[pid], h)
      BY <2>4 DEF TimesOK
    <3> QED BY <3>1, <3>2, <3>3 DEF ProcOK
  <2> HIDE DEF pid
  <2> QED BY <1>1, <2>1, <2>3, <2>4, <2>5, Foreign
<1>7. CASE sys_rr_fifo_trace(t) /\ pid_task(pid)
  <2> DEFINE s == [ts[pid] EXCEPT !.rr_fifo_trace = 1]
             h == hist[pid]
  <2>1. ts' = [ts EXCEPT ![pid] = s] /\ hist' = [hist EXCEPT ![pid] = h]
    BY <1>4, <1>7 DEF sys_rr_fifo_trace
  <2>2. s \in TaskStruct /\ s.wcounts = ts[pid].wcounts /\ s.trace_flag = ts[pid].trace_flag
    BY <1>4 DEF TaskStruct
  <2> HIDE DEF s
  <2>3. ProcOK(pid, s, mm[pid], cpu[pid], h)
    BY <1>4, <2>2 DEF ProcOK, CountOK, TimesOK
  <2> HIDE DEF pid, h
  <2>4. h \in History
    BY <1>4 DEF h
  <2> QED BY <1>1, <2>1, <2>2, <2>3, <2>4, Foreign
<1> QED BY <1>3, <1>5, <1>6, <1>7 DEF sys_stop_trace, sys_set_wcounts, sys_rr_fifo_trace

\* current->wcounts++ stores one more than it loaded.
LEMMA StepStore ==
  ASSUME PInv, NEW t \in Procs, wcounts_store(t)
  PROVE  PInv'
<1> DEFINE s == [ts[t] EXCEPT !.wcounts = cpu[t].reg2 + 1]
           m == [mm[t] EXCEPT !.sem = "free"]
           k == IF InUser(t) THEN hist[t].kernel ELSE hist[t].kernel + 1
           h == [hist[t] EXCEPT !.since = @ + 1, !.kernel = k]
           c == IF InUser(t) THEN [cpu[t] EXCEPT !.pc = "segv"] ELSE Left(cpu[t])
<1>1. /\ ts[t] \in TaskStruct /\ mm[t] \in Mm /\ cpu[t] \in Cpu /\ hist[t] \in History
      /\ ts \in [Procs -> TaskStruct] /\ mm \in [Procs -> Mm] /\ cpu \in [Procs -> Cpu]
      /\ hist \in [Procs -> History] /\ cpu[t].pc = "count" /\ UNCHANGED sys
      /\ ProcOK(t, ts[t], mm[t], cpu[t], hist[t])
  BY DEF PInv, Typed, wcounts_store
<1>2. /\ cpu[t].reg2 \in Nat /\ hist[t].since \in Nat /\ hist[t].kernel \in Nat
      /\ hist[t].base \in Nat /\ hist[t].times0 \in Nat /\ mm[t].times \in Nat
      /\ ts[t].wcounts \in Nat
  BY <1>1 DEF Cpu, History, Mm, TaskStruct
<1>3. /\ ts' = [ts EXCEPT ![t] = s] /\ mm' = [mm EXCEPT ![t] = m]
      /\ hist' = [hist EXCEPT ![t] = h]
  BY <1>1 DEF wcounts_store
<1>4. cpu' = [cpu EXCEPT ![t] = c]
  <2>1. CASE InUser(t)
    BY <1>1, <2>1 DEF wcounts_store, bad_fault, do_user_fault
  <2>2. CASE ~InUser(t)
    BY <1>1, <2>2, NextForm DEF wcounts_store, bad_fault, no_context
  <2> QED BY <2>1, <2>2
<1>5. s \in TaskStruct /\ s.wcounts = cpu[t].reg2 + 1 /\ s.trace_flag = ts[t].trace_flag
  BY <1>1, <1>2 DEF TaskStruct
<1>6. m \in Mm /\ m.times = mm[t].times /\ m.prot = mm[t].prot
  BY <1>1 DEF Mm
<1>7. k \in Nat
  BY <1>2
<1> HIDE DEF k
<1>8. /\ h \in History /\ h.since = hist[t].since + 1 /\ h.kernel = k /\ h.base = hist[t].base
      /\ h.raced = hist[t].raced /\ h.touched = hist[t].touched /\ h.times0 = hist[t].times0
  <2> DEFINE n == hist[t].since + 1
  <2>1. n \in Nat /\ hist[t] \in History
    BY <1>1, <1>2
  <2>2. h = [hist[t] EXCEPT !.since = n, !.kernel = k]
    OBVIOUS
  <2> HIDE DEF n, h
  <2>3. h \in History
    BY <1>7, <2>1, <2>2 DEF History
  <2>4. h.since = n /\ h.kernel = k /\ h.base = hist[t].base
    BY <2>1, <2>2 DEF History
  <2>5. h.raced = hist[t].raced /\ h.touched = hist[t].touched /\ h.times0 = hist[t].times0
    BY <2>1, <2>2 DEF History
  <2> QED BY <2>3, <2>4, <2>5 DEF n
<1>9. c \in Cpu /\ c.prog = cpu[t].prog /\ c.pc = IF InUser(t) THEN "segv" ELSE "user"
  <2>1. CASE InUser(t)
    BY <1>1, <2>1 DEF Cpu
  <2>2. CASE ~InUser(t)
    BY <1>1, <2>2, NextForm
  <2> QED BY <2>1, <2>2
<1> HIDE DEF s, m, h, c
<1>10. MemoryOK(t, m, c)
  BY <1>1, <1>6, <1>9 DEF ProcOK, MemoryOK
<1>11. CountOK(s, c, h)
  BY <1>1, <1>2, <1>5, <1>8, <1>9 DEF ProcOK, CountOK
<1>12. TimesOK(t, s, m, c, h)
  <2> SUFFICES ASSUME ts[t].trace_flag = 1, ~hist[t].touched
               PROVE  /\ c.pc = "user" => s.wcounts = m.times - h.times0 + h.kernel
                      /\ c.pc = "segv" => s.wcounts = m.times - h.times0 + h.kernel + 1
    BY <1>5, <1>8, <1>9 DEF TimesOK
  <2>1. cpu[t].reg2 = ts[t].wcounts
        /\ ts[t].wcounts = mm[t].times - hist[t].times0 + hist[t].kernel
    BY <1>1 DEF ProcOK, CountOK, TimesOK
  <2>2. CASE InUser(t)
    BY <1>2, <1>5, <1>6, <1>8, <1>9, <2>1, <2>2 DEF k
  <2>3. CASE ~InUser(t)
    BY <1>2, <1>5, <1>6, <1>8, <1>9, <2>1, <2>3 DEF k
  <2> QED BY <2>2, <2>3
<1>13. SysTyped'
  BY <1>1 DEF PInv, SysTyped
<1>14. ProcOK(t, s, m, c, h)
  BY <1>10, <1>11, <1>12 DEF ProcOK
<1> QED BY <1>3, <1>4, <1>5, <1>6, <1>8, <1>9, <1>13, <1>14, Frame

\* The handler runs: times catches up with wcounts.
LEMMA StepSegv ==
  ASSUME PInv, NEW t \in Procs, segv_handler(t)
  PROVE  PInv'
<1> DEFINE x == mprotect_fixup(mm[t], {p \in Handled : mm[t].prot[p] # "none"}, "rw")
           n == mm[t].times + 1
           m == [x EXCEPT !.times = n]
           c == [cpu[t] EXCEPT !.pc = "user"]
<1>1. /\ ts[t] \in TaskStruct /\ mm[t] \in Mm /\ cpu[t] \in Cpu /\ hist[t] \in History
      /\ ts \in [Procs -> TaskStruct] /\ mm \in [Procs -> Mm] /\ cpu \in [Procs -> Cpu]
      /\ hist \in [Procs -> History] /\ cpu[t].pc = "segv" /\ t \in Catchers
      /\ UNCHANGED <<ts, sys, hist>>
      /\ ProcOK(t, ts[t], mm[t], cpu[t], hist[t])
  BY DEF PInv, Typed, segv_handler
<1>2. /\ x \in Mm /\ x.times = mm[t].times /\ \A p \in Mapped : x.prot[p] \in {"r", "rw"}
  BY <1>1, FixupOK, Records
<1>3. mm' = [mm EXCEPT ![t] = m]
  BY DEF segv_handler
<1>4. cpu' = [cpu EXCEPT ![t] = c]
  BY <1>1 DEF segv_handler
<1>5. n \in Nat /\ mm[t].times \in Nat /\ hist[t].times0 \in Nat /\ hist[t].kernel \in Nat
  BY <1>1 DEF Mm, History
<1> HIDE DEF x
<1>6. m \in Mm /\ m.times = n /\ m.prot = x.prot
  <2> HIDE DEF n
  <2> QED BY <1>2, <1>5 DEF Mm
<1>7. c \in Cpu /\ c.pc = "user" /\ c.prog = cpu[t].prog
  BY <1>1 DEF Cpu
<1> HIDE DEF m, c
<1>8. MemoryOK(t, m, c)
  BY <1>1, <1>2, <1>6, <1>7 DEF ProcOK, MemoryOK
<1>9. CountOK(ts[t], c, hist[t])
  BY <1>1, <1>7 DEF ProcOK, CountOK
<1>10. TimesOK(t, ts[t], m, c, hist[t])
  BY <1>1, <1>5, <1>6, <1>7 DEF ProcOK, TimesOK
<1>11. ProcOK(t, ts[t], m, c, hist[t])
  BY <1>8, <1>9, <1>10 DEF ProcOK
<1>12. SysTyped'
  BY <1>1 DEF PInv, SysTyped
<1>13. ts' = [ts EXCEPT ![t] = ts[t]] /\ hist' = [hist EXCEPT ![t] = hist[t]]
  BY <1>1
<1> QED BY <1>1, <1>3, <1>4, <1>6, <1>7, <1>11, <1>12, <1>13, Frame

\* fork: the child takes over the counter, the count of the handler and what the
\* history says of them.
LEMMA StepFork ==
  ASSUME PInv, NEW t \in Procs, cpu[t].ip > 0, do_fork(t)
  PROVE  PInv'
<1> DEFINE f == Current(t).child
           none == [p \in Pages |-> FALSE]
           m == [mm[t] EXCEPT !.pte = none]
           n == [m EXCEPT !.pgd = TRUE]
           s == [ts[t] EXCEPT !.killed = FALSE]
           g == Gone(cpu[t])
           c == [cpu[f] EXCEPT !.ip = 1, !.pc = "user"]
<1>1. f \in Procs /\ cpu[t].pc = "user" /\ f # t
  BY CurrentTyped, OperationTypes DEF do_fork
<1> HIDE DEF f
<1>2. /\ ts[t] \in TaskStruct /\ mm[t] \in Mm /\ cpu[f] \in Cpu /\ cpu[t] \in Cpu
      /\ hist[t] \in History
      /\ ts \in [Procs -> TaskStruct] /\ mm \in [Procs -> Mm] /\ cpu \in [Procs -> Cpu]
      /\ hist \in [Procs -> History] /\ UNCHANGED sys
      /\ ProcOK(t, ts[t], mm[t], cpu[t], hist[t])
      /\ ProcOK(f, ts[f], mm[f], cpu[f], hist[f])
  BY <1>1 DEF PInv, Typed, do_fork
<1>3. none \in [Pages -> BOOLEAN]
  OBVIOUS
<1>4. /\ ts' = [ts EXCEPT ![f] = s] /\ hist' = [hist EXCEPT ![f] = hist[t]]
      /\ mm' = [mm EXCEPT ![t] = m, ![f] = n]
  BY DEF do_fork, f
<1>5. cpu' = [cpu EXCEPT ![t] = g, ![f] = c]
  <2> DEFINE e == Next_op(t)
  <2>1. cpu' = [e EXCEPT ![f].ip = 1, ![f].pc = "user"]
    BY DEF do_fork, f
  <2>2. e = [cpu EXCEPT ![t] = g]
    BY NextForm
  <2> HIDE DEF e, g
  <2> QED BY <1>1, <1>2, <2>1, <2>2
<1> HIDE DEF none
<1>6. m \in Mm /\ m.times = mm[t].times /\ m.prot = mm[t].prot
  BY <1>2, <1>3 DEF Mm
<1> HIDE DEF m
<1>7. n \in Mm /\ n.times = mm[t].times /\ n.prot = mm[t].prot
  BY <1>6 DEF Mm
<1>8. s \in TaskStruct /\ s.wcounts = ts[t].wcounts /\ s.trace_flag = ts[t].trace_flag
  BY <1>2 DEF TaskStruct
<1>9. c \in Cpu /\ c.pc = "user" /\ c.prog = cpu[f].prog
  BY <1>2 DEF Cpu
<1>10. g \in Cpu /\ g.pc = "user" /\ g.prog = cpu[t].prog
  BY NextForm
<1> HIDE DEF n, s, c, g
<1>11. ProcOK(f, s, n, c, hist[t])
  <2>1. MemoryOK(f, n, c)
    BY <1>2, <1>7, <1>9 DEF ProcOK, MemoryOK
  <2>2. CountOK(s, c, hist[t])
    BY <1>2, <1>8, <1>9 DEF ProcOK, CountOK
  <2>3. TimesOK(f, s, n, c, hist[t])
    BY <1>1, <1>2, <1>7, <1>8, <1>9 DEF ProcOK, TimesOK
  <2> QED BY <2>1, <2>2, <2>3 DEF ProcOK
<1>12. ProcOK(t, ts[t], m, g, hist[t])
  <2>1. MemoryOK(t, m, g)
    BY <1>2, <1>6, <1>10 DEF ProcOK, MemoryOK
  <2>2. CountOK(ts[t], g, hist[t])
    BY <1>2, <1>10 DEF ProcOK, CountOK
  <2>3. TimesOK(t, ts[t], m, g, hist[t])
    BY <1>1, <1>2, <1>6, <1>10 DEF ProcOK, TimesOK
  <2> QED BY <2>1, <2>2, <2>3 DEF ProcOK
<1>13. Typed' /\ SysTyped'
  BY <1>1, <1>2, <1>4, <1>5, <1>6, <1>7, <1>8, <1>9, <1>10 DEF Typed, PInv, SysTyped
<1>14. ASSUME NEW u \in Procs
       PROVE  ProcOK(u, ts'[u], mm'[u], cpu'[u], hist'[u])
  <2>1. CASE u = t
    <3>1. ts'[u] = ts[t] /\ mm'[u] = m /\ cpu'[u] = g /\ hist'[u] = hist[t]
      BY <1>1, <1>2, <1>4, <1>5, <2>1
    <3> QED BY <1>12, <2>1, <3>1
  <2>2. CASE u = f
    <3>1. ts'[u] = s /\ mm'[u] = n /\ cpu'[u] = c /\ hist'[u] = hist[t]
      BY <1>1, <1>2, <1>4, <1>5, <2>2
    <3> QED BY <1>11, <2>2, <3>1
  <2>3. CASE u # t /\ u # f
    <3>1. ts'[u] = ts[u] /\ mm'[u] = mm[u] /\ cpu'[u] = cpu[u] /\ hist'[u] = hist[u]
      BY <1>2, <1>4, <1>5, <2>3
    <3> QED BY <3>1 DEF PInv
  <2> QED BY <2>1, <2>2, <2>3
<1> QED BY <1>13, <1>14 DEF PInv

-----------------------------------------------------------------------------
(* The theorems. *)

\* Every step of every process keeps the invariant.
LEMMA NextOK == PInv /\ [Next]_vars => PInv'
<1> SUFFICES ASSUME PInv, [Next]_vars PROVE PInv'
  OBVIOUS
<1>1. CASE UNCHANGED vars
  BY <1>1 DEF vars, PInv, Typed, SysTyped
<1>2. ASSUME NEW t \in Procs, Step(t) PROVE PInv'
  <2>1. cpu[t].ip > 0
    BY <1>2 DEF Step
  <2>2. CASE Nosys(t) \/ Write(t) \/ do_wait(t) \/ addsyscall_exit(t) \/ addsyscall_init(t)
    BY <2>1, <2>2, StepGoOn
  <2>3. CASE sys_stop_trace(t) \/ sys_set_wcounts(t) \/ sys_rr_fifo_trace(t)
    BY <2>1, <2>3, StepForeign
  <2>4. CASE sys_start_trace(t) \/ start_mprotect(t) \/ Mprotect(t)
    BY <2>1, <2>4, StepStart, StepStartMprotect, StepMprotect
  <2>5. CASE wcounts_load(t) \/ wcounts_store(t) \/ handle_mm_fault(t)
    BY <2>1, <2>5, StepLoad, StepStore, StepHandle
  <2>6. CASE segv_handler(t) \/ do_fork(t) \/ do_exit(t)
    BY <2>1, <2>6, StepSegv, StepFork, StepExit
  <2>7. CASE sys_get_trace(t) \/ put_user(t)
    BY <2>1, <2>7, StepGet
  <2>8. CASE do_DataAbort(t) \/ do_translation_fault(t)
    BY <2>1, <2>8, StepAbort, StepTranslation
  <2>9. CASE expand_stack(t) \/ BadMap(t) \/ BadAccess(t)
    BY <2>1, <2>9, StepExpand, StepFault
  <2> QED BY <1>2, <2>2, <2>3, <2>4, <2>5, <2>6, <2>7, <2>8, <2>9 DEF Step
<1> QED BY <1>1, <1>2 DEF Next

\* wcounts is exact (fault.c:225, sys_start_trace, sys_set_wcounts): whatever the
\* processes, programs and interleavings, it is the value last set plus one per
\* traced write fault since, unless that call was lost to a racing increment.
THEOREM CountIsExact == Spec => []CountExact
<1>1. PInv => CountExact
  BY InvProperties
<1> QED BY <1>1, InitInv, NextOK, PTL DEF Spec

\* wcounts agrees with the count of segv_handler (page_trace_test.c, ras_pt_test.c):
\* while a process traces itself undisturbed, they differ exactly by the faults
\* put_user took in the kernel.
THEOREM CountIsHandlers == Spec => []WcountsIsTimes
<1>1. PInv => WcountsIsTimes
  BY InvProperties
<1> QED BY <1>1, InitInv, NextOK, PTL DEF Spec
====
