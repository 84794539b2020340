----------------------------- MODULE PageTrace -----------------------------
(***************************************************************************)
(* Page tracing: the system calls 361-365 (start, stop, get_trace,         *)
(* rr_fifo_trace and set_wcounts, each a loadable module), the counting of *)
(* write faults in arch/arm/mm/fault.c and the test programs that use      *)
(* them.  A process is single threaded and has its own mm, as in those     *)
(* programs; processes are preempted between any two accesses to a         *)
(* task_struct that another process may touch.                             *)
(*                                                                         *)
(* ts[t] holds the fields of t's task_struct, mm[t] its address space      *)
(* (page protections and the program's own variable times), cpu[t] where   *)
(* its program is, sys the system call table.  hist is a history variable: *)
(* it records what the properties speak of and guards nothing.             *)
(***************************************************************************)
EXTENDS Integers, Sequences, FiniteSets, TLC

CONSTANTS Procs,        \* the processes that may exist
          Initial,      \* those that exist at the start
          Programs,     \* for each process, the programs it may run
          Pages,        \* the user pages, 1 .. n
          Vmas,         \* for each page, the protections its vma may start with
          Handled,      \* the pages segv_handler makes writable
          Catchers,     \* the processes with a SIGSEGV handler
          Modules,      \* the system calls of the modules
          MaxErrors     \* bound on the memory shortages and retries a process meets

ASSUME PageTraceConstants ==
  /\ IsFiniteSet(Procs) /\ Initial \subseteq Procs /\ Catchers \subseteq Procs
  /\ Handled \subseteq Pages /\ MaxErrors \in Nat

VARIABLES ts, mm, cpu, sys, hist
vars == <<ts, mm, cpu, sys, hist>>

\* The vma of a page: below_stack is unmapped, just below a stack that grows
\* down; kernel is an address from TASK_SIZE on.
Prot == {"none", "r", "rw", "below_stack", "kernel"}

TypeOK ==
  /\ ts \in [Procs -> [alive : BOOLEAN, killed : BOOLEAN, trace_flag : 0 .. 1,
                       wcounts : Nat, rr_fifo_trace : 0 .. 1]]
  /\ \A t \in Procs :
       /\ mm[t].prot \in [Pages -> Prot] /\ mm[t].pte \in [Pages -> BOOLEAN]
       /\ mm[t].sem \in {"free", "read"} /\ mm[t].times \in Nat
       /\ mm[t].pgd \in BOOLEAN
       /\ cpu[t].pc \in {"user", "start", "put", "fault", "count", "segv", "exited"}
  /\ sys.table \in [Modules -> {"sys_ni_syscall", "module"}]
  /\ sys.loaded \subseteq Modules

-----------------------------------------------------------------------------
(* Programs: sequences of operations.                                      *)

start(pid, from, to, aligned) ==
  [op |-> "start", pid |-> pid, from |-> from, to |-> to, aligned |-> aligned]
stop(pid) == [op |-> "stop", pid |-> pid]
get(pid, page) == [op |-> "get", pid |-> pid, page |-> page]
set(pid, val) == [op |-> "set", pid |-> pid, val |-> val]
trace_rr(pid) == [op |-> "trace_rr", pid |-> pid]
write(page) == [op |-> "write", page |-> page]
mprotect(pages, prot) == [op |-> "mprotect", pages |-> pages, prot |-> prot]
fork(child) == [op |-> "fork", child |-> child]
wait(child) == [op |-> "wait", child |-> child]
rmmod(module) == [op |-> "rmmod", module |-> module]
insmod(module) == [op |-> "insmod", module |-> module]

Repeat(n, ops) == [i \in 1 .. (n * Len(ops)) |-> ops[((i - 1) % Len(ops)) + 1]]

\* page_trace_test: pages 1 .. n are memory, heap is heap_memory, stack holds
\* wcount.  heap_memory comes from malloc: its mprotect calls take effect only
\* if it happens to start a page (aligned).
page_trace_test(me, n, heap, stack, rounds, aligned) ==
  LET writes(p) == Repeat(rounds, <<write(p), mprotect(1 .. n, "r")>>) \o <<get(me, stack)>>
      heap_writes == Repeat(rounds, <<mprotect(IF aligned THEN {heap} ELSE {}, "r"), write(heap)>>)
  IN  <<start(me, 1, n, TRUE)>> \o writes(1) \o writes(n) \o
      heap_writes \o <<get(me, stack), stop(me)>>

\* The child of ras_pt_test, after its sched_setscheduler.
test_ras(me, n, stack, rounds) ==
  LET writes(p) == Repeat(rounds, <<write(p), mprotect(1 .. n, "r")>>)
  IN  <<trace_rr(me), start(me, 1, n, TRUE)>> \o writes(1) \o writes(n) \o
      <<stop(me), get(me, stack)>>

\* The parent of ras_pt_test.
ras_pt_test(child) == <<fork(child), wait(child)>>

\* ras_trace_bg, choice 3.
ras_trace_bg(pid, val) == <<set(pid, val)>>

Operation ==
  [op : {"start"}, pid : Procs, from : Int, to : Int, aligned : BOOLEAN]
    \cup [op : {"stop", "trace_rr"}, pid : Procs] \cup [op : {"get"}, pid : Procs, page : Pages]
    \cup [op : {"set"}, pid : Procs, val : Nat] \cup [op : {"write"}, page : Pages]
    \cup [op : {"mprotect"}, pages : SUBSET Pages, prot : {"r", "rw"}]
    \cup [op : {"fork", "wait"}, child : Procs] \cup [op : {"rmmod", "insmod"}, module : Modules]

\* The pages every address space starts with, as a program's own memory is.
Mapped == {p \in Pages : \A v \in Vmas : v[p] \in {"r", "rw"}}

\* Programs with a SIGSEGV handler write to their own memory only: the handler
\* counts every SIGSEGV, of whatever page.
ASSUME ProgramsTyped ==
  /\ Vmas \subseteq [Pages -> Prot]
  /\ \A t \in Procs : Programs[t] \subseteq Seq(Operation)
  /\ \A t \in Catchers : \A prog \in Programs[t] : \A i \in 1 .. Len(prog) :
       prog[i].op = "write" => prog[i].page \in Mapped

-----------------------------------------------------------------------------
Current(t) == cpu[t].prog[cpu[t].ip]
Op(t, op) ==
  /\ cpu[t].pc = "user" /\ ~ts[t].killed /\ cpu[t].ip <= Len(cpu[t].prog)
  /\ Current(t).op = op
Next_op(t) == [cpu EXCEPT ![t].pc = "user", ![t].ip = @ + 1]
Exited(t) == [cpu EXCEPT ![t].pc = "exited"]

\* rmmod of a module no process is inside of: the modules take no reference
\* on themselves, so this is up to the shell's user.
addsyscall_exit(t) ==
  /\ Op(t, "rmmod") /\ Current(t).module \in sys.loaded
  /\ \A u \in Procs : cpu[u].inside # Current(t).module
  /\ sys' = [sys EXCEPT !.loaded = @ \ {Current(t).module},
                        !.table[Current(t).module] = sys.old[Current(t).module]]
  /\ cpu' = Next_op(t)
  /\ UNCHANGED <<ts, mm, hist>>

\* insmod; kallsyms_lookup_name finds both symbols start_trace needs.
addsyscall_init(t) ==
  /\ Op(t, "insmod") /\ Current(t).module \notin sys.loaded
  /\ sys' = [sys EXCEPT !.loaded = @ \cup {Current(t).module},
                        !.old[Current(t).module] = sys.table[Current(t).module],
                        !.table[Current(t).module] = "module"]
  /\ cpu' = Next_op(t)
  /\ UNCHANGED <<ts, mm, hist>>

\* A system call whose table entry is not a module's returns -ENOSYS.
Nosys(t) ==
  /\ \E m \in Modules : Op(t, m) /\ sys.table[m] # "module"
  /\ cpu' = Next_op(t)
  /\ UNCHANGED <<ts, mm, sys, hist>>

Call(t, m) == Op(t, m) /\ sys.table[m] = "module" /\ mm[t].pgd

\* pid_task(find_vpid(pid), PIDTYPE_PID) # NULL
pid_task(pid) == ts[pid].alive

-----------------------------------------------------------------------------
(* mprotect *)

\* mprotect_fixup (mm/mprotect.c): a page made read-only loses its writable
\* pte; one made writable gets it back only at the next write fault.
mprotect_fixup(m, pages, prot) ==
  [m EXCEPT !.prot = [p \in Pages |-> IF p \in pages THEN prot ELSE @[p]],
            !.pte = [p \in Pages |-> @[p] /\ p \notin pages]]

\* mprotect_s(): the mm it may leave.  It goes from vma to vma, stops at the
\* first gap (-ENOMEM), and where mprotect_fixup fails (if it may) before the
\* last page; what came before stays changed.  A misaligned start is -EINVAL
\* and an empty range 0, both without effect.
mprotect_s(m, from, to, aligned, fixup_fails) ==
  LET mapped(k) == \A p \in from .. k : m.prot[p] \in {"r", "rw"}
      ends == {k \in (from - 1) .. to : mapped(k)}
      last == CHOOSE k \in ends : \A j \in ends : j <= k
  IN  IF ~aligned \/ to < from THEN {m}
      ELSE {mprotect_fixup(m, from .. k, "r") :
              k \in {j \in ends : j = last \/ (fixup_fails /\ j < to)}}

\* The programs' mprotect system call, on mapped pages.
Mprotect(t) ==
  /\ Op(t, "mprotect") /\ mm[t].sem = "free"
  /\ mm' = [mm EXCEPT ![t] = mprotect_fixup(@, Current(t).pages, Current(t).prot)]
  /\ cpu' = Next_op(t)
  /\ UNCHANGED <<ts, sys, hist>>

-----------------------------------------------------------------------------
(* System calls 361-365.                                                   *)

Started(t) ==
  [hist[t] EXCEPT !.base = 0, !.since = 0, !.raced = FALSE, !.times0 = mm[t].times,
                  !.kernel = 0, !.touched = FALSE]

\* Mutant of sys_start_trace: wcounts is not cleared.
sys_start_trace_no_reset(t) ==
  /\ Call(t, "start")
  /\ IF ~pid_task(Current(t).pid) \/ Current(t).pid # t \/ ts[t].trace_flag = 1
     THEN cpu' = Next_op(t) /\ UNCHANGED <<ts, hist>>
     ELSE /\ ts' = [ts EXCEPT ![t].trace_flag = 1]
          /\ cpu' = [cpu EXCEPT ![t].pc = "start", ![t].inside = "start"]
          /\ hist' = [hist EXCEPT ![t] = Started(t)]
  /\ UNCHANGED <<mm, sys>>

\* sys_start_trace() up to its call of mprotect_s.
sys_start_trace(t) ==
  /\ Call(t, "start")
  /\ IF ~pid_task(Current(t).pid) \/ Current(t).pid # t \/ ts[t].trace_flag = 1
     THEN cpu' = Next_op(t) /\ UNCHANGED <<ts, hist>>
     ELSE /\ ts' = [ts EXCEPT ![t].trace_flag = 1, ![t].wcounts = 0]
          /\ cpu' = [cpu EXCEPT ![t].pc = "start", ![t].inside = "start"]
          /\ hist' = [hist EXCEPT ![t] = Started(t)]
  /\ UNCHANGED <<mm, sys>>

\* mprotect_s and the return of sys_start_trace; a failure undoes nothing.
start_mprotect(t) ==
  /\ cpu[t].pc = "start" /\ mm[t].sem = "free"
  /\ \E fixup_fails \in {FALSE, cpu[t].errors < MaxErrors} :
       /\ \E m \in mprotect_s(mm[t], Current(t).from, Current(t).to, Current(t).aligned, fixup_fails) :
            mm' = [mm EXCEPT ![t] = m]
       /\ cpu' = [Next_op(t) EXCEPT ![t].inside = "none",
                                    ![t].errors = IF fixup_fails THEN @ + 1 ELSE @]
  /\ UNCHANGED <<ts, sys, hist>>

\* sys_stop_trace(): any process may stop any other; pages stay read-only.
sys_stop_trace(t) ==
  /\ Call(t, "stop")
  /\ LET pid == Current(t).pid
     IN  IF pid_task(pid) /\ ts[pid].trace_flag = 1
         THEN /\ ts' = [ts EXCEPT ![pid].trace_flag = 0]
              /\ hist' = [hist EXCEPT ![pid].touched = @ \/ pid # t]
         ELSE UNCHANGED <<ts, hist>>
  /\ cpu' = Next_op(t)
  /\ UNCHANGED <<mm, sys>>

\* sys_get_trace(): tsk->wcounts is read, then put_user writes it.
sys_get_trace(t) ==
  /\ Call(t, "get")
  /\ cpu' = IF pid_task(Current(t).pid)
            THEN [cpu EXCEPT ![t].pc = "put", ![t].inside = "get",
                             ![t].reg = ts[Current(t).pid].wcounts]
            ELSE Next_op(t)
  /\ UNCHANGED <<ts, mm, sys, hist>>

\* put_user succeeds; the fault path below gives up or comes back here.
put_user(t) ==
  /\ cpu[t].pc = "put" /\ mm[t].pte[Current(t).page]
  /\ mm' = [mm EXCEPT ![t].got = cpu[t].reg]
  /\ cpu' = [Next_op(t) EXCEPT ![t].inside = "none"]
  /\ UNCHANGED <<ts, sys, hist>>

sys_set_wcounts(t) ==
  /\ Call(t, "set")
  /\ LET pid == Current(t).pid
     IN  IF pid_task(pid)
         THEN /\ ts' = [ts EXCEPT ![pid].wcounts = Current(t).val]
              /\ hist' = [hist EXCEPT ![pid].base = Current(t).val, ![pid].since = 0,
                                      ![pid].touched = TRUE,
                                      ![pid].raced = cpu[pid].pc = "count"]
         ELSE UNCHANGED <<ts, hist>>
  /\ cpu' = Next_op(t)
  /\ UNCHANGED <<mm, sys>>

sys_rr_fifo_trace(t) ==
  /\ Call(t, "trace_rr")
  /\ ts' = IF pid_task(Current(t).pid) THEN [ts EXCEPT ![Current(t).pid].rr_fifo_trace = 1] ELSE ts
  /\ cpu' = Next_op(t)
  /\ UNCHANGED <<mm, sys, hist>>

-----------------------------------------------------------------------------
(* The data abort of a store (arch/arm/mm/fault.c).                        *)

InUser(t) == cpu[t].resume = "user"
Page(t) == Current(t).page

\* A store the pte allows.
Write(t) ==
  /\ Op(t, "write") /\ mm[t].pte[Page(t)]
  /\ cpu' = Next_op(t)
  /\ UNCHANGED <<ts, mm, sys, hist>>

\* A store the pte does not allow: do_DataAbort calls do_page_fault, for a
\* missing table through do_translation_fault, as the address is the user's.
do_DataAbort(t) ==
  /\ Op(t, "write") \/ cpu[t].pc = "put"
  /\ ~mm[t].pte[Page(t)] /\ mm[t].prot[Page(t)] # "kernel"
  /\ cpu' = [cpu EXCEPT ![t].pc = "fault", ![t].resume = cpu[t].pc, ![t].allow_retry = TRUE]
  /\ UNCHANGED <<ts, mm, sys, hist>>

\* __do_user_fault(): SIGSEGV is forced on the process.
do_user_fault(t) == [cpu EXCEPT ![t].pc = "segv"]

\* do_translation_fault() of a kernel address: a store of the program gets SIGSEGV
\* (do_bad_area); the first call of a module copies the entry of the modules'
\* area from init_mm to the process's first-level table.
do_translation_fault(t) ==
  \/ /\ Op(t, "write") /\ mm[t].prot[Page(t)] = "kernel"
     /\ cpu' = do_user_fault(t)
     /\ UNCHANGED <<ts, mm, sys, hist>>
  \/ /\ \E m \in Modules : Op(t, m) /\ sys.table[m] = "module"
     /\ ~mm[t].pgd
     /\ mm' = [mm EXCEPT ![t].pgd = TRUE]
     /\ UNCHANGED <<ts, cpu, sys, hist>>

\* Back to the faulting instruction, which is executed again.
Resume(t) == [cpu EXCEPT ![t].pc = cpu[t].resume]

\* no_context: __do_kernel_fault finds the fixup of put_user, which returns
\* -EFAULT; sys_get_trace ignores it.
no_context(t) == [Next_op(t) EXCEPT ![t].inside = "none"]

\* Mutant of bad_fault: __do_user_fault is not called, the store is tried again.
bad_fault_no_signal(t) == IF InUser(t) THEN Resume(t) ELSE no_context(t)

\* The end of do_page_fault for a fault that could not be handled.
bad_fault(t) ==
  IF InUser(t) THEN do_user_fault(t) ELSE no_context(t)

\* access_error() of a write fault: whether it also counts the write.
access_error(t) == mm[t].prot[Page(t)] = "r" /\ ts[t].trace_flag = 1

\* check_stack: expand_stack() of a page just below a growing stack may fail.
expand_stack(t) ==
  /\ cpu[t].pc = "fault" /\ mm[t].sem = "free" /\ mm[t].prot[Page(t)] = "below_stack"
  /\ \/ /\ mm' = [mm EXCEPT ![t].prot[Page(t)] = "rw"] /\ UNCHANGED <<cpu, sys, hist, ts>>
     \/ /\ cpu' = bad_fault(t) /\ UNCHANGED <<mm, sys, hist, ts>>

\* VM_FAULT_BADMAP.
BadMap(t) ==
  /\ cpu[t].pc = "fault" /\ mm[t].sem = "free" /\ mm[t].prot[Page(t)] = "none"
  /\ cpu' = bad_fault(t)
  /\ UNCHANGED <<ts, mm, sys, hist>>

\* VM_FAULT_BADACCESS of a write that is not counted.
BadAccess(t) ==
  /\ cpu[t].pc = "fault" /\ mm[t].sem = "free" /\ mm[t].prot[Page(t)] = "r" /\ ~access_error(t)
  /\ cpu' = bad_fault(t)
  /\ UNCHANGED <<ts, mm, sys, hist>>

\* current->wcounts++ loads the counter; mmap_sem is held for reading.
wcounts_load(t) ==
  /\ cpu[t].pc = "fault" /\ mm[t].sem = "free" /\ access_error(t)
  /\ cpu' = [cpu EXCEPT ![t].pc = "count", ![t].reg2 = ts[t].wcounts]
  /\ mm' = [mm EXCEPT ![t].sem = "read"]
  /\ UNCHANGED <<ts, sys, hist>>

\* Mutant of wcounts_store: the signal is sent from under mmap_sem.
wcounts_store_locked(t) ==
  /\ cpu[t].pc = "count"
  /\ ts' = [ts EXCEPT ![t].wcounts = cpu[t].reg2 + 1]
  /\ cpu' = bad_fault(t)
  /\ hist' = [hist EXCEPT ![t].since = @ + 1, ![t].kernel = IF InUser(t) THEN @ ELSE @ + 1]
  /\ UNCHANGED <<mm, sys>>

\* ... and stores it; up_read, then SIGSEGV or the fixup.
wcounts_store(t) ==
  /\ cpu[t].pc = "count"
  /\ ts' = [ts EXCEPT ![t].wcounts = cpu[t].reg2 + 1]
  /\ cpu' = bad_fault(t)
  /\ mm' = [mm EXCEPT ![t].sem = "free"]
  /\ hist' = [hist EXCEPT ![t].since = @ + 1, ![t].kernel = IF InUser(t) THEN @ ELSE @ + 1]
  /\ UNCHANGED sys

\* handle_mm_fault() and the rest of do_page_fault, for a writable vma: the page
\* is there, or it must be retried (mmap_sem was released on the way; the second
\* attempt does not allow another), or there is no memory, or SIGBUS.
handle_mm_fault(t) ==
  /\ cpu[t].pc = "fault" /\ mm[t].sem = "free" /\ mm[t].prot[Page(t)] = "rw"
  /\ \/ /\ mm' = [mm EXCEPT ![t].pte[Page(t)] = TRUE]
        /\ cpu' = Resume(t) /\ UNCHANGED ts
     \/ /\ cpu[t].allow_retry /\ cpu[t].errors < MaxErrors
        /\ cpu' = IF ts[t].killed THEN [Resume(t) EXCEPT ![t].errors = @ + 1]
                  ELSE [cpu EXCEPT ![t].allow_retry = FALSE, ![t].errors = @ + 1]
        /\ UNCHANGED <<mm, ts>>
     \/ /\ cpu[t].errors < MaxErrors
        /\ cpu' = [Resume(t) EXCEPT ![t].errors = @ + 1]
        /\ \E oom_killed \in BOOLEAN : ts' = [ts EXCEPT ![t].killed = @ \/ oom_killed]
        /\ UNCHANGED mm
     \/ /\ cpu[t].errors < MaxErrors
        /\ cpu' = IF InUser(t) THEN Exited(t) ELSE [no_context(t) EXCEPT ![t].errors = @ + 1]
        /\ ts' = IF InUser(t) THEN [ts EXCEPT ![t].alive = FALSE] ELSE ts
        /\ UNCHANGED mm
  /\ UNCHANGED <<sys, hist>>

\* segv_handler of the test programs; without one SIGSEGV ends the process.
segv_handler(t) ==
  /\ cpu[t].pc = "segv" /\ t \in Catchers /\ ~ts[t].killed /\ mm[t].sem = "free"
  /\ mm' = [mm EXCEPT ![t] =
       [mprotect_fixup(mm[t], {p \in Handled : mm[t].prot[p] # "none"}, "rw")
          EXCEPT !.times = mm[t].times + 1]]
  /\ cpu' = [cpu EXCEPT ![t].pc = "user"]
  /\ UNCHANGED <<ts, sys, hist>>

-----------------------------------------------------------------------------
(* Processes. *)

\* fork(): dup_task_struct copies every field, dup_mmap the address space with
\* all its pages write protected on both sides and a new first-level table.
do_fork(t) ==
  /\ Op(t, "fork") /\ cpu[Current(t).child].ip = 0
  /\ LET c == Current(t).child
         shared == [mm[t] EXCEPT !.pte = [p \in Pages |-> FALSE]]
     IN  /\ ts' = [ts EXCEPT ![c] = [ts[t] EXCEPT !.killed = FALSE]]
         /\ mm' = [mm EXCEPT ![t] = shared, ![c] = [shared EXCEPT !.pgd = TRUE]]
         /\ hist' = [hist EXCEPT ![c] = hist[t]]
         /\ cpu' = [Next_op(t) EXCEPT ![c].ip = 1, ![c].pc = "user"]
  /\ UNCHANGED sys

do_wait(t) ==
  /\ Op(t, "wait") /\ cpu[Current(t).child].pc = "exited"
  /\ cpu' = Next_op(t)
  /\ UNCHANGED <<ts, mm, sys, hist>>

\* The end of the program, SIGKILL or an uncaught SIGSEGV.
do_exit(t) ==
  /\ \/ cpu[t].pc = "user" /\ cpu[t].ip > Len(cpu[t].prog)
     \/ cpu[t].pc \in {"user", "segv"} /\ ts[t].killed
     \/ cpu[t].pc = "segv" /\ t \notin Catchers
  /\ cpu' = Exited(t)
  /\ ts' = [ts EXCEPT ![t].alive = FALSE]
  /\ UNCHANGED <<mm, sys, hist>>

Init ==
  /\ ts = [t \in Procs |-> [alive |-> t \in Initial, killed |-> FALSE, trace_flag |-> 0,
                            wcounts |-> 0, rr_fifo_trace |-> 0]]
  /\ \E v \in Vmas :
       mm = [t \in Procs |-> [prot |-> v, pte |-> [p \in Pages |-> v[p] = "rw"],
                              sem |-> "free", times |-> 0, got |-> 0, pgd |-> FALSE]]
  /\ \E prog \in [Procs -> UNION {Programs[t] : t \in Procs}] :
       /\ \A t \in Procs : prog[t] \in Programs[t]
       /\ cpu = [t \in Procs |->
                  [pc |-> "user", ip |-> IF t \in Initial THEN 1 ELSE 0, prog |-> prog[t],
                   resume |-> "user", allow_retry |-> TRUE, reg |-> 0, reg2 |-> 0, errors |-> 0,
                   inside |-> "none"]]
  /\ sys = [table |-> [m \in Modules |-> "module"], old |-> [m \in Modules |-> "sys_ni_syscall"],
            loaded |-> Modules]
  /\ hist = [t \in Procs |-> [base |-> 0, since |-> 0, raced |-> FALSE, times0 |-> 0, kernel |-> 0,
                              touched |-> FALSE]]

Step(t) ==
  /\ cpu[t].ip > 0
  /\ \/ Nosys(t) \/ sys_start_trace(t) \/ start_mprotect(t) \/ sys_stop_trace(t)
     \/ sys_get_trace(t) \/ put_user(t) \/ sys_set_wcounts(t) \/ sys_rr_fifo_trace(t)
     \/ Mprotect(t) \/ Write(t) \/ do_DataAbort(t) \/ do_translation_fault(t) \/ expand_stack(t) \/ BadMap(t)
     \/ BadAccess(t) \/ wcounts_load(t) \/ wcounts_store(t) \/ handle_mm_fault(t)
     \/ segv_handler(t) \/ do_fork(t) \/ do_wait(t) \/ do_exit(t)
     \/ addsyscall_exit(t) \/ addsyscall_init(t)

Next == \E t \in Procs : Step(t)

Spec == Init /\ [][Next]_vars

\* The scheduler runs every runnable process.
FairSpec == Spec /\ \A t \in Procs : WF_vars(Step(t))

-----------------------------------------------------------------------------
(* Properties. *)

\* wcounts is what the last sys_start_trace or sys_set_wcounts made it, plus one
\* per traced write fault since, unless that call fell between the load and the
\* store of current->wcounts++ (fault.c:225) and was lost; a fork copies it.
CountExact ==
  /\ TypeOK
  /\ \A t \in Procs : ~hist[t].raced => ts[t].wcounts = hist[t].base + hist[t].since

\* What page_trace_test prints side by side: while a process traces itself and no
\* other stops it or sets its counter, wcounts is the number of times its
\* handler ran since the start, plus the faults put_user took in the kernel
\* on a traced page (those count and run no handler).  It rests on ProgramsTyped:
\* a SIGSEGV of a stray write would be counted by the handler only.
WcountsIsTimes ==
  \A t \in Catchers :
    (ts[t].trace_flag = 1 /\ ~hist[t].touched /\ cpu[t].pc = "user")
      => ts[t].wcounts = mm[t].times - hist[t].times0 + hist[t].kernel

\* Every write comes through: each process ends, whatever faults, partial
\* failures of mprotect_s, retries and signals it meets on the way.
Finishes == \A t \in Procs : cpu[t].ip > 0 ~> cpu[t].pc = "exited"
====
