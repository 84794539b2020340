---------------------------- MODULE MCPageTrace ----------------------------
(* Instances of PageTrace: a program t1, its child c1 if it forks one, and *)
(* u1 beside them.  Pages 1 and 2 are memory, 3 is the heap page, 4 the    *)
(* stack and 5 a page that is unmapped, below the stack or the kernel's.   *)
EXTENDS PageTrace

CONSTANTS t1, u1, c1

MCVmas == {<<"r", "r", "rw", "rw", below>> : below \in {"none", "below_stack", "kernel"}}

\* t1 runs page_trace_test, ras_pt_test, or a program that has its result
\* written to a traced page, starts twice (misaligned, then empty), or forks
\* while it is traced.  u1 sets t1's counter, stops it, or traces itself.
TestPrograms ==
  {page_trace_test(t1, 2, 3, 4, 1, TRUE), page_trace_test(t1, 1, 3, 4, 1, FALSE),
   ras_pt_test(c1),
   <<start(t1, 1, 1, TRUE), get(t1, 1), write(1), stop(t1), start(t1, 2, 5, TRUE), write(3)>>,
   <<start(t1, 1, 2, FALSE), write(1), start(t1, 2, 1, TRUE), stop(t1), write(3)>>,
   <<start(t1, 1, 1, TRUE), write(1), fork(c1), wait(c1)>>}

OtherPrograms ==
  {ras_trace_bg(t1, 5) \o ras_trace_bg(t1, 1),
   <<stop(t1), get(t1, 4), start(t1, 1, 2, TRUE)>>,
   <<rmmod("start"), insmod("start"), write(5), write(2)>>}

MCPrograms ==
  t1 :> TestPrograms @@ u1 :> OtherPrograms @@ c1 :> {test_ras(c1, 1, 4, 1)}
====
