----------------------------- MODULE MCCpuTime ------------------------------
(* Instances of CpuTime. *)
EXTENDS CpuTime

CONSTANTS t1, a

\* A group with a task in it, a task outside, and a group yet to be made.
OneGroup ==
  {[tree |-> [g \in Groups |-> IF g = a THEN RootCa ELSE NoGroup],
    ca |-> [t \in Tasks |-> IF t = t1 THEN a ELSE RootCa]]}
====
