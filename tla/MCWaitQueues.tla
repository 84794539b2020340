---------------------------- MODULE MCWaitQueues ----------------------------
(* Instances of WaitQueues.  There is no symmetry set: a temporal property *)
(* is checked.                                                             *)
EXTENDS WaitQueues
====
