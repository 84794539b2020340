----------------------------- MODULE MCLoadAvg ------------------------------
(* Instances of LoadAvg. *)
EXTENDS LoadAvg, TLC

\* EXP_1, EXP_5 and EXP_15.
RealExps == {1884, 2014, 2037}

\* The CPUs are interchangeable.
Symm == Permutations(CPUs)
====
