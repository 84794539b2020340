----------------------------- MODULE MCRasSched -----------------------------
(* Small instances of RasSched for TLC. *)
EXTENDS RasSched

CONSTANTS t1, t2, t3

TwoTasks == {t1, t2}
ThreeTasks == {t1, t2, t3}
=============================================================================
