---------------------------- MODULE MCRtBalance ----------------------------
(* An instance of RtBalance: two CPUs and three tasks, two of one priority. *)
EXTENDS RtBalance

CONSTANTS high, low1, low2

TwoCPUs == {0, 1}
ThreeTasks == {high, low1, low2}
TwoPrios == [p \in ThreeTasks |-> IF p = high THEN 0 ELSE 1]
TwoMasks == {{0}, {0, 1}}

\* The two tasks of the same priority are interchangeable.
Symm == Permutations({low1, low2})
====
