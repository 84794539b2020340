----------------------------- MODULE MCRtGroups -----------------------------
(* Instances of RtGroups. *)
EXTENDS RtGroups

CONSTANTS t1, t2, g1, g2

Bw(r, ra, rb) == [g \in Groups |-> CASE g = Root -> r [] g = g1 -> ra [] OTHER -> rb]
Parent(pb) == [g \in Groups |-> CASE g = g1 -> Root [] g = g2 -> pb [] OTHER -> NoGroup]
Two(x, y) == [t \in Tasks |-> IF t = t1 THEN x ELSE y]

\* A group inside a group, with a task in each, and a task in the root beside a group.
Nested ==
  {[parent |-> Parent(g1), period |-> 4, runtime |-> Bw(3, 2, 1),
    tg |-> Two(g2, g1), prio |-> Two(1, 2), rr |-> FALSE],
   [parent |-> Parent(NoGroup), period |-> 4, runtime |-> Bw(2, 1, 0),
    tg |-> Two(g1, Root), prio |-> Two(2, 2), rr |-> TRUE]}
====
