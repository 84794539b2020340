------------------------------ MODULE MCPTree ------------------------------
(* Instances of PTree: init_task, the reaper 1 and up to three more tasks. *)
EXTENDS PTree

Tree(parent, running) ==
  [parent |-> parent, state |-> [p \in Tasks |-> IF p \in running THEN "running" ELSE "unused"],
   children |-> [p \in Tasks |-> SetToSortSeq({c \in running \ {0} : parent[c] = p}, <)]]

\* 2 and 3 are children of 1, or 3 is a child of 2, whose parent is 0; 4 may be
\* forked on the way.
MCTrees ==
  {Tree([p \in Tasks |-> IF p \in {2, 3} THEN 1 ELSE 0], {0, 1, 2, 3}),
   Tree([p \in Tasks |-> IF p = 3 THEN 2 ELSE 0], {0, 1, 2, 3})}

\* All of the buffer is present, or all but its first two entries.
MCResidents == {Entries, Entries \ {0, 1}}
====
