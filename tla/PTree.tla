------------------------------- MODULE PTree -------------------------------
(***************************************************************************)
(* The ptree system call (Problem1/sys_ptree.c): a depth-first walk of the *)
(* process tree into a user buffer, while other processes fork and exit.   *)
(* tasklist_lock is taken and released around each field, so the tree may  *)
(* change between any two reads, and the list of children is followed      *)
(* without it.  The caller is the program of Problem2/ptree.c.             *)
(*                                                                         *)
(* tree is the kernel's: parent (real_parent), children (the list, oldest  *)
(* first, as fork adds at the tail) and state of each task.  The walk has  *)
(* its recursion as path: path[1] is init_task and path[i + 1] the child   *)
(* list points to in the call for path[i]; layer is Len(path) - 1.         *)
(*                                                                         *)
(* Names that CaesarServer has too carry the prefix PTree: Project1Proofs  *)
(* extends both modules.                                                   *)
(***************************************************************************)
EXTENDS Integers, Sequences, FiniteSets, SequencesExt

CONSTANTS Tasks,      \* process ids; 0 is init_task and 1 the reaper
          Trees,      \* the trees the walk may start with (parent and children)
          Sizes,      \* the values of *nr, the entries in the user's buffer
          Residents   \* the sets of entries whose page may be present

Entries == 0 .. (Max(Sizes) + 1)   \* the buffer and what follows it
States == {"unused", "running", "zombie", "reaped"}
Linked(t, p) == t.state[p] \in {"running", "zombie"}

\* The lists of children hold, each once, the tasks that are not yet reaped, each on
\* its parent's; only running tasks have children.
ListsMatch(t) ==
  /\ t.state[0] = "running" /\ t.state[1] = "running"
  /\ \A p \in Tasks :
       /\ IsInjective(t.children[p])
       /\ t.children[p] # <<>> => t.state[p] = "running"
       /\ \A c \in Tasks :
            Contains(t.children[p], c) <=> c # 0 /\ Linked(t, c) /\ t.parent[c] = p

\* All of the tasks in S descend from 0: a part of them that is without 0 and has with
\* each task its parent is empty.
Rooted(t, S) ==
  \A U \in SUBSET S : U # {} => 0 \in U \/ \E p \in U : t.parent[p] \notin U

ASSUME PTreeConstants ==
  /\ {0, 1} \subseteq Tasks /\ Tasks \subseteq Nat
  /\ Sizes \subseteq Nat /\ \E m \in Sizes : \A n \in Sizes : n <= m
  /\ Residents \subseteq SUBSET Entries

ASSUME TreesFormed ==
  \A t \in Trees :
    /\ t \in [parent : [Tasks -> Tasks], children : [Tasks -> Seq(Tasks)], state : [Tasks -> States]]
    /\ ListsMatch(t) /\ Rooted(t, {p \in Tasks : t.state[p] = "running"})

VARIABLES tree, walk, buf, resident, hist
PTreeVars == <<tree, walk, buf, resident, hist>>

Unset == -1
Finish == -2   \* the comm "Finish here!"
EmptyEntry == [parent_pid |-> Unset, pid |-> Unset, first_child_pid |-> Unset,
               next_sibling_pid |-> Unset, state |-> "unset", comm |-> Unset, layer |-> Unset]
nr == walk.nr

\* Types; the walk also stays within the nr entries of the user's buffer.
PTreeTypeOK ==
  /\ tree.parent \in [Tasks -> Tasks]
  /\ tree.children \in [Tasks -> Seq(Tasks)]
  /\ tree.state \in [Tasks -> States]
  /\ walk.path \in Seq(Tasks) /\ walk.idx \in 0 .. nr
  /\ walk.pc \in {"start", "enter", "ppid", "child", "sibling", "rest", "advance",
                  "finish", "done", "lost"}
  /\ resident \subseteq Entries
  /\ \A i \in Entries : i >= nr => buf[i] = EmptyEntry

-----------------------------------------------------------------------------
(* The process tree: kernel/fork.c and kernel/exit.c, which are external.  *)

copy_process(p, c) ==
  /\ tree.state[p] = "running" /\ tree.state[c] = "unused"
  /\ tree' = [tree EXCEPT !.state[c] = "running", !.parent[c] = p, !.children[p] = Append(@, c)]
  /\ UNCHANGED <<walk, buf, resident, hist>>

\* exit_notify: the children move to the end of the reaper's list; the task
\* itself stays on its parent's list until it is waited for.
exit_notify(p) ==
  /\ p \notin {0, 1} /\ tree.state[p] = "running"
  /\ tree' = [tree EXCEPT
                !.state[p] = "zombie",
                !.parent = [c \in Tasks |-> IF Contains(tree.children[p], c)
                                            THEN 1 ELSE tree.parent[c]],
                !.children = [tree.children EXCEPT ![p] = <<>>, ![1] = @ \o tree.children[p]]]
  /\ hist' = [hist EXCEPT !.moved = @ \/ tree.children[p] # <<>>]
  /\ UNCHANGED <<walk, buf, resident>>

release_task(p) ==
  /\ tree.state[p] = "zombie"
  /\ tree' = [tree EXCEPT !.state[p] = "reaped",
                          !.children[tree.parent[p]] = RemoveFirst(@, p)]
  /\ hist' = [hist EXCEPT !.steady = @ \ {p}]
  /\ UNCHANGED <<walk, buf, resident>>

-----------------------------------------------------------------------------
(* The walk. *)

t_child == Last(walk.path)
first_child(p) == IF tree.children[p] = <<>> THEN 0 ELSE Head(tree.children[p])

\* list_first_entry(&p->sibling), 0 for the last child; a task that has been
\* released has an empty sibling list.
next_sibling(p) ==
  LET list == tree.children[tree.parent[p]]
      later == {i \in 1 .. (Len(list) - 1) : list[i] = p}
  IN  IF Linked(tree, p) /\ later # {} THEN list[(CHOOSE i \in later : TRUE) + 1] ELSE 0

\* Put_user and Copy_to_user run under tasklist_lock, where a fault is not
\* handled: what goes to a page that is not present is lost.
Put_user(field, value) ==
  buf' = IF walk.idx \in resident THEN [buf EXCEPT ![walk.idx][field] = value] ELSE buf

To(pc) == [walk EXCEPT !.pc = pc]

\* ptree(): the entry of init_task, under one lock.
ptree ==
  /\ walk.pc = "start"
  /\ IF walk.idx < nr
     THEN /\ buf' = IF 0 \in resident
                    THEN [buf EXCEPT ![0] = [parent_pid |-> 0, pid |-> 0, next_sibling_pid |-> 0,
                                             first_child_pid |-> first_child(0), comm |-> 0,
                                             state |-> tree.state[0], layer |-> 0]]
                    ELSE buf
          /\ walk' = [walk EXCEPT !.pc = "enter", !.idx = @ + 1]
     ELSE walk' = To("enter") /\ UNCHANGED buf
  /\ UNCHANGED <<tree, resident, hist>>

\* Mutant of Visit: the test of *idx against *nr is left out.
Visit_unbounded(path) == [walk EXCEPT !.path = path, !.pc = "ppid"]

\* The cursor reaches child c of the task it is walking: its entry is filled in if
\* there is room, and it is walked in any case.
Visit(path) ==
  [walk EXCEPT !.path = path, !.pc = IF walk.idx < nr THEN "ppid" ELSE "enter"]

\* pstree_dfs() is called for the last task of path.
dfs_enter ==
  /\ walk.pc = "enter"
  /\ walk' = IF tree.children[t_child] # <<>>
             THEN Visit(Append(walk.path, first_child(t_child)))
             ELSE To(IF Len(walk.path) = 1 THEN "finish" ELSE "advance")
  /\ UNCHANGED <<tree, buf, resident, hist>>

dfs_ppid ==
  /\ walk.pc = "ppid"
  /\ buf' = IF walk.idx \in resident
            THEN [buf EXCEPT ![walk.idx].parent_pid = tree.parent[t_child],
                             ![walk.idx].pid = t_child]
            ELSE buf
  /\ walk' = To("child")
  /\ UNCHANGED <<tree, resident, hist>>

dfs_children ==
  /\ walk.pc = "child"
  /\ Put_user("first_child_pid", first_child(t_child))
  /\ walk' = To("sibling")
  /\ UNCHANGED <<tree, resident, hist>>

dfs_sibling ==
  /\ walk.pc = "sibling"
  /\ Put_user("next_sibling_pid", next_sibling(t_child))
  /\ walk' = To("rest")
  /\ UNCHANGED <<tree, resident, hist>>

\* state, uid, comm and layer; the entry is complete.
dfs_rest ==
  /\ walk.pc = "rest"
  /\ buf' = IF walk.idx \in resident
            THEN [buf EXCEPT ![walk.idx].state = tree.state[t_child], ![walk.idx].comm = t_child,
                             ![walk.idx].layer = Len(walk.path) - 1]
            ELSE buf
  /\ walk' = [walk EXCEPT !.idx = @ + 1, !.pc = "enter"]
  /\ UNCHANGED <<tree, resident, hist>>

\* The child under the cursor is still on the list that is walked.
OnWalkedList ==
  Linked(tree, t_child) /\ tree.parent[t_child] = walk.path[Len(walk.path) - 1]

\* Mutants of dfs_advance: the inner loop's end ends the outer loop as well; the
\* list is taken from its head again.
dfs_advance_returns ==
  /\ walk.pc = "advance"
  /\ walk' = IF ~OnWalkedList THEN To("lost")
             ELSE IF next_sibling(t_child) # 0
             THEN Visit(Append(Front(walk.path), next_sibling(t_child)))
             ELSE To("finish")
  /\ UNCHANGED <<tree, buf, resident, hist>>
dfs_advance_restarts ==
  /\ walk.pc = "advance"
  /\ walk' = IF ~OnWalkedList THEN To("lost")
             ELSE Visit(Append(Front(walk.path), first_child(Last(Front(walk.path)))))
  /\ UNCHANGED <<tree, buf, resident, hist>>

\* list = list->next after the recursive call.  A cursor that has been unlinked
\* or moved meanwhile leads to itself or into another list, whose head is taken
\* for a task: from then on the walk is undefined.
dfs_advance ==
  /\ walk.pc = "advance"
  /\ walk' = IF ~OnWalkedList THEN To("lost")
             ELSE IF next_sibling(t_child) # 0
             THEN Visit(Append(Front(walk.path), next_sibling(t_child)))
             ELSE [walk EXCEPT !.path = Front(@),
                               !.pc = IF Len(walk.path) = 2 THEN "finish" ELSE "advance"]
  /\ UNCHANGED <<tree, buf, resident, hist>>

\* The end marker, if there is room for it.
ptree_finish ==
  /\ walk.pc = "finish"
  /\ IF walk.idx < nr /\ walk.idx \in resident
     THEN buf' = [buf EXCEPT ![walk.idx].comm = Finish] ELSE UNCHANGED buf
  /\ walk' = To("done")
  /\ UNCHANGED <<tree, resident, hist>>

PTreeInit ==
  /\ \E t \in Trees :
       /\ tree = t
       /\ hist = [moved |-> FALSE, steady |-> {p \in Tasks : t.state[p] = "running"}]
  /\ walk \in [pc : {"start"}, path : {<<0>>}, idx : {0}, nr : Sizes]
  /\ resident \in Residents
  /\ buf = [i \in Entries |-> EmptyEntry]

Walk == ptree \/ dfs_enter \/ dfs_ppid \/ dfs_children \/ dfs_sibling \/ dfs_rest \/ dfs_advance \/ ptree_finish

Others ==
  \/ \E p, c \in Tasks : copy_process(p, c)
  \/ \E p \in Tasks : exit_notify(p) \/ release_task(p)

PTreeNext == Walk \/ Others
PTreeSpec == PTreeInit /\ [][PTreeNext]_PTreeVars

\* The caller is scheduled again and again.
PTreeFairSpec == PTreeSpec /\ WF_PTreeVars(Walk)

-----------------------------------------------------------------------------
(* Properties. *)

\* The loop of ptree.c: it prints entries up to the marker, nr at most.
Printed ==
  LET ends == {i \in 0 .. nr : i = nr \/ buf[i].comm = Finish}
  IN  [i \in 1 .. (CHOOSE e \in ends : \A f \in ends : e <= f) |-> buf[i - 1]]

\* The buffer was present, and no children changed parent during the walk.
Undisturbed == walk.pc = "done" /\ ~hist.moved /\ resident = Entries

\* With room in the buffer, the program prints every task that was there from
\* the beginning of the walk to its end exactly once, and no task twice,
\* whatever forks and exits happened beside it.
PrintedOnce ==
  Undisturbed =>
    /\ \A i, j \in 1 .. Len(Printed) : Printed[i].pid = Printed[j].pid => i = j
    /\ (Len(Printed) < nr => \A p \in hist.steady : \E i \in 1 .. Len(Printed) : Printed[i].pid = p)

\* The indentation is right: each entry but the first follows an entry for its
\* parent, one layer above, with only descendants of that parent in between.
LayersNest ==
  Undisturbed =>
    \A i \in 2 .. Len(Printed) :
      \E j \in 1 .. (i - 1) :
        /\ Printed[j].pid = Printed[i].parent_pid
        /\ Printed[i].layer = Printed[j].layer + 1
        /\ \A k \in (j + 1) .. (i - 1) : Printed[k].layer > Printed[j].layer

\* What the program prints is the tree.
TreePrinted == PrintedOnce /\ LayersNest

\* The walk comes to its end, or follows a child that left the list under it.
WalkEnds == <>(walk.pc \in {"done", "lost"})
====
