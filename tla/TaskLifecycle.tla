--------------------------- MODULE TaskLifecycle ---------------------------
(***************************************************************************)
(* What the scheduler promises about tasks, whatever their class: the life *)
(* of a task and who may run.  RasSched implements it.                     *)
(***************************************************************************)
CONSTANT Tasks
VARIABLE status

Statuses == {"free", "new", "asleep", "ready", "running"}
Running == {p \in Tasks : status[p] = "running"}
Ready(s) == {p \in Tasks : s[p] = "ready"}

Init == status = [p \in Tasks |-> "asleep"]

Move(p, from, to) == status[p] = from /\ status' = [status EXCEPT ![p] = to]

\* fork() by the running task, the child's first wakeup, and any later wakeup.
Fork(p) == Running # {} /\ Move(p, "free", "new")
Admit(p) == Move(p, "new", "ready")
Wake(p) == Move(p, "asleep", "ready")

\* The running task, if any, stops running and becomes end; a task in W is
\* woken on its way out; then one of the ready tasks runs, if there is one.
Switch(end, W) ==
  LET s == [p \in Tasks |-> IF p \in Running THEN end
                            ELSE IF p \in W THEN "ready" ELSE status[p]]
  IN  IF Ready(s) = {} THEN status' = s
      ELSE \E p \in Ready(s) : status' = [s EXCEPT ![p] = "running"]

Next ==
  \/ \E p \in Tasks : Fork(p) \/ Admit(p) \/ Wake(p)
  \/ Switch("ready", {})
  \/ Running # {} /\ Switch("free", {})
  \/ Running # {} /\ Switch("asleep", {})
  \/ \E w \in Tasks : /\ Running # {} /\ status[w] = "asleep"
                      /\ Switch("asleep", {w})

Spec == Init /\ [][Next]_status

\* One CPU: never two running tasks.
OneRunning == \A p, q \in Running : p = q

=============================================================================
