----------------------------- MODULE Completion -----------------------------
(***************************************************************************)
(* What a struct completion promises: a counter that complete() raises and *)
(* each successful wait lowers, and a wait that gives up (a timeout or a   *)
(* signal) only while the counter is zero.  No queue, no sleeping.         *)
(***************************************************************************)
EXTENDS Naturals

CONSTANTS Waiters, UINT_MAX

VARIABLES done, status
cvars == <<done, status>>

\* status[w]: how the last wait of w went, or that it is in one.
Init == done = 0 /\ status = [w \in Waiters |-> "idle"]

Complete == done' = (done + 1) % (UINT_MAX + 1) /\ UNCHANGED status
CompleteAll == done' = (done + UINT_MAX \div 2) % (UINT_MAX + 1) /\ UNCHANGED status

Begin(w) ==
  /\ status[w] # "waiting"
  /\ status' = [status EXCEPT ![w] = "waiting"] /\ UNCHANGED done

Take(w) ==
  /\ done > 0
  /\ done' = done - 1 /\ status' = [status EXCEPT ![w] = "completed"]

GiveUp(w) ==
  /\ done = 0
  /\ \E s \in {"timeout", "interrupted"} : status' = [status EXCEPT ![w] = s]
  /\ UNCHANGED done

Reset(w) ==
  /\ status[w] # "waiting"
  /\ status' = [status EXCEPT ![w] = "idle"] /\ UNCHANGED done

Next ==
  \/ Complete \/ CompleteAll
  \/ \E w \in Waiters : Begin(w) \/ Take(w) \/ GiveUp(w) \/ Reset(w)

\* A completion that is there does not stay while somebody waits for it.
Served == (\E w \in Waiters : status[w] = "waiting") /\ done > 0 /\ \E w \in Waiters : Take(w)

Spec == Init /\ [][Next]_cvars /\ WF_cvars(Served)
====
