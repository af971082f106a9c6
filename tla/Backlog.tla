------------------------------- MODULE Backlog -------------------------------
(***************************************************************************)
(* What the WORK phase promises, whatever the worker answers and wherever  *)
(* the process dies: the stories are decided one at a time in the order of *)
(* their keys, each exactly once -- done, or handed to a person -- and the *)
(* phase closes when no story is open.                                     *)
(***************************************************************************)
EXTENDS Naturals

CONSTANT Stories

VARIABLES open, done, blocked, closed

vars == <<open, done, blocked, closed>>

Init == open = Stories /\ done = {} /\ blocked = {} /\ closed = FALSE

\* A story is decided when no story with a smaller key is open.
Decide(s) ==
  /\ s \in open /\ \A t \in open : s <= t
  /\ open' = open \ {s}
  /\ \/ done' = done \cup {s} /\ blocked' = blocked
     \/ blocked' = blocked \cup {s} /\ done' = done
  /\ closed' = closed

Close == open = {} /\ ~closed /\ closed' = TRUE /\ UNCHANGED <<open, done, blocked>>

Next == Close \/ \E s \in Stories : Decide(s)

SafeSpec == Init /\ [][Next]_vars

Spec == SafeSpec /\ WF_vars(Next)
=============================================================================
