------------------------------ MODULE RunStart ------------------------------
(***************************************************************************)
(* What the nodes may rely on when the bulletin board starts a run: it     *)
(* decides once, for all of them; then it tells each its part, at most     *)
(* once; if it fails it has told nobody.  How it finds the nodes in lists  *)
(* that change meanwhile, what it does to Prometheus, and which goroutine  *)
(* tells whom when, is not to be seen.  BulletinBoard implements this.     *)
(***************************************************************************)
EXTENDS StartSignals

VARIABLES
  phase,  \* "idle", "decided", "begun" or "failed"
  run,    \* what was decided
  due,    \* the nodes that are still to be told
  told    \* what was told to whom: pairs of a node and its part

vars == <<phase, run, due, told>>

Init == phase = "idle" /\ run = NoRun /\ due = {} /\ told = {}

Decide ==
  /\ phase = "idle" /\ phase' = "decided"
  /\ IsRun(run')
  /\ UNCHANGED <<due, told>>

Begin ==
  /\ phase = "decided" /\ phase' = "begun"
  /\ due' = Nodes(run)
  /\ UNCHANGED <<run, told>>

\* A node that is told may not hear it.
Tell(n) ==
  /\ phase = "begun"
  /\ due' = due \ {n}
  /\ told' \in {told, told \union {<<n, Told(run, n)>>}}
  /\ UNCHANGED <<phase, run>>

Fail ==
  /\ phase = "decided" /\ phase' = "failed"
  /\ run' = NoRun
  /\ UNCHANGED <<due, told>>

\* The board ends; another one knows nothing of the run.
End == phase' = "idle" /\ run' = NoRun /\ due' = {} /\ told' = {}

Next == Decide \/ Begin \/ Fail \/ End \/ \E n \in due : Tell(n)

Spec == Init /\ [][Next]_vars
=============================================================================
