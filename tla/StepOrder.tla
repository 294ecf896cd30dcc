------------------------------ MODULE StepOrder ------------------------------
(***************************************************************************)
(* What the package infrastructure promises about the order of its steps:  *)
(* a step starts only on the completed output of every step it depends on. *)
(* How the build decides which steps to run, and when, is not told here.   *)
(***************************************************************************)
CONSTANTS
    Nodes,      \* the steps of all packages
    Before      \* Before[n]: the steps whose output step n uses

VARIABLE out    \* the output of each step

\* "torn": begun and not completed; "lost": removed, perhaps in part, by an
\* interrupted removal of the build directory.
Outputs == {"none", "torn", "done", "lost"}

Init == out = [n \in Nodes |-> "none"]

Begin(n) ==
    /\ \A m \in Before[n] : out[m] \in {"done", "lost"}
    /\ out' = [out EXCEPT ![n] = "torn"]

Complete(n) ==
    /\ out[n] = "torn"
    /\ out' = [out EXCEPT ![n] = "done"]

\* The user removes some outputs, or is interrupted while removing them.
Remove(left) ==
    /\ \A n \in Nodes : out'[n] \in {out[n], left}
    /\ out' = [n \in Nodes |-> out'[n]]

Next ==
    \/ \E n \in Nodes : Begin(n) \/ Complete(n)
    \/ \E left \in {"none", "lost"} : Remove(left)

Spec == Init /\ [][Next]_out
=============================================================================
