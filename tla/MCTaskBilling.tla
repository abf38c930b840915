--------------------------- MODULE MCTaskBilling ---------------------------
(***************************************************************************)
(* TaskBilling for TLC: one or two tasks, one or two polling processes.    *)
(***************************************************************************)
EXTENDS TaskBilling, TLC

CONSTANTS t1, t2, p1, p2

TwoPollers == {p1, p2}
OnePoller == {p1}
TwoTasks == {t1, t2}
OneTask == {t1}
NoTasks == {}
OnlyT2 == {t2}

PollerSymmetry == Permutations(TwoPollers)

\* Bound of task_life: at most two of its incidents in a behaviour.
TwoIncidents == faults + bulks + repeats + fetches <= 2

=============================================================================
