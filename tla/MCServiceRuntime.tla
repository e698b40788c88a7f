-------------------------- MODULE MCServiceRuntime --------------------------
(* Small instances of ServiceRuntime for TLC. *)
EXTENDS ServiceRuntime, TLC

CONSTANTS t1, t2, t3

TwoTasks == {t1, t2}
ThreeTasks == {t1, t2, t3}

\* A bus with a subscriber: a task may be cancelled in a publication as well.
BusyBus == {"lock", "hook", "publish"}

Interchangeable == Permutations(ThreeTasks)
=============================================================================
