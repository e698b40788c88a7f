----------------------------- MODULE MCPipeline -----------------------------
(* Small instances of Pipeline for TLC. *)
EXTENDS Pipeline, TLC

CONSTANTS c1, c2

TwoCallers == {c1, c2}
OneCaller == {c1}

\* A bus with a subscriber: a task may be cancelled in a publication as well.
BusyBus == {"lock", "hook", "publish"}
\* The same, and callers that are cancelled again while they roll back.
Everything == {"lock", "hook", "publish", "shield"}

Interchangeable == Permutations(TwoCallers)
=============================================================================
