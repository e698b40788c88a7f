----------------------------- MODULE MCContainer -----------------------------
(***************************************************************************)
(* Container for TLC.                                                      *)
(***************************************************************************)
EXTENDS Container, TLC

\* Names are not told apart, nor threads that do the same.
Symmetry ==
    Permutations(Writers) \cup Permutations(Threads \ Writers) \cup Permutations(Names)
=============================================================================
