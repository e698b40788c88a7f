---------------------------- MODULE MCComponents ----------------------------
(* Components with values small enough for TLC: two services, one with a   *)
(* storage interface (calls, a stream and an operation its protocol lacks).*)
EXTENDS Components, TLC
CONSTANTS c1, c2, i1, t1, a, b
TwoConnectors == {c1, c2}
OneInterface == {i1}
Ports == [i \in OneInterface |-> "Storage"]
OneCaller == {t1}
TwoNames == {a, b}
Interchangeable == Permutations(TwoConnectors) \cup Permutations(TwoNames)
=============================================================================
