---------------------------- MODULE MCEventBus ----------------------------
(* EventBus with values small enough for TLC.                             *)
EXTENDS EventBus
CONSTANTS p1, h1, h2, m1, m2, k1, s1
OnePublisher == {p1}
TwoHandlers == {h1, h2}
TwoMiddlewares == {m1, m2}
OneKey == {k1}
OneSource == {s1}
===========================================================================
