------------------------------ MODULE MCAuth ------------------------------
(* Auth with values small enough for TLC.  No rule tells the third role,   *)
(* "media", from "user".                                                   *)
EXTENDS Auth, TLC
CONSTANTS x, y, a
TwoClients == {x, y}
Interchangeable == Permutations(TwoClients)
OneName == {a}
TwoRoles == {"user", "admin"}
===========================================================================
