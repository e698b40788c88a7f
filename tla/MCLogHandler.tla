---------------------------- MODULE MCLogHandler ----------------------------
(* LogHandler with values small enough for TLC.                           *)
EXTENDS LogHandler
SecondIsColoured == {2}
=============================================================================
