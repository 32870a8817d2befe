------------------------------- MODULE MCWdd -------------------------------
(* Instances of the watchdog daemon for TLC. *)
EXTENDS WddHistory

(* Memory, fork(), the device under both names, writing, and one file.      *)
OneFileBreaks == Resources \cup {CHOOSE f \in Files : TRUE}
=============================================================================
