----------------------------- MODULE MCFlxCheck -----------------------------
(* Instances of flx check for TLC. *)
EXTENDS FlxCheck, Sequences, TLC

CONSTANTS c1, c2

(* A directory with two entries, the second a directory with one. *)
MCPaths == {<<1>>, <<1, 1>>, <<2>>}
MCParents ==
  [p \in MCPaths |-> {q \in MCPaths : Len(q) < Len(p) /\ q = SubSeq(p, 1, Len(q))}]
MCSame == {<<c1, c1>>, <<c2, c2>>}
=============================================================================
