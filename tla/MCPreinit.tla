----------------------------- MODULE MCPreinit -----------------------------
(* Instances of the interpreter for TLC. *)
EXTENDS PreinitBlocks

(* Lines the loop can tell from the others.  Whether a line fails matters  *)
(* only to commands that have a result; all combinations of prefixes are   *)
(* tried on opening braces, which record them, and one of each sort on     *)
(* tests; the other commands treat theirs as tests do.                     *)
AllLines ==
  {l \in Line :
     /\ l.fails => l.cmd \in {"test", "build", "system", "branch", "halt"}
     /\ l.cmd = "open" => l.cond # Conditions
     /\ l.cmd = "test" => l.cond \in {{}, {"NEG"}, {"OR"}, {"AND"}, {"NEG", "OR"}}
     /\ l.cmd \in {"close", "dot", "system"} => l.cond \in {{}, {"NEG"}}
     /\ l.cmd \in {"in", "rd"} => l.cond \in {{}, {"AND"}}
     /\ l.cmd \in {"unknown", "build", "plain", "branch", "halt"} => l.cond = {}}

(* The families that differ for the structure of blocks, for deeper nests. *)
BlockLines ==
  {l \in AllLines :
     /\ l.cmd \in {"open", "close", "dot", "rd", "test", "system"}
     /\ l.cond \in {{}, {"NEG"}, {"OR"}, {"AND"}}
     /\ l.cmd \in {"dot", "rd", "system"} => l.cond = {} /\ ~l.fails}
=============================================================================
