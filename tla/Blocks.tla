------------------------------- MODULE Blocks -------------------------------
(***************************************************************************)
(* What the README of init/ promises of command blocks, with no level      *)
(* counters: the open blocks are a stack of frames, a frame is either live *)
(* or skipped, and a command runs only when every frame around it is live  *)
(* and its own prefix agrees with the status of the command before it.     *)
(***************************************************************************)
EXTENDS Naturals, Sequences

CONSTANTS Families,  (* what a command may be                              *)
          Frames     (* bound on the number of open blocks                 *)

VARIABLES
  frames,  \* the open blocks, outermost first
  home,    \* the blocks to come back to when the console session ends
  prompt,  \* commands come from the console
  failed,  \* the status of the last command
  did      \* the last command executed

abstract == <<frames, home, prompt, failed, did>>

Frame == [live : BOOLEAN, neg : BOOLEAN]
Prefixes == SUBSET {"NEG", "OR", "AND"}

Live == \A i \in 1 .. Len(frames) : frames[i].live
Applies(cond) == /\ "OR" \in cond => failed
                 /\ "AND" \in cond => ~failed

Quiet == did' = "nothing"

Init == /\ frames = << >>
        /\ home = << >>
        /\ prompt = FALSE
        /\ failed = FALSE
        /\ did = "nothing"

(* A block opens live, with a successful status, or skipped, with the      *)
(* status it found.  The console may reuse a level of the file's blocks.   *)
Open(cond) ==
  LET live == Live /\ Applies(cond)
      new == [live |-> live, neg |-> live /\ "NEG" \in cond]
  IN /\ Len(frames) + 1 < Frames
     /\ frames' = Append(frames, new)
     /\ home' = [i \in 1 .. Len(home) |->
                   IF i = Len(frames) + 1 THEN [live |-> TRUE, neg |-> new.neg]
                                          ELSE home[i]]
     /\ failed' = IF live THEN FALSE ELSE failed
     /\ Quiet
     /\ UNCHANGED prompt

(* A block passes on the status of its last command, or the opposite.      *)
Close ==
  /\ frames # << >>
  /\ frames' = SubSeq(frames, 1, Len(frames) - 1)
  /\ failed' = IF frames[Len(frames)].neg THEN ~failed ELSE failed
  /\ Quiet
  /\ UNCHANGED <<home, prompt>>

Run(family, cond) ==
  /\ did' = family
  /\ Live
  /\ Applies(cond)
  /\ failed' \in BOOLEAN
  /\ prompt' \in {prompt, TRUE}
  /\ home' = IF ~prompt /\ prompt' THEN frames ELSE home
  /\ UNCHANGED frames

(* A command that is skipped, refused or not understood. *)
Ignore == Quiet /\ UNCHANGED <<frames, home, prompt, failed>>

(* The end of a console session: back to the file's blocks, all live.      *)
Return ==
  /\ prompt
  /\ frames' = home
  /\ home' = << >>
  /\ prompt' = FALSE
  /\ failed' = FALSE
  /\ Quiet

(* Opening one block too many ends the configuration. *)
GiveUp == did' = "open" /\ UNCHANGED <<frames, home, prompt, failed>>

Next ==
  \/ Ignore \/ Close \/ Return \/ GiveUp
  \/ \E cond \in Prefixes : Open(cond)
  \/ \E family \in Families, cond \in Prefixes : Run(family, cond)

Spec == Init /\ [][Next]_abstract
=============================================================================
