--------------------------- MODULE PreinitBlocks ---------------------------
(***************************************************************************)
(* The interpreter implements Blocks: the two level counters and the       *)
(* context array stand for the stack of open blocks.                       *)
(***************************************************************************)
EXTENDS Preinit, Sequences

(* Frame i is the block opened at level i - 1.  It is live iff run_level   *)
(* has reached i.                                                          *)
FramesOf == [i \in 1 .. brace_level |->
               [live |-> i <= run_level, neg |-> saved[i - 1] = "flip"]]

(* The console is only entered from a live block. *)
HomeOf == [i \in 1 .. (IF cmd_input = "kbd" THEN kbd_level ELSE 0) |->
             [live |-> TRUE, neg |-> saved[i - 1] = "flip"]]

Structured == INSTANCE Blocks WITH
  Families <- Commands,
  Frames <- MAX_BRACE_LEVEL,
  frames <- FramesOf,
  home <- HomeOf,
  prompt <- cmd_input = "kbd",
  failed <- error

(* Every step of the interpreter is one of the structured language: it     *)
(* runs a command only inside live blocks and under its prefix, a skipped  *)
(* block leaves the status alone, a closing brace reports the status of    *)
(* its own block, and the console hands back the blocks of the file.       *)
ImplementsBlocks == Structured!Spec
=============================================================================
