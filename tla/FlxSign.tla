------------------------------ MODULE FlxSign ------------------------------
(***************************************************************************)
(* flx sign (flx/sign.c): as long as the sources give something, what is   *)
(* complete is written and freed; at the end, all of it.                   *)
(***************************************************************************)
EXTENDS FlxInput, FlxOutput

vars == <<input, number, output, pc>>

Init ==
  /\ InputInit
  /\ OutputInit
  /\ pc = "read"

(* input_read(): its result is what output_write() is told.                 *)
Fetch ==
  /\ Read
  /\ number' = IF pc' = "last" THEN 0 ELSE 1
  /\ UNCHANGED output

Emit ==
  /\ Write
  /\ UNCHANGED <<sources, in, count, arrived>>

(* The last call, when nothing was read.                                    *)
LastWrite ==
  /\ pc = "last"
  /\ pc' = "write"
  /\ UNCHANGED <<input, number, output>>

(* Mutant: nothing is freed. *)
FreeNothing ==
  /\ pc = "free"
  /\ tree' = tree
  /\ pc' = IF number = 0 THEN "done" ELSE "read"
  /\ UNCHANGED <<sources, in, sorted, count, arrived, number, output>>

(* ft_free: nothing as long as nothing could be written.                    *)
Free ==
  /\ pc = "free"
  /\ tree' = IF sorted THEN Freed(tree) ELSE tree
  /\ pc' = IF number = 0 THEN "done" ELSE "read"
  /\ UNCHANGED <<sources, in, sorted, count, arrived, number, output>>

Done == pc = "done" /\ UNCHANGED vars

Next == Fetch \/ Emit \/ LastWrite \/ Free \/ Done

Spec == Init /\ [][Next]_vars /\ WF_vars(Next)

----------------------------------------------------------------------------
(* Written in the order of the tree and nothing twice, however the reading  *)
(* was cut: a list written by flx sign can be read as a sorted one.         *)
InOrder ==
  \A i \in 1 .. Len(log) - 1 : Before(log[i].path, log[i + 1].path)

(* Nothing is freed before it was written: what has arrived is, at the end, *)
(* in a dump.  Directories of lists are left out: the mark that makes the  *)
(* output wait for the rest of a list stays on its directory when the list *)
(* of another one is read, and what follows is freed unwritten.  So are    *)
(* sorted lists with three levels or more, where a dump may be made again: *)
(* see OwnDump.                                                            *)
Directories == \E s \in ToSet(sources) : s.kind = "lists"
MadeAgain == sorted /\ level > 2 /\ \E s \in ToSet(sources) : s.kind = "list"
Complete ==
  pc = "done" /\ ~Directories /\ ~MadeAgain /\ refused = {} =>
    arrived \subseteq Written \cup {<<>>}

(* What stays in the tree between two rounds is still to be written, and    *)
(* no more than one directory with those above it is held for it.          *)
WrittenIsFreed ==
  pc = "read" /\ sorted => tree.filled \cap Written = {}

(* With a level, a line is in the dump of its directory, or of the last one *)
(* above it that has one, as long as all of them could be made.             *)
DumpOf(p) == SubSeq(p, 1, Min({Len(p) - 1, level}))
RightDump ==
  refused = {} /\ (\A s \in ToSet(sources) : s.kind = "fs") =>
    \A i \in DOMAIN log : log[i].dump = DumpOf(log[i].path)

(* "Open new fd for this directory" (flx/output_file.c, 97): the dump that  *)
(* is made on the way into a directory is its own.  It is not, after the   *)
(* output went up to a changed directory: that counts the level down once  *)
(* more, where leaving a directory counts it up, and the directory of the  *)
(* dumps is behind when the level is positive again.                       *)
OwnDump == [][Len(fdstack') > Len(fdstack) /\ fd' # fd => fd' = cpath']_vars

(* However much is read at a time, it ends.                                 *)
Ends == <>(pc = "done")
============================================================================
