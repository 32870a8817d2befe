----------------------------- MODULE FlxOutput -----------------------------
(***************************************************************************)
(* The output of flx sign (flx/output.c, output_file.c): the part of the   *)
(* tree that is known to be complete is written, from where the last call  *)
(* stopped.  With a level, each directory down to it gets a dump of its    *)
(* own; a dump is named by its directory, the first one <<>>.              *)
(***************************************************************************)
EXTENDS FlxTree, FiniteSetsExt

CONSTANTS
  Levels,    \* the values of the option level
  Refusals   \* the sets of dumps that cannot be made

ASSUME LevelsAssumption == Levels \subseteq Nat

VARIABLES
  level,
  refused,
  number,    \* the count output_write() is called with, 0 at the end
  cpath,     \* the directory being written
  after,     \* the name that was passed last in it
  bpath,
  fd,        \* the dump being written
  fdstack,
  recursion,
  closed,    \* dumps that were closed
  log        \* lines written: path and dump

output == <<level, refused, cpath, after, bpath, fd, fdstack, recursion, closed, log>>

OutputInit ==
  /\ number = 0
  /\ cpath = <<>> /\ after = 0
  /\ bpath = <<>> /\ fd = <<>> /\ fdstack = <<<<>>>>
  /\ level \in Levels /\ refused \in Refusals
  /\ recursion = level
  /\ closed = {}
  /\ log = <<>>

Written == {log[i].path : i \in DOMAIN log}

(* The directory to start from is the first changed one going up, which     *)
(* leaves the stack of dumps as it is.                                     *)
Climbed(p) ==
  IF Len(fdstack) > 1
  THEN CHOOSE q \in Prefixes(p) \cap tree.changed :
         \A r \in Prefixes(p) \cap tree.changed : IsPrefix(r, q)
  ELSE p

(* A number above 0 from unsorted sources: nothing is written yet.          *)
Postpone ==
  /\ pc = "write" /\ number > 0 /\ ~sorted
  /\ pc' = "free"
  /\ UNCHANGED <<tree, sorted, number, output>>

StartWrite ==
  /\ pc = "write"
  /\ number = 0 \/ sorted
  /\ LET at == Climbed(cpath)
         climbs == Len(cpath) - Len(at)
         nothing == \/ ~HasSub(tree, at)
                    \/ at \notin tree.changed \ tree.sorting
                    \/ fdstack = <<>>
     IN /\ tree' = Get(tree, cpath)
        /\ cpath' = at
        /\ recursion' = recursion - climbs
        /\ bpath' = SubSeq(bpath, 1, Len(bpath) - climbs)
        /\ after' = 0
        /\ pc' = IF nothing THEN "free" ELSE "visit"
  /\ UNCHANGED <<level, refused, sorted, number, fd, fdstack, closed, log>>

(* The changed entries that follow in the directory.                        *)
Following == {p \in tree.changed : p # <<>> /\ Parent(p) = cpath /\ Last(p) > after}
Entry == Least(Following)

(* A line written to a dump that was closed is lost.                        *)
Logged(p) ==
  IF p \in tree.filled /\ fd \notin closed
  THEN Append(log, [path |-> p, dump |-> fd])
  ELSE log

(* Mutant: the mark of a directory that is being read is not looked at. *)
UnfinishedIgnored(p) == FALSE

Unfinished(p) == number > 0 /\ p \in tree.sorting

(* A directory still being read: its own line is written, nothing after.    *)
Stop ==
  /\ pc = "visit" /\ Following # {}
  /\ Unfinished(Entry)
  /\ log' = Logged(Entry)
  /\ pc' = "free"
  /\ UNCHANGED <<level, refused, tree, sorted, number, cpath, after, bpath, fd, fdstack, recursion, closed>>

(* An entry without others below it.                                        *)
Pass ==
  /\ pc = "visit" /\ Following # {}
  /\ ~Unfinished(Entry) /\ ~HasSub(tree, Entry)
  /\ log' = Logged(Entry)
  /\ after' = Last(Entry)
  /\ UNCHANGED <<level, refused, tree, sorted, pc, number, cpath, bpath, fd, fdstack, recursion, closed>>

(* What is left when a dump is made again.                                  *)
Truncated(lines, dump) ==
  LET kept[i \in 0 .. Len(lines)] ==
        IF i = 0 THEN <<>>
        ELSE IF lines[i].dump = dump THEN kept[i - 1]
        ELSE Append(kept[i - 1], lines[i])
  IN kept[Len(lines)]

(* Into a directory, with a dump of its own down to the level.  The dump    *)
(* loses what it held.                                                     *)
Enter ==
  /\ pc = "visit" /\ Following # {}
  /\ ~Unfinished(Entry) /\ HasSub(tree, Entry)
  /\ LET dump == Append(bpath, Last(Entry))
         opens == recursion > 0 /\ dump \notin refused
     IN /\ log' = IF opens THEN Truncated(Logged(Entry), dump) ELSE Logged(Entry)
        /\ fd' = IF opens THEN dump ELSE fd
        /\ closed' = IF opens THEN closed \ {dump} ELSE closed
        /\ bpath' = IF recursion > 0 THEN dump ELSE bpath
  /\ fdstack' = <<fd>> \o fdstack
  /\ recursion' = recursion - 1
  /\ cpath' = Entry
  /\ after' = 0
  /\ UNCHANGED <<level, refused, tree, sorted, pc, number>>

(* The end of a directory that is still being read from a list.             *)
Wait ==
  /\ pc = "visit" /\ Following = {}
  /\ number > 0 /\ cpath \in tree.reading
  /\ pc' = "free"
  /\ UNCHANGED <<tree, sorted, number, output>>

(* Mutant: back from a directory, its dump is kept. *)
LeaveSameDump ==
  /\ pc = "visit" /\ Following = {} /\ ~(number > 0 /\ cpath \in tree.reading)
  /\ recursion' = recursion + 1
  /\ bpath' = IF recursion + 1 > 0 /\ bpath # <<>> THEN Front(bpath) ELSE bpath
  /\ closed' = closed
  /\ fd' = fd
  /\ fdstack' = Tail(fdstack)
  /\ after' = IF cpath = <<>> THEN after ELSE Last(cpath)
  /\ cpath' = IF cpath = <<>> THEN <<>> ELSE Parent(cpath)
  /\ pc' = IF Len(fdstack) = 1 THEN "free" ELSE pc
  /\ UNCHANGED <<level, refused, tree, sorted, number, log>>

(* The end of a directory: back to the dump of the one above, and on with   *)
(* what follows there; after the root, until the stack is empty.            *)
Leave ==
  /\ pc = "visit" /\ Following = {}
  /\ ~(number > 0 /\ cpath \in tree.reading)
  /\ recursion' = recursion + 1
  /\ bpath' = IF recursion + 1 > 0 /\ bpath # <<>> THEN Front(bpath) ELSE bpath
  /\ closed' = IF recursion + 1 > 0 THEN closed \cup {fd} ELSE closed
  /\ fd' = Head(fdstack)
  /\ fdstack' = Tail(fdstack)
  /\ after' = IF cpath = <<>> THEN after ELSE Last(cpath)
  /\ cpath' = IF cpath = <<>> THEN <<>> ELSE Parent(cpath)
  /\ pc' = IF Len(fdstack) = 1 THEN "free" ELSE pc
  /\ UNCHANGED <<level, refused, tree, sorted, number, log>>

Write ==
  \/ Postpone \/ StartWrite
  \/ Stop \/ Pass \/ Enter \/ Wait \/ Leave
============================================================================
