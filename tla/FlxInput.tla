------------------------------ MODULE FlxInput ------------------------------
(***************************************************************************)
(* The sources of flx sign (flx/input.c, input_fs.c, input_file.c): each   *)
(* call of input_read() adds a bounded number of entries to the tree.      *)
(*                                                                         *)
(* A file system is read one directory entry at a time, in any order       *)
(* within a directory, and entries may vanish before they are examined.    *)
(* A list is read line by line, a directory of lists one list after the    *)
(* other.  Assumed: --ignore-dot, one file system (xdev), lists whose last *)
(* line is terminated.                                                     *)
(***************************************************************************)
EXTENDS FlxTree, FiniteSetsExt

CONSTANTS
  Entries,   \* the paths below the base of a file system
  Folders,   \* those that are directories, the base <<>> among them
  MaxCount,  \* COUNT_LEVEL1 and COUNT_LEVEL2
  Commands   \* the sequences of sources a command line may give

ASSUME EntriesAssumption ==
  /\ Folders \subseteq Entries \cup {<<>>}
  /\ \A p \in Entries : p \in Paths \ {<<>>} /\ Parent(p) \in Folders
(* A list names no path <<>>, and one is where the reading begins.          *)
ASSUME CommandsAssumption ==
  \A cmd \in Commands :
    /\ cmd \in Seq(ToSet(cmd))
    /\ \A s \in ToSet(cmd) :
         /\ s.kind \in {"fs", "list", "lists"}
         /\ s.base \in Paths /\ s.depth \in Nat /\ s.sort \in BOOLEAN
         /\ DOMAIN s.lines \subseteq Paths /\ IsFiniteSet(DOMAIN s.lines)
         /\ s.lines \in [DOMAIN s.lines -> Seq(Paths \ {<<>>})]
         /\ s.kind # "fs" => s.base = <<>> /\ <<>> \in DOMAIN s.lines
ASSUME CountAssumption == MaxCount \in Nat /\ MaxCount > 1

VARIABLES
  sources,   \* SignInput, as the command line gives it
  in,        \* the sources left, the current one first
  count,     \* entries read by this call
  arrived    \* what was read so far

input == <<sources, tree, in, sorted, count, arrived>>

Current == in[1]
Children(s) ==
  {Last(p) : p \in {e \in Entries : s.kind = "fs" /\ s.base \o Parent(e) = s.dir}}

(* A source as it was opened: a position and, for each directory above it, *)
(* the ones that are left to go through.                                   *)
Opened(s) ==
  [kind |-> s.kind, base |-> s.base, depth |-> s.depth, lines |-> s.lines,
   dir |-> s.base, pending |-> IF s.kind = "list" THEN <<>> ELSE <<{}>>,
   step |-> CASE s.kind = "fs" -> "init"
              [] s.kind = "list" -> "open"
              [] s.kind = "lists" -> "notread",
   left |-> {}, fd |-> IF s.kind = "list" THEN s.lines[<<>>] ELSE <<>>]

InputInit ==
  \E cmd \in Commands :
    /\ sources = cmd
    /\ tree = NewTree
    /\ in = [i \in DOMAIN cmd |-> Opened(cmd[i])]
    /\ sorted = (Len(cmd) = 1 /\ cmd[1].sort)
    /\ count = 0
    /\ arrived = {}

Arrive(p) ==
  /\ tree' = Fill(tree, p)
  /\ count' = count + 1
  /\ arrived' = arrived \cup {p}

Is(kind, step) == pc = "read" /\ in # <<>> /\ Current.kind = kind /\ Current.step = step

(* Mutant: a source that has ended is asked again. *)
ReturnAgain ==
  /\ count' = 0
  /\ in' = in
  /\ pc' = IF count > 0 THEN "write" ELSE "read"

(* input_read gives what the source returned, or goes to the next source.   *)
Return ==
  /\ count' = 0
  /\ IF count > 0
     THEN pc' = "write" /\ UNCHANGED in
     ELSE in' = Tail(in) /\ pc' = IF Len(in) = 1 THEN "last" ELSE "read"

----------------------------------------------------------------------------
(* A file system.                                                          *)

Single(s) == s.depth = 1 \/ <<>> \notin Folders

(* STAT_DOINIT: the base itself, which may not exist.                       *)
ReadBase ==
  /\ Is("fs", "init")
  /\ \/ /\ tree' = Fill(Set(tree, "changed", <<>>), Current.base)
        /\ arrived' = arrived \cup {Current.base}
        /\ IF Single(Current)
           THEN /\ in' = [in EXCEPT ![1].pending = <<>>, ![1].step = "read"]
                /\ pc' = "write"
                /\ count' = 0
           ELSE /\ in' = [in EXCEPT ![1].step = "notread",
                                    ![1].left = Children(Current),
                                    ![1].depth = @ - 1]
                /\ pc' = pc
                /\ count' = 1
     \/ /\ tree' = Get(Set(tree, "changed", <<>>), Current.base)
        /\ in' = Tail(in)
        /\ pc' = IF Len(in) = 1 THEN "last" ELSE "read"
        /\ UNCHANGED <<count, arrived>>
  /\ UNCHANGED sorted

(* opendir, at the beginning of a directory or where it was left.           *)
OpenDir ==
  /\ Is("fs", "notread")
  /\ tree' = Set(Set(Get(tree, Current.dir), "sorting", Current.dir), "changed", <<>>)
  /\ \/ in' = [in EXCEPT ![1].step = "open"]
     \/ in' = [in EXCEPT ![1].step = "read", ![1].left = {}]
  /\ UNCHANGED <<sorted, count, arrived, pc>>

(* One entry: filled, and if it is a directory to be gone through, marked.  *)
(* One that has vanished has no description and is no directory.            *)
ReadEntry ==
  /\ Is("fs", "open")
  /\ count < MaxCount
  /\ \E n \in Current.left :
       LET p == Append(Current.dir, n)
           rest == [in EXCEPT ![1].left = @ \ {n}]
           deep == Current.depth # 1
                   /\ \E d \in Folders : Current.base \o d = p
       IN /\ count' = count + 1
          /\ arrived' = arrived \cup {p}
          /\ \/ /\ deep
                /\ tree' = Set(Fill(tree, p), "sorting", p)
                /\ in' = [rest EXCEPT ![1].pending[1] = @ \cup {n}]
             \/ tree' = Fill(tree, p) /\ in' = rest
  /\ UNCHANGED <<sorted, pc>>

(* STAT_TOBECONTINUED: as much as wanted was read, the rest is for later,   *)
(* even if nothing is left.                                                *)
PauseDir ==
  /\ Is("fs", "open")
  /\ count >= MaxCount
  /\ in' = [in EXCEPT ![1].step = "notread"]
  /\ pc' = "write"
  /\ count' = 0
  /\ UNCHANGED <<tree, sorted, arrived>>

EndDir ==
  /\ Is("fs", "open")
  /\ Current.left = {} /\ count < MaxCount
  /\ in' = [in EXCEPT ![1].step = "read"]
  /\ UNCHANGED <<tree, sorted, count, arrived, pc>>

(* Down into the first directory pending, or up.                            *)
Down(s) ==
  LET n == Min(Head(s.pending))
      down == [s EXCEPT !.dir = Append(@, n),
                        !.pending = <<{}, Head(@) \ {n}>> \o Tail(@),
                        !.depth = IF @ = 0 THEN 0 ELSE @ - 1,
                        !.step = "notread"]
  IN [down EXCEPT !.left = Children(down)]

Climb(s) ==
  [s EXCEPT !.dir = IF Len(s.pending) = 1 THEN @ ELSE Parent(@),
            !.pending = Tail(@),
            !.depth = IF @ = 0 THEN 0 ELSE @ + 1]

(* Mutant: the mark of a directory that was read stays. *)
NextDirMarked ==
  /\ pc = "read" /\ in # <<>> /\ Current.step = "read" /\ Current.pending # <<>>
  /\ tree' = tree
  /\ in' = [in EXCEPT ![1] = IF Head(Current.pending) # {}
                              THEN Down(Current) ELSE Climb(Current)]
  /\ UNCHANGED <<sorted, count, arrived, pc>>

(* All of a directory was read: its mark goes, and the next one is chosen.  *)
NextDir ==
  /\ pc = "read" /\ in # <<>> /\ Current.step = "read" /\ Current.pending # <<>>
  /\ Current.kind = "lists" => count < MaxCount
  /\ tree' = Unset(Set(Get(tree, Current.dir), "changed", <<>>), "sorting", Current.dir)
  /\ in' = [in EXCEPT ![1] = IF Head(Current.pending) # {}
                              THEN Down(Current) ELSE Climb(Current)]
  /\ UNCHANGED <<sorted, count, arrived, pc>>

(* Nothing is left of the source.                                           *)
EndSource ==
  /\ pc = "read" /\ in # <<>> /\ Current.step = "read" /\ Current.pending = <<>>
  /\ Return
  /\ UNCHANGED <<tree, sorted, arrived>>

----------------------------------------------------------------------------
(* Lists.                                                                  *)

(* One line: its directory is the one being read.                           *)
Line(acc, p) ==
  [tree |-> LET filled == Fill(acc.tree, p)
            IN [filled EXCEPT !.reading = (@ \ {acc.at}) \cup {Parent(p)}],
   at |-> Parent(p)]

(* The directories of a directory of lists, with the list in each.          *)
Folded(s) == {Last(p) : p \in {q \in DOMAIN s.lines \ {<<>>} : Parent(q) = s.dir}}

(* The first n lines, one after the other.                                  *)
Lines(acc, fd, n) ==
  LET read[i \in 0 .. n] == IF i = 0 THEN acc ELSE Line(read[i - 1], fd[i])
  IN read[n]

(* input_file_read_files: as many lines as wanted, or to the end, which is  *)
(* only met when another line is asked for.                                *)
ReadLines ==
  /\ pc = "read" /\ in # <<>> /\ Current.kind # "fs" /\ Current.step = "open"
  /\ count < MaxCount
  /\ LET n == IF Len(Current.fd) < MaxCount THEN Len(Current.fd) ELSE MaxCount
         begun == Set(Set(Get(tree, Current.dir), "changed", <<>>),
                      "reading", Current.dir)
         done == Lines([tree |-> begun, at |-> Current.dir], Current.fd, n)
     IN /\ tree' = done.tree
        /\ in' = [in EXCEPT ![1].fd = SubSeq(@, n + 1, Len(@)),
                            ![1].step = IF n < MaxCount THEN "read" ELSE @]
        /\ count' = count + n
        /\ arrived' = arrived \cup ToSet(SubSeq(Current.fd, 1, n))
  /\ UNCHANGED <<sorted, pc>>

(* input_file_set_next_file: the list of a directory, if it has one that    *)
(* can be opened, and the directories in it, all marked.                    *)
NextList ==
  /\ Is("lists", "notread")
  /\ count < MaxCount
  /\ tree' = LET below == {Append(Current.dir, n) : n \in Folded(Current)}
                 got == Get(Set(tree, "changed", <<>>), Current.dir)
             IN [got EXCEPT !.node = @ \cup below,
                            !.sorting = @ \cup below \cup {Current.dir}]
  /\ \E opens \in BOOLEAN :
       in' = [in EXCEPT ![1].pending[1] = Folded(Current),
                        ![1].fd = IF opens THEN Current.lines[Current.dir] ELSE <<>>,
                        ![1].step = IF opens THEN "open" ELSE "read"]
  /\ UNCHANGED <<sorted, count, arrived, pc>>

Enough ==
  /\ pc = "read" /\ in # <<>> /\ Current.kind # "fs"
  /\ count >= MaxCount
  /\ Return
  /\ UNCHANGED <<tree, sorted, arrived>>

Read ==
  /\ \/ ReadBase \/ OpenDir \/ ReadEntry \/ PauseDir \/ EndDir
     \/ NextDir \/ EndSource
     \/ ReadLines \/ NextList \/ Enough
  /\ UNCHANGED sources
============================================================================
