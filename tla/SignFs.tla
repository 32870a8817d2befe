------------------------------- MODULE SignFs -------------------------------
(***************************************************************************)
(* signfs -c -f (signfs/signfs.c): the lines of a list are read into a     *)
(* tree, then the file system is walked into the same tree, and what was   *)
(* found in one, the other or both is printed.                             *)
(*                                                                         *)
(* A node of the tree is known by its path.  What is compared of a file is *)
(* its type and its content; the content of some files cannot be read.     *)
(***************************************************************************)
EXTENDS Sequences, SequencesExt, FiniteSets

CONSTANTS
  Listings,    \* sequences of lines: [path, type, content]
  Sums,        \* what a file may hold
  Systems,     \* functions from paths to [type, content]
  Secret,      \* the paths whose files cannot be opened
  Onlys        \* subsets of {"old", "new", "others"}: the --*-only options

(* Paths are sequences of names; what lstat() and a line say of a file.     *)
FilePaths == Seq(STRING) \ {<<>>}
FileTypes == {"dir", "file", "link", "node", "none"}
Contents == Sums \cup {"none"}
Status == [type : FileTypes, content : Contents]
ListLine == [path : FilePaths, type : FileTypes, content : Contents]
ASSUME ListingsAssumption == \A list \in Listings : list \in Seq(ListLine)
ASSUME SystemsAssumption ==
  \A f \in Systems : f \in [DOMAIN f -> Status] /\ DOMAIN f \subseteq FilePaths

Nothing == [type |-> "none", content |-> "none"]

VARIABLES
  listing, filesystem, shown,
  lines,    \* what is left of the list
  node,     \* the tree: [file, data, filled, diff]
  seen,     \* what lstat() and open() gave, for the paths that were walked
  pending,  \* entries of the directories walked so far that are still to come
  sgpc

sgvars == <<listing, filesystem, shown, lines, node, seen, pending, sgpc>>

Above(p) == {q \in Prefixes(p) \ {<<>>} : q # p}
Below(fs, p) == {q \in DOMAIN fs : Len(q) = Len(p) + 1 /\ IsPrefix(p, q)}

SignInit ==
  /\ listing \in Listings
  /\ filesystem \in Systems
  /\ shown \in Onlys
  /\ lines = listing
  /\ node = [p \in {} |-> Nothing]
  /\ seen = [p \in {} |-> Nothing]
  /\ pending = {}
  /\ sgpc = "list"

Blank == [data |-> Nothing, listed |-> FALSE, filled |-> {}, diff |-> FALSE]
Directory ==
  [data |-> [type |-> "dir", content |-> "none"], listed |-> FALSE, filled |-> {}, diff |-> FALSE]

(* find_parent: the directories above a path that are not in the tree are   *)
(* put there, filled by nothing.                                           *)
WithParents(tree, p) ==
  [q \in DOMAIN tree \cup Above(p) |-> IF q \in DOMAIN tree THEN tree[q] ELSE Directory]

Keep(f, p, v) == [q \in DOMAIN f \cup {p} |-> IF q = p THEN v ELSE f[q]]

(* list_put and complete_fileinfo: a node that is there already takes over  *)
(* the description, but not that it was filled.                            *)
Listed(tree, line) ==
  [data |-> [type |-> line.type, content |-> line.content],
   listed |-> TRUE,
   filled |-> IF line.path \in DOMAIN tree THEN tree[line.path].filled ELSE {"file"},
   diff |-> FALSE]

(* read_file_fileinfo, a line.                                             *)
ReadLine ==
  /\ sgpc = "list" /\ lines # <<>>
  /\ LET line == Head(lines)
         tree == WithParents(node, line.path)
     IN node' = Keep(tree, line.path, Listed(tree, line))
  /\ lines' = Tail(lines)
  /\ UNCHANGED <<listing, filesystem, shown, seen, pending, sgpc>>

ListEnds ==
  /\ sgpc = "list" /\ lines = <<>>
  /\ pending' = Below(filesystem, <<>>)
  /\ sgpc' = "walk"
  /\ UNCHANGED <<listing, filesystem, shown, lines, node, seen>>

(* The fields of the line are compared with those of the file; the sum of   *)
(* a file that cannot be opened stays that of the list.                    *)
Differs(old, new) ==
  old.listed /\ (old.data.type # new.type \/ old.data.content # new.content)

(* What fill_fileinfo finds: the content of a secret file is what it was.  *)
Found(p, old) ==
  IF p \in Secret /\ filesystem[p].type = "file"
  THEN [filesystem[p] EXCEPT !.content = old.data.content] ELSE filesystem[p]

(* read_directory_fileinfo, an entry: its node is found or made, filled     *)
(* and compared if the list filled it too; a directory is walked.          *)
Walk ==
  /\ sgpc = "walk"
  /\ \E p \in pending :
       IF p \in DOMAIN filesystem
       THEN LET old == IF p \in DOMAIN node THEN node[p] ELSE Blank
                new == Found(p, old)
            IN /\ node' = Keep(node, p,
                    [old EXCEPT !.data = new, !.filled = @ \cup {"fs"},
                                !.diff = "file" \in old.filled /\ Differs(old, new)])
               /\ seen' = Keep(seen, p, filesystem[p])
               /\ pending' = (pending \ {p}) \cup
                    (IF filesystem[p].type = "dir" THEN Below(filesystem, p) ELSE {})
       ELSE /\ pending' = pending \ {p}
            /\ UNCHANGED <<node, seen>>
  /\ UNCHANGED <<listing, filesystem, shown, lines, sgpc>>

(* A file, or a directory with all it has, goes away during the walk.      *)
Vanish ==
  /\ sgpc = "walk"
  /\ \E p \in DOMAIN filesystem :
       filesystem' = [q \in {r \in DOMAIN filesystem : ~IsPrefix(p, r)} |-> filesystem[q]]
  /\ UNCHANGED <<listing, shown, lines, node, seen, pending, sgpc>>

WalkEnds ==
  /\ sgpc = "walk" /\ pending = {}
  /\ sgpc' = "print"
  /\ UNCHANGED <<listing, filesystem, shown, lines, node, seen, pending>>

(* A directory is closed while one below it is walked, and opened again     *)
(* afterwards: if it is gone by then, a null pointer is followed.           *)
ReopenFails ==
  /\ sgpc = "walk"
  /\ \E p \in DOMAIN seen :
       /\ seen[p].type = "dir" /\ Len(p) > 1
       /\ Front(p) \notin DOMAIN filesystem
  /\ sgpc' = "crashed"
  /\ UNCHANGED <<listing, filesystem, shown, lines, node, seen, pending>>

SignNext == ReadLine \/ ListEnds \/ Walk \/ Vanish \/ ReopenFails \/ WalkEnds

SignSpec == SignInit /\ [][SignNext]_sgvars

(* Mutant: old and new are told apart by the list alone. *)
MarkOld(n) ==
  IF n.diff THEN {"changed"}
  ELSE IF "file" \notin n.filled THEN {"new"} \cap shown
  ELSE IF "others" \in shown THEN {"same"} ELSE {}

(* print_fileinfo: the mark of a node, if it is printed.                   *)
Mark(n) ==
  IF n.diff THEN {"changed"}
  ELSE IF n.filled = {"file", "fs"}
  THEN IF "others" \in shown THEN {"same"} ELSE {}
  ELSE IF n.filled = {"fs"} /\ "new" \in shown THEN {"new"}
  ELSE IF n.filled = {"file"} /\ "old" \in shown THEN {"old"} ELSE {}

Report == UNION {Mark(node[p]) \X {p} : p \in DOMAIN node}

----------------------------------------------------------------------------
(* The reference: the last line on each path against what was seen of it.  *)
Paths(list) == {list[i].path : i \in DOMAIN list}
LastLine(p) ==
  CHOOSE i \in DOMAIN listing :
    listing[i].path = p /\ \A j \in DOMAIN listing : j > i => listing[j].path # p

(* A line says of a file what was seen of it.                              *)
Same(line, p) ==
  /\ line.type = seen[p].type
  /\ line.content = seen[p].content \/ (p \in Secret /\ seen[p].type = "file")

Comparison ==
  LET same(p) == Same(listing[LastLine(p)], p)
      both == Paths(listing) \cap DOMAIN seen
      some(kind, S) == IF kind \in shown THEN S ELSE {}
  IN ({"changed"} \X {p \in both : ~same(p)})
     \cup ({"same"} \X some("others", {p \in both : same(p)}))
     \cup ({"new"} \X some("new", DOMAIN seen \ Paths(listing)))
     \cup ({"old"} \X some("old", Paths(listing) \ DOMAIN seen))

(* Directories come before what they hold, as signfs prints them.          *)
DirectoriesFirst ==
  \A i \in DOMAIN listing : \A j \in 1 .. i :
    IsStrictPrefix(listing[i].path, listing[j].path) =>
      \E k \in 1 .. j - 1 : listing[k].path = listing[i].path

(* What is printed is the comparison of the list with what was there when   *)
(* it was walked, whatever went away meanwhile, in any order of the         *)
(* directories, as long as the list names directories first; what cannot    *)
(* be opened passes for unchanged.                                         *)
ReportIsComparison ==
  sgpc = "print" /\ DirectoriesFirst => Report = Comparison
=============================================================================
