------------------------------- MODULE FlxCheck -------------------------------
(***************************************************************************)
(* flx check: the comparison of two sources, which are read piece by piece *)
(* and in step.  What one of them has and the other has not shown yet is   *)
(* kept in a tree of its own until the end.                                *)
(*                                                                         *)
(* A tree is what its sorted lists of names hold: the paths that have a    *)
(* node, those whose node is filled, and the descriptions.  Every node of  *)
(* a piece just read is marked changed, being filled or above one that is, *)
(* so that the comparison always goes down into it.  The entries '.' and   *)
(* '..' are left out (--ignore-dot).                                       *)
(***************************************************************************)
EXTENDS Naturals, FiniteSets

CONSTANTS
  Paths,
  Parents,      \* the directories above each path
  Contents,     \* what may be known of a file
  Same,         \* the pairs of contents without a difference that counts
  None,         \* no description
  Gone,         \* a file removed between readdir() and lstat()
  OnDisk,       \* the sources that are file systems, not lists
  ParentsFirst  \* the sources list a directory before what is in it

ASSUME PathsAssumption == Parents \in [Paths -> SUBSET Paths]
ASSUME ContentsAssumption ==
  /\ None \notin Contents /\ Gone \notin Contents /\ None # Gone
  /\ Same \subseteq Contents \X Contents
ASSUME OrderAssumption == ParentsFirst \in BOOLEAN
ASSUME OnDiskAssumption == OnDisk \subseteq {1, 2}

Sides == {1, 2}
Descs == Contents \cup {None}
SHOW == {"same", "old", "new"}

VARIABLES
  source,    \* what each source holds, None where it holds nothing
  unread,    \* the paths of each source still to be read
  eof,
  show,      \* Options
  pc,
  src,       \* src1 and src2: what was just read
  tmp,       \* tmp1 and tmp2: what was read before
  dst,       \* the differences
  output

input == <<source, show>>
vars == <<input, unread, eof, pc, src, tmp, dst, output>>

NoTree == [node |-> {}, filled |-> {}, desc |-> [p \in Paths |-> None]]
NoDiff == [diff |-> "none", desc |-> [s \in Sides |-> None]]

Init ==
  /\ source \in [Sides -> [Paths -> Contents \cup {None, Gone}]]
  /\ \A s \in Sides, p \in Paths : source[s][p] = Gone => s \in OnDisk
  /\ unread = [s \in Sides |-> {p \in Paths : source[s][p] # None}]
  /\ eof = [s \in Sides |-> FALSE]
  /\ show \in {{"old", "new"}, SHOW, {"old"}, {"new"}}
  /\ pc = "read"
  /\ src = [s \in Sides |-> NoTree]
  /\ tmp = [s \in Sides |-> NoTree]
  /\ dst = [p \in Paths |-> NoDiff]
  /\ output = {}

-----------------------------------------------------------------------------
(* Reading.  A source that has nothing more to read reaches its end. *)

Chunks(s) ==
  {c \in SUBSET unread[s] :
     /\ c = {} <=> unread[s] = {}
     /\ ParentsFirst => \A p \in c : Parents[p] \cap unread[s] \subseteq c}

(* What is read is filled, and the directories on the way to it exist; a   *)
(* file that is gone leaves a filled node without description. *)
Load(s, c) ==
  [node   |-> src[s].node \cup c \cup UNION {Parents[p] : p \in c},
   filled |-> src[s].filled \cup c,
   desc   |-> [p \in Paths |-> IF p \notin c THEN src[s].desc[p]
                               ELSE IF source[s][p] = Gone THEN None ELSE source[s][p]]]

(* Mutant: the end of a source is not noticed. *)
ReadOn ==
  /\ pc = "read"
  /\ \E s \in Sides : ~eof[s]
  /\ \E c1 \in Chunks(1), c2 \in Chunks(2) :
       LET c == [s \in Sides |-> IF s = 1 THEN c1 ELSE c2]
       IN /\ src' = [s \in Sides |-> Load(s, c[s])]
          /\ unread' = [s \in Sides |-> unread[s] \ c[s]]
          /\ eof' = [s \in Sides |-> FALSE]
  /\ pc' = "new with new"
  /\ UNCHANGED <<input, tmp, dst, output>>

Read ==
  /\ pc = "read"
  /\ \E s \in Sides : ~eof[s]
  /\ \E c1 \in Chunks(1), c2 \in Chunks(2) :
       LET c == [s \in Sides |-> IF s = 1 THEN c1 ELSE c2]
       IN /\ src' = [s \in Sides |-> Load(s, c[s])]
          /\ unread' = [s \in Sides |-> unread[s] \ c[s]]
          /\ eof' = [s \in Sides |-> c[s] = {}]
  /\ pc' = "new with new"
  /\ UNCHANGED <<input, tmp, dst, output>>

-----------------------------------------------------------------------------
(* ft_find_diff() *)

Common(a, b) == a.filled \cap b.filled
Differ(a, b, p) == <<a.desc[p], b.desc[p]>> \notin Same
Found(a, b) ==
  {p \in Common(a, b) : dst[p] = NoDiff /\ (Differ(a, b, p) \/ show = SHOW)}

(* What is common is not to be seen again, and a difference takes the      *)
(* descriptions along. *)
Seen(t, common, found) ==
  [node   |-> t.node,
   filled |-> t.filled \ common,
   desc   |-> [p \in Paths |-> IF p \in found THEN None ELSE t.desc[p]]]

Diffs(a, b) ==
  [p \in Paths |->
     IF p \in Found(a, b)
     THEN [diff |-> IF Differ(a, b, p) THEN "differs" ELSE "same",
           desc |-> [s \in Sides |-> IF s = 1 THEN a.desc[p] ELSE b.desc[p]]]
     ELSE dst[p]]

(* A node without description is followed through a null pointer. *)
Followed(a, b) == \A p \in Common(a, b) : a.desc[p] # None /\ b.desc[p] # None

(* Of the first source, a is compared with b of the second one. *)
FindDiff(a, b, next) ==
  IF Followed(a[1], b[2])
  THEN /\ pc' = next
       /\ dst' = Diffs(a[1], b[2])
  ELSE /\ pc' = "crashed"
       /\ UNCHANGED dst

(* Both trees of a comparison once it is done. *)
Rest(a, b, s) == Seen(IF s = 1 THEN a[1] ELSE b[2], Common(a[1], b[2]), Found(a[1], b[2]))

NewWithNew ==
  /\ pc = "new with new"
  /\ FindDiff(src, src, "new with old")
  /\ src' = [s \in Sides |-> Rest(src, src, s)]
  /\ UNCHANGED <<input, unread, eof, tmp, output>>

NewWithOld ==
  /\ pc = "new with old"
  /\ FindDiff(src, tmp, "old with new")
  /\ src' = [src EXCEPT ![1] = Rest(src, tmp, 1)]
  /\ tmp' = [tmp EXCEPT ![2] = Rest(src, tmp, 2)]
  /\ UNCHANGED <<input, unread, eof, output>>

OldWithNew ==
  /\ pc = "old with new"
  /\ FindDiff(tmp, src, "move")
  /\ tmp' = [tmp EXCEPT ![1] = Rest(tmp, src, 1)]
  /\ src' = [src EXCEPT ![2] = Rest(tmp, src, 2)]
  /\ UNCHANGED <<input, unread, eof, output>>

-----------------------------------------------------------------------------
(* Mutant: what is under a directory that exists is not run into. *)
MovedTops(t, into) ==
  LET new == {p \in t.node \ into.node : Parents[p] \cap into.node = {}}
      taken == {p \in t.filled \cap into.node : into.desc[p] = None} \cup new
  IN [node   |-> into.node \cup new,
      filled |-> into.filled \cup (t.filled \cap new),
      desc   |-> [p \in Paths |-> IF p \in taken THEN t.desc[p] ELSE into.desc[p]]]

(* Mutant: of a node that is new, only the mark arrives. *)
MovedMarks(t, into) ==
  LET taken == {p \in t.filled \cap into.node : into.desc[p] = None}
  IN [node   |-> into.node,
      filled |-> into.filled \cup (t.filled \ into.node),
      desc   |-> [p \in Paths |-> IF p \in taken THEN t.desc[p] ELSE into.desc[p]]]

(* ft_move(): a node that exists only takes the description of the other,  *)
(* not its mark. *)
Moved(t, into) ==
  LET taken == {p \in t.filled \cap into.node : into.desc[p] = None} \cup (t.node \ into.node)
  IN [node   |-> into.node \cup t.node,
      filled |-> into.filled \cup (t.filled \ into.node),
      desc   |-> [p \in Paths |-> IF p \in taken THEN t.desc[p] ELSE into.desc[p]]]

Move ==
  /\ pc = "move"
  /\ pc' = "read"
  /\ tmp' = [s \in Sides |-> Moved(src[s], tmp[s])]
  /\ src' = [s \in Sides |-> NoTree]
  /\ UNCHANGED <<input, unread, eof, dst, output>>

-----------------------------------------------------------------------------
(* ft_diff_move(): what is left of each source. *)

Left(s) == {p \in tmp[s].filled : tmp[s].desc[p] # None}

Alone ==
  /\ pc = "read"
  /\ \A s \in Sides : eof[s]
  /\ pc' = "write"
  /\ dst' = [p \in Paths |->
       IF \E s \in Sides : p \in Left(s)
       THEN [diff |-> IF dst[p] = NoDiff THEN "alone" ELSE dst[p].diff,
             desc |-> [s \in Sides |-> IF p \in Left(s) THEN tmp[s].desc[p]
                                       ELSE dst[p].desc[s]]]
       ELSE dst[p]]
  /\ tmp' = [s \in Sides |-> NoTree]
  /\ UNCHANGED <<input, unread, eof, src, output>>

(* Mutant: the mark of the second source for both. *)
LinesSecond(p, d) ==
  LET shown(s, option) == option \in show /\ d.desc[s] # None
  IN IF d.diff = "same" THEN {<<"=", p, d.desc[1]>>}
     ELSE (IF shown(1, "old") THEN {<<"-", p, d.desc[1]>>} ELSE {})
          \cup (IF shown(2, "new") THEN {<<"+", p, d.desc[2]>>} ELSE {})

(* build_diff_line(): the lines of a path, with their mark and contents. *)
Lines(p, d) ==
  LET shown(s, option) == option \in show /\ d.desc[s] # None
      alone(s) == \A t \in Sides \ {s} : d.desc[t] = None
  IN IF d.diff = "same" THEN {<<"=", p, d.desc[1]>>}
     ELSE (IF shown(1, "old") THEN {<<IF alone(1) THEN "-" ELSE "<", p, d.desc[1]>>} ELSE {})
          \cup (IF shown(2, "new") THEN {<<IF alone(2) THEN "+" ELSE ">", p, d.desc[2]>>} ELSE {})

Write ==
  /\ pc = "write"
  /\ pc' = "done"
  /\ output' = UNION {Lines(p, dst[p]) : p \in {q \in Paths : dst[q] # NoDiff}}
  /\ UNCHANGED <<input, unread, eof, src, tmp, dst>>

Ended == pc \in {"done", "crashed"} /\ UNCHANGED vars

Next ==
  \/ Read \/ NewWithNew \/ NewWithOld \/ OldWithNew \/ Move \/ Alone \/ Write
  \/ Ended

Spec == Init /\ [][Next]_vars
FairSpec == Spec /\ WF_vars(Next)

-----------------------------------------------------------------------------
(* Properties. *)

Trees == [node : SUBSET Paths, filled : SUBSET Paths, desc : [Paths -> Descs]]
Steps ==
  {"read", "new with new", "new with old", "old with new", "move", "write", "done", "crashed"}

(* Variables keep their types, and what is filled has a node. *)
TypeOK ==
  /\ source \in [Sides -> [Paths -> Contents \cup {None, Gone}]]
  /\ unread \in [Sides -> SUBSET Paths]
  /\ eof \in [Sides -> BOOLEAN]
  /\ show \in SUBSET SHOW
  /\ pc \in Steps
  /\ src \in [Sides -> Trees]
  /\ tmp \in [Sides -> Trees]
  /\ \A s \in Sides : src[s].filled \subseteq src[s].node /\ tmp[s].filled \subseteq tmp[s].node
  /\ dst \in [Paths -> [diff : {"none", "same", "differs", "alone"}, desc : [Sides -> Descs]]]

Has(s, p) == source[s][p] # None
Waiting(s, p) == p \in unread[s] \cup src[s].filled \cup tmp[s].filled

(* Until what is left of the sources is collected, a file only leaves them *)
(* together with its counterpart: none is lost between the pieces.         *)
LeaveTogether ==
  pc \notin {"write", "done"} =>
    \A p \in Paths, s \in Sides : Has(s, p) /\ ~Waiting(s, p) =>
      \A t \in Sides : Has(t, p) /\ ~Waiting(t, p)

(* After each round no file is left in both of the trees that are kept:    *)
(* the three comparisons cover every way in which two files can meet.      *)
NoneMissed == pc = "read" => tmp[1].filled \cap tmp[2].filled = {}

(* What flx check reports is the comparison of the whole sources, however  *)
(* they were cut into pieces. *)
Present(s, p) == source[s][p] \in Contents
Both(p) == Present(1, p) /\ Present(2, p)
Changed(p) == Both(p) => <<source[1][p], source[2][p]>> \notin Same
Expected ==
  {<<IF Both(p) THEN "<" ELSE "-", p, source[1][p]>> :
     p \in {q \in Paths : Present(1, q) /\ "old" \in show /\ Changed(q)}}
  \cup
  {<<IF Both(p) THEN ">" ELSE "+", p, source[2][p]>> :
     p \in {q \in Paths : Present(2, q) /\ "new" \in show /\ Changed(q)}}
  \cup
  {<<"=", p, source[1][p]>> :
     p \in {q \in Paths : Both(q) /\ show = SHOW /\ ~Changed(q)}}
Complete == pc = "done" => output = Expected

(* Only a file removed while its directory was read makes it crash, and    *)
(* only if the other source has it too. *)
CrashNeedsGone ==
  pc = "crashed" =>
    \E p \in Paths : (\A s \in Sides : Has(s, p)) /\ (\E s \in Sides : source[s][p] = Gone)

(* The comparison comes to an end. *)
Ends == <>(pc \in {"done", "crashed"})
=============================================================================
