------------------------------ MODULE FindPart ------------------------------
(***************************************************************************)
(* The partition table of init/init.c and its two commands: lp -r, which   *)
(* starts the table again, and fp, which looks for a pair of image         *)
(* partitions and names them in the environment.                           *)
(*                                                                         *)
(* A partition is its disk and its rank there; its size (in MB) and the    *)
(* type of its file system do not change.  The table survives from one     *)
(* command to the next, with the marks fp left on it.                      *)
(***************************************************************************)
EXTENDS Naturals, Sequences

CONSTANTS
  Tables,    \* the sequences of disks, each a sequence of partitions
  Lists,     \* the lists of types that may be given to fp
  ExtTypes   \* the types whose name starts with "ext"

ASSUME TablesAssumption ==
  Tables \subseteq Seq(Seq([size : Nat, type : STRING]))

MAX_CFG_ARGS == 64

(* A line holds fewer words than MAX_CFG_ARGS. *)
ASSUME ListsAssumption ==
  \A l \in Lists : l \in Seq(STRING) /\ Len(l) < MAX_CFG_ARGS
None == <<>>

VARIABLES
  disks,     \* the machine
  flags,     \* the marks BLKD_F_IMAGE1 and BLKD_F_IMAGE2 of each partition
  pref,      \* the rank of the type that made it an image
  pc,
  img,       \* which of the two images is asked for
  types,     \* the types asked for, most wanted first
  best_pos,  \* the best rank so far
  todo,      \* the candidates still to be examined
  chosen,    \* $chosen_part
  second,    \* $second_part
  fresh      \* fp has not been used on this table before

fpvars == <<disks, flags, pref, pc, img, types, best_pos, todo, chosen, second,
          fresh>>

Parts == UNION {{d} \X (DOMAIN disks[d]) : d \in DOMAIN disks}
Part(p) == disks[p[1]][p[2]]

(* The order of detection, which every loop over the table follows. *)
Before(s, t) == \E k \in DOMAIN s : /\ s[k] < t[k]
                                    /\ \A m \in 1 .. k - 1 : s[m] = t[m]
First(S) == CHOOSE s \in S : \A t \in S \ {s} : Before(s, t)
FirstIfAny(S) == IF S = {} THEN None ELSE First(S)

FindInit ==
  /\ disks \in Tables
  /\ flags = [p \in Parts |-> {}]
  /\ pref = [p \in Parts |-> 0]
  /\ pc = "idle"
  /\ img = "image1"
  /\ types = <<>>
  /\ best_pos = MAX_CFG_ARGS
  /\ todo = {}
  /\ chosen = None
  /\ second = None
  /\ fresh = TRUE

-----------------------------------------------------------------------------

(* A partition of 8 MB of an ext type, then somewhere behind it two of     *)
(* equal size, at least 16 MB, in a row.  <<d, i, j>> is the partition i   *)
(* of the disk d followed by j and j + 1.                                  *)
Candidates ==
  UNION {{c \in {d} \X (DOMAIN disks[d]) \X (DOMAIN disks[d]) :
            LET size(k) == disks[d][k].size IN
            /\ c[2] < c[3] /\ c[3] < Len(disks[d])
            /\ size(c[2]) >= 8
            /\ size(c[3]) >= 16 /\ size(c[3]) = size(c[3] + 1)
            /\ disks[d][c[2]].type \in ExtTypes} : d \in DOMAIN disks}

Image1(c) == <<c[1], c[3]>>
Image2(c) == <<c[1], c[3] + 1>>

(* The ranks in the list of the types of the pair; squashfs has the first  *)
(* rank when there is no list.                                             *)
Ranks(c) ==
  LET wanted == IF types = <<>> THEN <<"squashfs">> ELSE types
  IN {k - 1 : k \in {n \in DOMAIN wanted :
        wanted[n] \in {Part(Image1(c)).type, Part(Image2(c)).type}}}

Rescan ==
  /\ pc = "idle"
  /\ flags' = [p \in Parts |-> {}]
  /\ pref' = [p \in Parts |-> 0]
  /\ fresh' = TRUE
  /\ UNCHANGED <<disks, pc, img, types, best_pos, todo, chosen, second>>

FindPart(image, list) ==
  /\ pc = "idle"
  /\ pc' = "scan"
  /\ img' = image
  /\ types' = list
  /\ best_pos' = MAX_CFG_ARGS
  /\ todo' = Candidates
  /\ UNCHANGED <<disks, flags, pref, chosen, second, fresh>>

(* Mutant: the last rank found is kept, not the least. *)
ExamineLast ==
  /\ pc = "scan"
  /\ todo # {} /\ best_pos # 0
  /\ LET c == First(todo)
         rank == CHOOSE r \in Ranks(c) : \A s \in Ranks(c) : r <= s
     IN /\ todo' = todo \ {c}
        /\ IF Ranks(c) = {}
             THEN UNCHANGED <<flags, pref, best_pos>>
             ELSE /\ flags' = [flags EXCEPT ![Image1(c)] = @ \cup {"IMAGE1"},
                                            ![Image2(c)] = @ \cup {"IMAGE2"}]
                  /\ pref' = [pref EXCEPT ![Image1(c)] = rank,
                                          ![Image2(c)] = rank]
                  /\ best_pos' = rank
  /\ UNCHANGED <<disks, pc, img, types, chosen, second, fresh>>

(* Mutant: only the first image gets the rank. *)
ExamineFirst ==
  /\ pc = "scan"
  /\ todo # {} /\ best_pos # 0
  /\ LET c == First(todo)
         rank == CHOOSE r \in Ranks(c) : \A s \in Ranks(c) : r <= s
     IN /\ todo' = todo \ {c}
        /\ IF Ranks(c) = {}
             THEN UNCHANGED <<flags, pref, best_pos>>
             ELSE /\ flags' = [flags EXCEPT ![Image1(c)] = @ \cup {"IMAGE1"},
                                            ![Image2(c)] = @ \cup {"IMAGE2"}]
                  /\ pref' = [pref EXCEPT ![Image1(c)] = rank]
                  /\ best_pos' = IF rank < best_pos THEN rank ELSE best_pos
  /\ UNCHANGED <<disks, pc, img, types, chosen, second, fresh>>

(* A pair with a wanted type is marked, over any mark left by the pair     *)
(* that overlaps it or by the previous command.  A pair of the most wanted *)
(* type ends the search.                                                   *)
Examine ==
  /\ pc = "scan"
  /\ todo # {} /\ best_pos # 0
  /\ LET c == First(todo)
         rank == CHOOSE r \in Ranks(c) : \A s \in Ranks(c) : r <= s
     IN /\ todo' = todo \ {c}
        /\ IF Ranks(c) = {}
             THEN UNCHANGED <<flags, pref, best_pos>>
             ELSE /\ flags' = [flags EXCEPT ![Image1(c)] = @ \cup {"IMAGE1"},
                                            ![Image2(c)] = @ \cup {"IMAGE2"}]
                  /\ pref' = [pref EXCEPT ![Image1(c)] = rank,
                                          ![Image2(c)] = rank]
                  /\ best_pos' = IF rank < best_pos THEN rank ELSE best_pos
  /\ UNCHANGED <<disks, pc, img, types, chosen, second, fresh>>

Best(mark) == {p \in Parts : pref[p] = best_pos /\ mark \in flags[p]}

(* Mutant: the second image is named as the first would be. *)
PickUnswapped ==
  /\ pc = "scan"
  /\ todo = {} \/ best_pos = 0
  /\ fresh' = FALSE
  /\ IF best_pos = MAX_CFG_ARGS
       THEN pc' = "idle" /\ UNCHANGED <<chosen, second>>
       ELSE /\ pc' = "idle"
            /\ chosen' = FirstIfAny(Best("IMAGE1"))
            /\ second' = FirstIfAny(Best("IMAGE2") \ {chosen'})
  /\ UNCHANGED <<disks, flags, pref, img, types, best_pos, todo>>

(* The first partitions with each mark and the best rank are the images.   *)
(* The code takes it that both exist; when the second does not, or the     *)
(* first, it follows a null pointer.                                       *)
Pick ==
  /\ pc = "scan"
  /\ todo = {} \/ best_pos = 0
  /\ fresh' = FALSE
  /\ IF best_pos = MAX_CFG_ARGS
       THEN pc' = "idle" /\ UNCHANGED <<chosen, second>>
       ELSE LET part1 == FirstIfAny(Best("IMAGE1"))
                part2 == FirstIfAny(Best("IMAGE2") \ {part1})
                swap == img = "image2"
            IN IF None \in {part1, part2}
                 THEN pc' = "crashed" /\ UNCHANGED <<chosen, second>>
                 ELSE /\ pc' = "idle"
                      /\ chosen' = IF swap THEN part2 ELSE part1
                      /\ second' = IF swap THEN part1 ELSE part2
  /\ UNCHANGED <<disks, flags, pref, img, types, best_pos, todo>>

Crashed == pc = "crashed" /\ UNCHANGED fpvars

FindNext ==
  \/ Rescan \/ Examine \/ Pick \/ Crashed
  \/ \E image \in {"image1", "image2"}, list \in Lists : FindPart(image, list)

FindSpec == FindInit /\ [][FindNext]_fpvars

-----------------------------------------------------------------------------
(* Properties. *)

(* When the search ends, at its end or early, the rank it found is the     *)
(* least of all candidates of the whole table, and there is none only if   *)
(* no candidate has a wanted type.                                         *)
BestIsLeast ==
  (pc = "scan" /\ (todo = {} \/ best_pos = 0)) =>
    LET all == UNION {Ranks(c) : c \in Candidates}
    IN IF all = {} THEN best_pos = MAX_CFG_ARGS
       ELSE best_pos \in all /\ \A r \in all : best_pos <= r

(* Two partitions of one disk, in a row, of one size, behind a partition   *)
(* that may be /flash; the first is the one asked for as image1.           *)
IsPair(a, b) == \E c \in Candidates : a = Image1(c) /\ b = Image2(c)
Ordered(a, b) == IF img' = "image1" THEN IsPair(a, b) ELSE IsPair(b, a)

(* The code says: "Here by construction we cannot have part1 or part2      *)
(* NULL."                                                                  *)
BothImages == pc # "crashed"

(* Two candidates share a partition when they are neighbours.              *)
Overlapping ==
  \E c, d \in Candidates : c # d /\ Image2(c) = Image1(d)

(* On a table that carries no marks of an earlier search, fp names both    *)
(* images of one candidate in the right order, if it was asked for one     *)
(* type or none: then for the first candidate there is.  With a list of    *)
(* types it does when no two candidates overlap: then for one of the best  *)
(* rank.                                                                   *)
RightPair ==
  [][Pick /\ fresh =>
       LET one == IF img = "image1" THEN chosen' ELSE second'
       IN /\ Len(types) < 2 =>
               /\ pc' # "crashed"
               /\ best_pos = 0 =>
                    /\ Ordered(chosen', second')
                    /\ \A c \in Candidates :
                         0 \in Ranks(c) => ~Before(Image1(c), one)
          /\ ~Overlapping =>
               /\ pc' # "crashed"
               /\ best_pos < MAX_CFG_ARGS =>
                    /\ Ordered(chosen', second')
                    /\ \E c \in Candidates : Image1(c) = one /\ best_pos \in Ranks(c)]_fpvars
=============================================================================
