--------------------------- MODULE FlxCheckProofs ---------------------------
(***************************************************************************)
(* Theorems about flx check, for any paths, contents and pieces.           *)
(***************************************************************************)
EXTENDS FlxCheck, TLAPS

USE DEF Sides

LEMMA TypeInit == Init => TypeOK
<1> SUFFICES ASSUME Init PROVE TypeOK
  OBVIOUS
<1>1. NoTree \in Trees /\ NoDiff \in [diff : {"none", "same", "differs", "alone"}, desc : [Sides -> Descs]]
  BY DEF NoTree, NoDiff, Trees, Descs
<1>2. NoTree.filled = {}
  BY DEF NoTree
<1> QED
  BY <1>1, <1>2 DEF Init, TypeOK, Steps, SHOW

(* The operators on trees keep their types. *)
LEMMA SeenType ==
  ASSUME NEW t \in Trees, t.filled \subseteq t.node, NEW c, NEW f
  PROVE  Seen(t, c, f) \in Trees /\ Seen(t, c, f).filled \subseteq Seen(t, c, f).node
BY DEF Seen, Trees, Descs

LEMMA MovedType ==
  ASSUME NEW t \in Trees, NEW u \in Trees, t.filled \subseteq t.node, u.filled \subseteq u.node
  PROVE  Moved(t, u) \in Trees /\ Moved(t, u).filled \subseteq Moved(t, u).node
BY DEF Moved, Trees, Descs

LEMMA LoadType ==
  ASSUME TypeOK, NEW s \in Sides, NEW c \in SUBSET Paths
  PROVE  Load(s, c) \in Trees /\ Load(s, c).filled \subseteq Load(s, c).node
<1>1. UNION {Parents[p] : p \in c} \subseteq Paths
  BY PathsAssumption
<1>2. \A p \in Paths : (IF p \notin c THEN src[s].desc[p]
                        ELSE IF source[s][p] = Gone THEN None ELSE source[s][p]) \in Descs
  BY DEF TypeOK, Trees, Descs
<1> QED
  BY <1>1, <1>2 DEF Load, TypeOK, Trees

LEMMA DiffsType ==
  ASSUME TypeOK, NEW a \in Trees, NEW b \in Trees
  PROVE  Diffs(a, b) \in [Paths -> [diff : {"none", "same", "differs", "alone"}, desc : [Sides -> Descs]]]
BY DEF Diffs, TypeOK, Trees

LEMMA FindDiffType ==
  ASSUME TypeOK, NEW a \in [Sides -> Trees], NEW b \in [Sides -> Trees], NEW next \in Steps,
         FindDiff(a, b, next)
  PROVE  /\ dst' \in [Paths -> [diff : {"none", "same", "differs", "alone"}, desc : [Sides -> Descs]]]
         /\ pc' \in Steps
<1>1. a[1] \in Trees /\ b[2] \in Trees
  OBVIOUS
<1>2. CASE Followed(a[1], b[2])
  <2>1. dst' = Diffs(a[1], b[2]) /\ pc' = next
    BY <1>2 DEF FindDiff
  <2> QED
    BY <1>1, <2>1, DiffsType
<1>3. CASE ~Followed(a[1], b[2])
  <2>1. dst' = dst /\ pc' = "crashed"
    BY <1>3 DEF FindDiff
  <2> QED
    BY <2>1 DEF TypeOK, Steps
<1> QED
  BY <1>2, <1>3

LEMMA TypeStep == TypeOK /\ [Next]_vars => TypeOK'
<1> SUFFICES ASSUME TypeOK, [Next]_vars PROVE TypeOK'
  OBVIOUS
<1> DEFINE Entries == [diff : {"none", "same", "differs", "alone"}, desc : [Sides -> Descs]]
<1>0. NoTree \in Trees /\ NoTree.filled = {}
  BY DEF NoTree, Trees, Descs
<1>1. CASE UNCHANGED vars
  BY <1>1 DEF TypeOK, vars, input
<1>2. CASE Read
  <2>1. PICK c1 \in Chunks(1), c2 \in Chunks(2) :
          LET c == [s \in Sides |-> IF s = 1 THEN c1 ELSE c2]
          IN /\ src' = [s \in Sides |-> Load(s, c[s])]
             /\ unread' = [s \in Sides |-> unread[s] \ c[s]]
             /\ eof' = [s \in Sides |-> c[s] = {}]
    BY <1>2 DEF Read
  <2> DEFINE c == [s \in Sides |-> IF s = 1 THEN c1 ELSE c2]
  <2>2. \A s \in Sides : c[s] \in SUBSET Paths
    BY DEF Chunks, TypeOK
  <2>3. \A s \in Sides : Load(s, c[s]) \in Trees /\ Load(s, c[s]).filled \subseteq Load(s, c[s]).node
    BY <2>2, LoadType
  <2>4. src' = [s \in Sides |-> Load(s, c[s])]
    BY <2>1
  <2>5. src' \in [Sides -> Trees] /\ \A s \in Sides : src'[s].filled \subseteq src'[s].node
    <3> HIDE DEF c
    <3> QED
      BY <2>3, <2>4
  <2>6. unread' \in [Sides -> SUBSET Paths] /\ eof' \in [Sides -> BOOLEAN]
    BY <2>1 DEF TypeOK
  <2>7. UNCHANGED <<source, show, tmp, dst>> /\ pc' = "new with new"
    BY <1>2 DEF Read, input
  <2> QED
    BY <2>5, <2>6, <2>7 DEF TypeOK, Steps
<1>3. CASE NewWithNew
  <2>1. \A s \in Sides : Rest(src, src, s) \in Trees /\ Rest(src, src, s).filled \subseteq Rest(src, src, s).node
    BY SeenType DEF Rest, TypeOK
  <2>2. src' \in [Sides -> Trees] /\ \A s \in Sides : src'[s].filled \subseteq src'[s].node
    BY <1>3, <2>1 DEF NewWithNew
  <2>3. dst' \in [Paths -> Entries] /\ pc' \in Steps
    BY <1>3, FindDiffType DEF NewWithNew, TypeOK, Steps
  <2> QED
    BY <1>3, <2>2, <2>3 DEF NewWithNew, TypeOK, input
<1>4. CASE NewWithOld
  <2>1. /\ Rest(src, tmp, 1) \in Trees /\ Rest(src, tmp, 1).filled \subseteq Rest(src, tmp, 1).node
        /\ Rest(src, tmp, 2) \in Trees /\ Rest(src, tmp, 2).filled \subseteq Rest(src, tmp, 2).node
    BY SeenType DEF Rest, TypeOK
  <2>2. src' \in [Sides -> Trees] /\ \A s \in Sides : src'[s].filled \subseteq src'[s].node
    BY <1>4, <2>1 DEF NewWithOld, TypeOK
  <2>3. tmp' \in [Sides -> Trees] /\ \A s \in Sides : tmp'[s].filled \subseteq tmp'[s].node
    BY <1>4, <2>1 DEF NewWithOld, TypeOK
  <2>4. dst' \in [Paths -> Entries] /\ pc' \in Steps
    BY <1>4, FindDiffType DEF NewWithOld, TypeOK, Steps
  <2> QED
    BY <1>4, <2>2, <2>3, <2>4 DEF NewWithOld, TypeOK, input
<1>5. CASE OldWithNew
  <2>1. /\ Rest(tmp, src, 1) \in Trees /\ Rest(tmp, src, 1).filled \subseteq Rest(tmp, src, 1).node
        /\ Rest(tmp, src, 2) \in Trees /\ Rest(tmp, src, 2).filled \subseteq Rest(tmp, src, 2).node
    BY SeenType DEF Rest, TypeOK
  <2>2. src' \in [Sides -> Trees] /\ \A s \in Sides : src'[s].filled \subseteq src'[s].node
    BY <1>5, <2>1 DEF OldWithNew, TypeOK
  <2>3. tmp' \in [Sides -> Trees] /\ \A s \in Sides : tmp'[s].filled \subseteq tmp'[s].node
    BY <1>5, <2>1 DEF OldWithNew, TypeOK
  <2>4. dst' \in [Paths -> Entries] /\ pc' \in Steps
    BY <1>5, FindDiffType DEF OldWithNew, TypeOK, Steps
  <2> QED
    BY <1>5, <2>2, <2>3, <2>4 DEF OldWithNew, TypeOK, input
<1>6. CASE Move
  <2>1. \A s \in Sides : /\ Moved(src[s], tmp[s]) \in Trees
                         /\ Moved(src[s], tmp[s]).filled \subseteq Moved(src[s], tmp[s]).node
    BY MovedType DEF TypeOK
  <2>2. tmp' \in [Sides -> Trees] /\ \A s \in Sides : tmp'[s].filled \subseteq tmp'[s].node
    BY <1>6, <2>1 DEF Move
  <2>3. src' \in [Sides -> Trees] /\ \A s \in Sides : src'[s].filled \subseteq src'[s].node
    BY <1>0, <1>6 DEF Move
  <2> QED
    BY <1>6, <2>2, <2>3 DEF Move, TypeOK, input, Steps
<1>7. CASE Alone
  <2>1. tmp' \in [Sides -> Trees] /\ \A s \in Sides : tmp'[s].filled \subseteq tmp'[s].node
    BY <1>0, <1>7 DEF Alone
  <2>2. \A p \in Paths, s \in Sides : tmp[s].desc[p] \in Descs /\ dst[p] \in Entries
    BY DEF TypeOK, Trees
  <2>3. dst' \in [Paths -> Entries]
    BY <1>7, <2>2 DEF Alone
  <2> QED
    BY <1>7, <2>1, <2>3 DEF Alone, TypeOK, input, Steps
<1>8. CASE Write
  BY <1>8 DEF Write, TypeOK, input, Steps
<1>9. CASE Ended
  BY <1>9 DEF Ended, TypeOK, vars, input
<1> QED
  BY <1>1, <1>2, <1>3, <1>4, <1>5, <1>6, <1>7, <1>8, <1>9 DEF Next

(* The program's variables keep their types. *)
THEOREM TypeCorrect == Spec => []TypeOK
BY TypeInit, TypeStep, PTL DEF Spec

-----------------------------------------------------------------------------
(* The rounds. *)

Rounds == {"read", "new with new", "new with old", "old with new", "move"}
Known(s, p) == IF source[s][p] = Gone THEN None ELSE source[s][p]
Met(p) == \A s \in Sides : Has(s, p) /\ ~Waiting(s, p)

(* What dst says of two files that were compared. *)
Verdict(p) ==
  IF <<source[1][p], source[2][p]>> \notin Same
  THEN [diff |-> "differs", desc |-> [s \in Sides |-> source[s][p]]]
  ELSE IF show = SHOW
       THEN [diff |-> "same", desc |-> [s \in Sides |-> source[s][p]]]
       ELSE NoDiff

(* A file is in one place: to be read, just read or kept, with what is     *)
(* known of it; and no node exists yet for one that is to be read.         *)
Placed ==
  \A s \in Sides, p \in Paths :
    /\ p \in unread[s] => Has(s, p) /\ p \notin src[s].node \cup tmp[s].node
    /\ p \in src[s].filled => Has(s, p) /\ p \notin tmp[s].node /\ src[s].desc[p] = Known(s, p)
    /\ p \in tmp[s].filled => Has(s, p) /\ tmp[s].desc[p] = Known(s, p)

(* A file leaves these places with its counterpart only, and then dst says *)
(* what the comparison gave; of the others it says nothing. *)
Judged ==
  \A p \in Paths :
    /\ \A s \in Sides : Has(s, p) /\ ~Waiting(s, p) => Met(p)
    /\ Met(p) => (\A s \in Sides : Present(s, p)) /\ dst[p] = Verdict(p)
    /\ ~Met(p) => dst[p] = NoDiff

(* What each comparison has established when it is done. *)
Apart ==
  /\ tmp[1].filled \cap tmp[2].filled = {}
  /\ pc = "read" => src = [s \in Sides |-> NoTree]
  /\ pc \in {"new with old", "old with new", "move"} => src[1].filled \cap src[2].filled = {}
  /\ pc \in {"old with new", "move"} => src[1].filled \cap tmp[2].filled = {}
  /\ pc = "move" => tmp[1].filled \cap src[2].filled = {}

AtEnd == \A s \in Sides : eof[s] => unread[s] = {}

RoundInv == pc \in Rounds => Placed /\ Judged /\ Apart /\ AtEnd

LEMMA RoundInit == Init => RoundInv
<1> SUFFICES ASSUME Init PROVE Placed /\ Judged /\ Apart /\ AtEnd
  BY DEF RoundInv
<1>1. NoTree.node = {} /\ NoTree.filled = {}
  BY DEF NoTree
<1>2. \A s \in Sides : src[s] = NoTree /\ tmp[s] = NoTree /\ eof[s] = FALSE
  BY DEF Init
<1>3. \A s \in Sides, p \in Paths : p \in unread[s] <=> Has(s, p)
  BY DEF Init, Has
<1>4. Placed
  BY <1>1, <1>2, <1>3 DEF Placed
<1>5. \A p \in Paths : ~Met(p)
  BY <1>1, <1>2, <1>3 DEF Met, Waiting
<1>6. Judged
  BY <1>1, <1>2, <1>3, <1>5 DEF Judged, Waiting, Init
<1>7. Apart /\ AtEnd
  BY <1>1, <1>2 DEF Apart, AtEnd, Init
<1> QED
  BY <1>4, <1>6, <1>7

(* A comparison: the files of C leave with the verdict, the others stay.   *)
LEMMA JudgedStep ==
  ASSUME TypeOK, Judged, NEW C \in SUBSET Paths, UNCHANGED input,
         \A s \in Sides, p \in Paths : Waiting(s, p)' <=> Waiting(s, p) /\ p \notin C,
         \A p \in C, s \in Sides : Has(s, p) /\ Waiting(s, p) /\ Present(s, p),
         \A p \in C : dst'[p] = Verdict(p),
         \A p \in Paths \ C : dst'[p] = dst[p]
  PROVE  Judged'
<1> SUFFICES ASSUME NEW p \in Paths
    PROVE  /\ \A s \in Sides : Has(s, p)' /\ ~Waiting(s, p)' => Met(p)'
           /\ Met(p)' => (\A s \in Sides : Present(s, p)') /\ dst'[p] = Verdict(p)'
           /\ ~Met(p)' => dst'[p] = NoDiff
  BY DEF Judged, NoDiff
<1>1. /\ Verdict(p)' = Verdict(p)
      /\ \A s \in Sides : (Has(s, p)' <=> Has(s, p)) /\ (Present(s, p)' <=> Present(s, p))
  BY DEF Verdict, Has, Present, input, NoDiff, SHOW
<1>2. CASE p \in C
  BY <1>1, <1>2 DEF Met
<1>3. CASE p \notin C
  BY <1>1, <1>3 DEF Met, Judged
<1> QED
  BY <1>2, <1>3

(* What the comparison of two trees does to dst. *)
LEMMA DiffsVerdict ==
  ASSUME TypeOK, Placed, Judged,
         NEW a \in {src, tmp}, NEW b \in {src, tmp}, Followed(a[1], b[2])
  PROVE  /\ \A p \in Common(a[1], b[2]) :
              /\ p \in Paths
              /\ \A s \in Sides : Has(s, p) /\ Waiting(s, p) /\ Present(s, p)
              /\ Diffs(a[1], b[2])[p] = Verdict(p)
         /\ \A p \in Paths \ Common(a[1], b[2]) : Diffs(a[1], b[2])[p] = dst[p]
<1>1. ASSUME NEW p \in Common(a[1], b[2])
      PROVE  /\ p \in Paths
             /\ \A s \in Sides : Has(s, p) /\ Waiting(s, p) /\ Present(s, p)
             /\ Diffs(a[1], b[2])[p] = Verdict(p)
  <2>1. p \in Paths /\ p \in a[1].filled /\ p \in b[2].filled
    BY <1>1 DEF Common, TypeOK, Trees
  <2>2. a[1].desc[p] # None /\ b[2].desc[p] # None
    BY <1>1 DEF Followed
  <2>3. a[1].desc[p] = Known(1, p) /\ b[2].desc[p] = Known(2, p)
    BY <2>1 DEF Placed
  <2>4. a[1].desc[p] = source[1][p] /\ b[2].desc[p] = source[2][p]
    BY <2>2, <2>3 DEF Known
  <2>5. Has(1, p) /\ Has(2, p) /\ Waiting(1, p) /\ Waiting(2, p)
    BY <2>1 DEF Placed, Waiting
  <2>6. Present(1, p) /\ Present(2, p)
    BY <2>1, <2>2, <2>3, <2>5 DEF Present, Known, TypeOK, Has
  <2>7. dst[p] = NoDiff
    BY <2>1, <2>5 DEF Judged, Met
  <2>8. Diffs(a[1], b[2])[p] = Verdict(p)
    BY <1>1, <2>1, <2>4, <2>7 DEF Diffs, Found, Differ, Verdict
  <2> QED
    BY <2>1, <2>5, <2>6, <2>8
<1>2. ASSUME NEW p \in Paths \ Common(a[1], b[2]) PROVE Diffs(a[1], b[2])[p] = dst[p]
  BY <1>2 DEF Diffs, Found
<1> QED
  BY <1>1, <1>2

(* Whatever the comparison of two trees finds, only the files of C leave.  *)
Leaving(C) ==
  \A s \in Sides :
    /\ src'[s].node = src[s].node /\ tmp'[s].node = tmp[s].node
    /\ src'[s].filled = src[s].filled \ C /\ tmp'[s].filled = tmp[s].filled \ C
    /\ \A p \in src[s].filled \ C : src'[s].desc[p] = src[s].desc[p]
    /\ \A p \in tmp[s].filled \ C : tmp'[s].desc[p] = tmp[s].desc[p]

LEMMA LeavingNewWithNew ==
  ASSUME TypeOK, Placed, NewWithNew
  PROVE  Leaving(Common(src[1], src[2]))
<1> DEFINE C == Common(src[1], src[2])
<1>1. src' = [s \in Sides |-> Rest(src, src, s)] /\ tmp' = tmp
  BY DEF NewWithNew
<1>2. Found(src[1], src[2]) \subseteq C
  BY DEF Found
<1>3. \A s \in Sides :
        /\ src'[s].node = src[s].node /\ src'[s].filled = src[s].filled \ C
        /\ \A p \in Paths \ C : src'[s].desc[p] = src[s].desc[p]
  BY <1>1, <1>2 DEF Rest, Seen
<1>4. \A s \in Sides : src[s].filled \subseteq Paths /\ tmp[s].filled \cap C = {}
  BY DEF Common, Placed, TypeOK, Trees
<1> QED
  BY <1>1, <1>3, <1>4 DEF Leaving

LEMMA LeavingNewWithOld ==
  ASSUME TypeOK, Placed, NewWithOld
  PROVE  Leaving(Common(src[1], tmp[2]))
<1> DEFINE C == Common(src[1], tmp[2])
<1>1. /\ src' = [src EXCEPT ![1] = Rest(src, tmp, 1)]
      /\ tmp' = [tmp EXCEPT ![2] = Rest(src, tmp, 2)]
  BY DEF NewWithOld
<1>2. Found(src[1], tmp[2]) \subseteq C
  BY DEF Found
<1>3. /\ src'[1] = Seen(src[1], C, Found(src[1], tmp[2])) /\ src'[2] = src[2]
      /\ tmp'[2] = Seen(tmp[2], C, Found(src[1], tmp[2])) /\ tmp'[1] = tmp[1]
  BY <1>1 DEF Rest, TypeOK
<1>4. \A s \in Sides : src[s].filled \subseteq Paths /\ tmp[s].filled \subseteq Paths
  BY DEF TypeOK, Trees
<1>5. src[2].filled \cap C = {} /\ tmp[1].filled \cap C = {}
  BY <1>4 DEF Common, Placed, TypeOK
<1>6. /\ src'[1].node = src[1].node /\ src'[1].filled = src[1].filled \ C
      /\ \A p \in Paths \ C : src'[1].desc[p] = src[1].desc[p]
      /\ tmp'[2].node = tmp[2].node /\ tmp'[2].filled = tmp[2].filled \ C
      /\ \A p \in Paths \ C : tmp'[2].desc[p] = tmp[2].desc[p]
  BY <1>2, <1>3 DEF Seen
<1> QED
  BY <1>3, <1>4, <1>5, <1>6 DEF Leaving

LEMMA LeavingOldWithNew ==
  ASSUME TypeOK, Placed, OldWithNew
  PROVE  Leaving(Common(tmp[1], src[2]))
<1> DEFINE C == Common(tmp[1], src[2])
<1>1. /\ tmp' = [tmp EXCEPT ![1] = Rest(tmp, src, 1)]
      /\ src' = [src EXCEPT ![2] = Rest(tmp, src, 2)]
  BY DEF OldWithNew
<1>2. Found(tmp[1], src[2]) \subseteq C
  BY DEF Found
<1>3. /\ tmp'[1] = Seen(tmp[1], C, Found(tmp[1], src[2])) /\ tmp'[2] = tmp[2]
      /\ src'[2] = Seen(src[2], C, Found(tmp[1], src[2])) /\ src'[1] = src[1]
  BY <1>1 DEF Rest, TypeOK
<1>4. \A s \in Sides : src[s].filled \subseteq Paths /\ tmp[s].filled \subseteq Paths
  BY DEF TypeOK, Trees
<1>5. tmp[2].filled \cap C = {} /\ src[1].filled \cap C = {}
  BY <1>4 DEF Common, Placed, TypeOK
<1>6. /\ tmp'[1].node = tmp[1].node /\ tmp'[1].filled = tmp[1].filled \ C
      /\ \A p \in Paths \ C : tmp'[1].desc[p] = tmp[1].desc[p]
      /\ src'[2].node = src[2].node /\ src'[2].filled = src[2].filled \ C
      /\ \A p \in Paths \ C : src'[2].desc[p] = src[2].desc[p]
  BY <1>2, <1>3 DEF Seen
<1> QED
  BY <1>3, <1>4, <1>5, <1>6 DEF Leaving

LEMMA PlacedStep ==
  ASSUME TypeOK, Placed, NEW C, Leaving(C), UNCHANGED <<input, unread>>
  PROVE  /\ Placed'
         /\ \A s \in Sides, p \in Paths \ C : Waiting(s, p)' <=> Waiting(s, p)
<1>1. \A s \in Sides, p \in Paths : Has(s, p)' = Has(s, p) /\ Known(s, p)' = Known(s, p)
  BY DEF Has, Known, input
<1>2. \A s \in Sides, p \in Paths \ C : Waiting(s, p)' <=> Waiting(s, p)
  BY DEF Leaving, Waiting
<1>3. \A s \in Sides, p \in Paths :
        p \in unread'[s] => Has(s, p)' /\ p \notin src'[s].node \cup tmp'[s].node
  BY <1>1 DEF Leaving, Placed
<1>4. \A s \in Sides, p \in Paths :
        p \in src'[s].filled => Has(s, p)' /\ p \notin tmp'[s].node /\ src'[s].desc[p] = Known(s, p)'
  BY <1>1 DEF Leaving, Placed
<1>5. \A s \in Sides, p \in Paths :
        p \in tmp'[s].filled => Has(s, p)' /\ tmp'[s].desc[p] = Known(s, p)'
  BY <1>1 DEF Leaving, Placed
<1> QED
  BY <1>2, <1>3, <1>4, <1>5 DEF Placed

(* One comparison, of any two trees: either it is made and everything is   *)
(* judged as it should be, or a file is gone. *)
LEMMA FindDiffStep ==
  ASSUME TypeOK, Placed, Judged, NEW a \in {src, tmp}, NEW b \in {src, tmp}, NEW next,
         next # "crashed", FindDiff(a, b, next), Leaving(Common(a[1], b[2])),
         UNCHANGED <<input, unread>>
  PROVE  /\ Placed'
         /\ pc' = next => Judged'
         /\ pc' # next => pc' = "crashed" /\ CrashNeedsGone'
         /\ \A p \in Paths, s \in Sides :
              Has(s, p)' /\ ~Waiting(s, p)' => \A t \in Sides : Has(t, p)' /\ ~Waiting(t, p)'
<1> DEFINE C == Common(a[1], b[2])
<1>0. C \in SUBSET Paths
  BY DEF Common, TypeOK, Trees
<1>1. Placed' /\ \A s \in Sides, p \in Paths \ C : Waiting(s, p)' <=> Waiting(s, p)
  BY PlacedStep
<1>2. \A p \in C, s \in Sides : Has(s, p) /\ Waiting(s, p)
  <2> SUFFICES ASSUME NEW p \in C PROVE Has(1, p) /\ Waiting(1, p) /\ Has(2, p) /\ Waiting(2, p)
    OBVIOUS
  <2>1. p \in Paths /\ p \in a[1].filled /\ p \in b[2].filled
    BY <1>0 DEF Common
  <2> QED
    BY <2>1 DEF Placed, Waiting
<1>3. \A p \in C, s \in Sides : ~Waiting(s, p)'
  <2> SUFFICES ASSUME NEW p \in C, NEW s \in Sides PROVE ~Waiting(s, p)'
    OBVIOUS
  <2>1. p \notin src'[s].filled \cup tmp'[s].filled
    BY DEF Leaving
  <2>2. p \in a[1].filled /\ p \in b[2].filled /\ p \in Paths
    BY <1>0 DEF Common
  <2>3. p \notin unread[1] /\ p \notin unread[2]
    BY <2>2 DEF Placed, TypeOK
  <2> QED
    BY <2>1, <2>3 DEF Waiting
<1>4. \A s \in Sides, p \in Paths : Waiting(s, p)' <=> Waiting(s, p) /\ p \notin C
  BY <1>1, <1>3
<1>5. \A s \in Sides, p \in Paths : Has(s, p)' <=> Has(s, p)
  BY DEF Has, input
<1>6. ASSUME NEW p \in Paths, NEW s \in Sides, Has(s, p)', ~Waiting(s, p)', NEW t \in Sides
      PROVE  Has(t, p)' /\ ~Waiting(t, p)'
  <2>1. CASE p \in C
    BY <1>2, <1>4, <1>5, <2>1
  <2>2. CASE p \notin C
    <3>1. Has(s, p) /\ ~Waiting(s, p)
      BY <1>4, <1>5, <1>6, <2>2
    <3>2. Met(p)
      BY <3>1 DEF Judged
    <3> QED
      BY <1>4, <1>5, <3>2 DEF Met
  <2> QED
    BY <2>1, <2>2
<1>7. CASE Followed(a[1], b[2])
  <2>1. dst' = Diffs(a[1], b[2]) /\ pc' = next
    BY <1>7 DEF FindDiff
  <2>2. /\ \A p \in C : dst'[p] = Verdict(p) /\ \A s \in Sides : Present(s, p)
        /\ \A p \in Paths \ C : dst'[p] = dst[p]
    BY <1>7, <2>1, DiffsVerdict
  <2>3. Judged'
    BY <1>0, <1>2, <1>4, <2>2, JudgedStep
  <2> QED
    BY <1>1, <1>6, <2>1, <2>3
<1>8. CASE ~Followed(a[1], b[2])
  <2>1. pc' = "crashed"
    BY <1>8 DEF FindDiff
  <2>2. PICK p \in C : a[1].desc[p] = None \/ b[2].desc[p] = None
    BY <1>8 DEF Followed
  <2>3. p \in Paths /\ p \in a[1].filled /\ p \in b[2].filled
    BY <1>0 DEF Common
  <2>4. a[1].desc[p] = Known(1, p) /\ b[2].desc[p] = Known(2, p)
    BY <2>3 DEF Placed
  <2>5. \E s \in Sides : Known(s, p) = None
    BY <2>2, <2>4
  <2>6. \E s \in Sides : source[s][p] = Gone
    BY <1>2, <2>5 DEF Known, Has
  <2>7. (\A s \in Sides : Has(s, p)') /\ (\E s \in Sides : source'[s][p] = Gone)
    BY <1>2, <1>5, <2>3, <2>6 DEF input
  <2>8. CrashNeedsGone'
    BY <2>3, <2>7 DEF CrashNeedsGone
  <2> QED
    BY <1>1, <1>6, <2>1, <2>8
<1> QED
  BY <1>7, <1>8

-----------------------------------------------------------------------------
(* The end: what is left of each source. *)

OnlyOf(p) ==
  [diff |-> "alone", desc |-> [s \in Sides |-> IF Present(s, p) THEN source[s][p] ELSE None]]
Final(p) ==
  IF Both(p) THEN Verdict(p)
  ELSE IF \E s \in Sides : Present(s, p) THEN OnlyOf(p) ELSE NoDiff

Collected == pc \in {"write", "done"} => \A p \in Paths : dst[p] = Final(p)
Written ==
  pc = "done" => output = UNION {Lines(p, dst[p]) : p \in {q \in Paths : dst[q] # NoDiff}}

Inv == TypeOK /\ RoundInv /\ LeaveTogether /\ CrashNeedsGone /\ Collected /\ Written

LEMMA ReadStep ==
  ASSUME TypeOK, RoundInv, ParentsFirst, Read
  PROVE  RoundInv'
<1>1. Placed /\ Judged /\ Apart /\ AtEnd /\ pc = "read"
  BY DEF RoundInv, Read, Rounds
<1>2. PICK c1 \in Chunks(1), c2 \in Chunks(2) :
        LET c == [s \in Sides |-> IF s = 1 THEN c1 ELSE c2]
        IN /\ src' = [s \in Sides |-> Load(s, c[s])]
           /\ unread' = [s \in Sides |-> unread[s] \ c[s]]
           /\ eof' = [s \in Sides |-> c[s] = {}]
  BY DEF Read
<1> DEFINE c == [s \in Sides |-> IF s = 1 THEN c1 ELSE c2]
<1>3. \A s \in Sides : c[s] \in Chunks(s)
  BY <1>2
<1>4. \A s \in Sides :
        /\ src'[s] = Load(s, c[s])
        /\ unread'[s] = unread[s] \ c[s]
        /\ eof'[s] <=> c[s] = {}
  BY <1>2
<1> HIDE DEF c
<1>5. UNCHANGED <<source, show, tmp, dst>> /\ pc' = "new with new"
  BY DEF Read, input
<1>6. \A s \in Sides : src[s] = NoTree
  BY <1>1 DEF Apart
<1>7. \A s \in Sides :
        /\ c[s] \subseteq unread[s] /\ c[s] \subseteq Paths
        /\ \A p \in c[s] : Parents[p] \cap unread[s] \subseteq c[s]
        /\ c[s] = {} => unread[s] = {}
  BY <1>3 DEF Chunks, TypeOK
<1>8. \A s \in Sides :
        /\ src'[s].node = c[s] \cup UNION {Parents[p] : p \in c[s]}
        /\ src'[s].filled = c[s]
        /\ \A p \in c[s] : src'[s].desc[p] = Known(s, p)
  <2> SUFFICES ASSUME NEW s \in Sides
      PROVE  /\ src'[s].node = c[s] \cup UNION {Parents[p] : p \in c[s]}
             /\ src'[s].filled = c[s]
             /\ \A p \in c[s] : src'[s].desc[p] = Known(s, p)
    OBVIOUS
  <2>1. src[s].node = {} /\ src[s].filled = {}
    BY <1>6 DEF NoTree
  <2>2. src'[s] = Load(s, c[s])
    BY <1>4
  <2>3. src'[s].node = c[s] \cup UNION {Parents[p] : p \in c[s]} /\ src'[s].filled = c[s]
    BY <2>1, <2>2 DEF Load
  <2>4. \A p \in c[s] : src'[s].desc[p] = Known(s, p)
    BY <1>7, <2>2 DEF Load, Known
  <2> QED
    BY <2>3, <2>4
<1>9. \A s \in Sides, p \in Paths : Has(s, p)' = Has(s, p) /\ Known(s, p)' = Known(s, p)
  BY <1>5 DEF Has, Known
<1>10. \A s \in Sides : src'[s].node \cap unread'[s] = {}
  <2> SUFFICES ASSUME NEW s \in Sides, NEW p \in src'[s].node, p \in unread[s] PROVE p \in c[s]
    BY <1>4
  <2> QED
    BY <1>7, <1>8
<1>11. \A s \in Sides : unread'[s] = unread[s] \ c[s]
  BY <1>4
<1>12. \A s \in Sides : tmp'[s] = tmp[s]
  BY <1>5
<1>13. Placed'
  <2>1. \A s \in Sides, p \in Paths :
          p \in unread'[s] => Has(s, p)' /\ p \notin src'[s].node \cup tmp'[s].node
    <3> SUFFICES ASSUME NEW s \in Sides, NEW p \in Paths, p \in unread'[s]
        PROVE  Has(s, p)' /\ p \notin src'[s].node \cup tmp'[s].node
      OBVIOUS
    <3>1. p \in unread[s] /\ p \notin src'[s].node
      BY <1>10, <1>11
    <3>2. Has(s, p) /\ p \notin tmp[s].node
      BY <1>1, <3>1 DEF Placed
    <3> QED
      BY <1>9, <1>12, <3>1, <3>2
  <2>2. \A s \in Sides, p \in Paths :
          p \in src'[s].filled => Has(s, p)' /\ p \notin tmp'[s].node /\ src'[s].desc[p] = Known(s, p)'
    <3> SUFFICES ASSUME NEW s \in Sides, NEW p \in Paths, p \in src'[s].filled
        PROVE  Has(s, p)' /\ p \notin tmp'[s].node /\ src'[s].desc[p] = Known(s, p)'
      OBVIOUS
    <3>1. p \in c[s] /\ p \in unread[s]
      BY <1>7, <1>8
    <3>2. Has(s, p) /\ p \notin tmp[s].node
      BY <1>1, <3>1 DEF Placed
    <3> QED
      BY <1>8, <1>9, <1>12, <3>1, <3>2
  <2>3. \A s \in Sides, p \in Paths :
          p \in tmp'[s].filled => Has(s, p)' /\ tmp'[s].desc[p] = Known(s, p)'
    <3> SUFFICES ASSUME NEW s \in Sides, NEW p \in Paths, p \in tmp'[s].filled
        PROVE  Has(s, p)' /\ tmp'[s].desc[p] = Known(s, p)'
      OBVIOUS
    <3>1. p \in tmp[s].filled /\ tmp'[s].desc[p] = tmp[s].desc[p]
      BY <1>5
    <3>2. Has(s, p) /\ tmp[s].desc[p] = Known(s, p)
      BY <1>1, <3>1 DEF Placed
    <3> QED
      BY <1>9, <3>1, <3>2
  <2> QED
    BY <2>1, <2>2, <2>3 DEF Placed
<1>14. \A s \in Sides, p \in Paths : Waiting(s, p)' <=> Waiting(s, p) /\ p \notin {}
  <2>1. \A s \in Sides : src[s].filled = {}
    BY <1>6 DEF NoTree
  <2> QED
    BY <1>7, <1>8, <1>11, <1>12, <2>1 DEF Waiting
<1>15. Judged'
  <2>1. UNCHANGED input /\ {} \in SUBSET Paths /\ \A p \in Paths \ {} : dst'[p] = dst[p]
    BY <1>5 DEF input
  <2> QED
    BY <1>1, <1>14, <2>1, JudgedStep
<1>16. Apart'
  BY <1>1, <1>5 DEF Apart
<1>17. AtEnd'
  BY <1>4, <1>7 DEF AtEnd
<1> QED
  BY <1>13, <1>15, <1>16, <1>17 DEF RoundInv

LEMMA MoveStep ==
  ASSUME TypeOK, RoundInv, Move
  PROVE  RoundInv'
<1>1. Placed /\ Judged /\ Apart /\ AtEnd /\ pc = "move"
  BY DEF RoundInv, Move, Rounds
<1>2. /\ UNCHANGED <<source, show, unread, eof, dst>> /\ pc' = "read"
      /\ tmp' = [s \in Sides |-> Moved(src[s], tmp[s])]
      /\ src' = [s \in Sides |-> NoTree]
  BY DEF Move, input
<1>3. NoTree.node = {} /\ NoTree.filled = {}
  BY DEF NoTree
<1>4. \A s \in Sides :
        /\ src'[s] = NoTree
        /\ tmp'[s].node = tmp[s].node \cup src[s].node
        /\ tmp'[s].filled = tmp[s].filled \cup src[s].filled
        /\ \A p \in tmp[s].filled : tmp'[s].desc[p] = tmp[s].desc[p]
        /\ \A p \in src[s].filled : tmp'[s].desc[p] = src[s].desc[p]
  <2> SUFFICES ASSUME NEW s \in Sides
      PROVE  /\ tmp'[s].node = tmp[s].node \cup src[s].node
             /\ tmp'[s].filled = tmp[s].filled \cup src[s].filled
             /\ \A p \in tmp[s].filled : tmp'[s].desc[p] = tmp[s].desc[p]
             /\ \A p \in src[s].filled : tmp'[s].desc[p] = src[s].desc[p]
    BY <1>2
  <2>1. tmp'[s] = Moved(src[s], tmp[s])
    BY <1>2
  <2>2. /\ src[s].filled \subseteq src[s].node /\ src[s].node \subseteq Paths
        /\ tmp[s].filled \subseteq tmp[s].node /\ tmp[s].node \subseteq Paths
    BY DEF TypeOK, Trees
  <2>3. src[s].filled \cap tmp[s].node = {}
    BY <1>1, <2>2 DEF Placed
  <2> QED
    BY <2>1, <2>2, <2>3 DEF Moved
<1>5. \A s \in Sides, p \in Paths : Has(s, p)' = Has(s, p) /\ Known(s, p)' = Known(s, p)
  BY <1>2 DEF Has, Known
<1>6. Placed'
  <2>1. \A s \in Sides, p \in Paths :
          p \in unread'[s] => Has(s, p)' /\ p \notin src'[s].node \cup tmp'[s].node
    BY <1>1, <1>2, <1>3, <1>4, <1>5 DEF Placed
  <2>2. \A s \in Sides, p \in Paths :
          p \in src'[s].filled => Has(s, p)' /\ p \notin tmp'[s].node /\ src'[s].desc[p] = Known(s, p)'
    BY <1>3, <1>4
  <2>3. \A s \in Sides, p \in Paths :
          p \in tmp'[s].filled => Has(s, p)' /\ tmp'[s].desc[p] = Known(s, p)'
    BY <1>1, <1>4, <1>5 DEF Placed
  <2> QED
    BY <2>1, <2>2, <2>3 DEF Placed
<1>7. \A s \in Sides, p \in Paths : Waiting(s, p)' <=> Waiting(s, p) /\ p \notin {}
  BY <1>2, <1>3, <1>4 DEF Waiting
<1>8. Judged'
  <2>1. UNCHANGED input /\ {} \in SUBSET Paths /\ \A p \in Paths \ {} : dst'[p] = dst[p]
    BY <1>2 DEF input
  <2> QED
    BY <1>1, <1>7, <2>1, JudgedStep
<1>9. Apart'
  <2>1. tmp'[1].filled \cap tmp'[2].filled = {}
    BY <1>1, <1>4 DEF Apart
  <2> QED
    BY <1>2, <2>1 DEF Apart
<1>10. AtEnd'
  BY <1>1, <1>2 DEF AtEnd
<1> QED
  BY <1>6, <1>8, <1>9, <1>10 DEF RoundInv

LEMMA AloneStep ==
  ASSUME TypeOK, RoundInv, Alone
  PROVE  Collected'
<1>1. Placed /\ Judged /\ Apart /\ AtEnd /\ pc = "read"
  BY DEF RoundInv, Alone, Rounds
<1>2. UNCHANGED <<source, show>> /\ \A s \in Sides : unread[s] = {} /\ src[s].filled = {}
  BY <1>1 DEF Alone, Apart, AtEnd, input, NoTree
<1>3. \A s \in Sides, p \in Paths : Waiting(s, p) <=> p \in tmp[s].filled
  BY <1>2 DEF Waiting
<1> SUFFICES ASSUME NEW p \in Paths PROVE dst'[p] = Final(p)
  BY <1>2 DEF Collected, Final, OnlyOf, Both, Present, Verdict, NoDiff, SHOW
<1>4. dst'[p] = IF \E s \in Sides : p \in Left(s)
                THEN [diff |-> IF dst[p] = NoDiff THEN "alone" ELSE dst[p].diff,
                      desc |-> [s \in Sides |-> IF p \in Left(s) THEN tmp[s].desc[p]
                                                ELSE dst[p].desc[s]]]
                ELSE dst[p]
  BY DEF Alone
<1>5. \A s \in Sides : source[s][p] \in Contents \cup {None, Gone}
  BY DEF TypeOK
<1>6. CASE Met(p)
  <2>1. Both(p) /\ dst[p] = Verdict(p)
    BY <1>1, <1>6 DEF Judged, Both
  <2>2. \A s \in Sides : p \notin Left(s)
    BY <1>3, <1>6 DEF Met, Left
  <2> QED
    BY <1>4, <2>1, <2>2 DEF Final
<1>7. CASE ~Met(p)
  <2>1. dst[p] = NoDiff
    BY <1>1, <1>7 DEF Judged
  <2>2. \A s \in Sides : Has(s, p) <=> p \in tmp[s].filled
    BY <1>1, <1>3, <1>7 DEF Judged, Placed
  <2>3. \A s \in Sides : p \in Left(s) <=> Present(s, p)
    <3> SUFFICES ASSUME NEW s \in Sides PROVE p \in Left(s) <=> Present(s, p)
      OBVIOUS
    <3>1. p \in tmp[s].filled => tmp[s].desc[p] = Known(s, p)
      BY <1>1 DEF Placed
    <3> QED
      BY <1>5, <2>2, <3>1, ContentsAssumption DEF Left, Present, Known, Has
  <2>4. \A s \in Sides : p \in Left(s) => tmp[s].desc[p] = source[s][p]
    BY <1>1, <2>3, ContentsAssumption DEF Left, Placed, Known, Present
  <2>5. ~Both(p)
    BY <1>1, <2>2, <2>3 DEF Apart, Both, Left
  <2>6. \A s \in Sides : dst[p].desc[s] = None
    BY <2>1 DEF NoDiff
  <2>7. CASE \E s \in Sides : Present(s, p)
    <3>1. dst'[p] = [diff |-> "alone",
                     desc |-> [s \in Sides |-> IF p \in Left(s) THEN tmp[s].desc[p]
                                               ELSE dst[p].desc[s]]]
      BY <1>4, <2>1, <2>3, <2>7
    <3>2. dst'[p] = OnlyOf(p)
      BY <2>3, <2>4, <2>6, <3>1 DEF OnlyOf
    <3> QED
      BY <2>5, <2>7, <3>2 DEF Final
  <2>8. CASE ~\E s \in Sides : Present(s, p)
    <3>1. dst'[p] = NoDiff
      BY <1>4, <2>1, <2>3, <2>8
    <3> QED
      BY <2>5, <2>8, <3>1 DEF Final
  <2> QED
    BY <2>7, <2>8
<1> QED
  BY <1>6, <1>7

-----------------------------------------------------------------------------
(* The induction. *)

LEMMA JudgedTogether == Judged /\ pc \in Rounds => LeaveTogether
BY DEF Judged, LeaveTogether, Met

(* What a comparison establishes on top of what FindDiffStep says. *)
LEMMA CompareStep ==
  ASSUME Inv, pc \in Rounds, NEW a \in {src, tmp}, NEW b \in {src, tmp}, NEW next \in Rounds,
         FindDiff(a, b, next), Leaving(Common(a[1], b[2])),
         UNCHANGED <<input, unread, eof>>,
         pc' = next => Apart'
  PROVE  RoundInv' /\ LeaveTogether' /\ CrashNeedsGone' /\ Collected' /\ Written'
<1>1. Placed /\ Judged /\ AtEnd /\ next # "crashed"
  BY DEF Inv, RoundInv, Rounds
<1>2. /\ Placed'
      /\ pc' = next => Judged'
      /\ pc' # next => pc' = "crashed" /\ CrashNeedsGone'
      /\ \A p \in Paths, s \in Sides :
           Has(s, p)' /\ ~Waiting(s, p)' => \A t \in Sides : Has(t, p)' /\ ~Waiting(t, p)'
  BY <1>1, FindDiffStep DEF Inv
<1>3. LeaveTogether'
  BY <1>2 DEF LeaveTogether
<1>4. AtEnd'
  BY <1>1 DEF AtEnd
<1>5. pc' \in Rounds => pc' = next
  BY <1>2 DEF Rounds
<1>6. RoundInv'
  BY <1>2, <1>4, <1>5 DEF RoundInv
<1>7. pc' \notin {"write", "done"} /\ (pc' = next => pc' # "crashed")
  BY <1>1, <1>2 DEF Rounds
<1>8. CrashNeedsGone'
  BY <1>2, <1>7 DEF CrashNeedsGone
<1>9. Collected' /\ Written'
  BY <1>7 DEF Collected, Written
<1> QED
  BY <1>3, <1>6, <1>8, <1>9

LEMMA InvStep ==
  ASSUME Inv, ParentsFirst, [Next]_vars
  PROVE  Inv'
<1>1. TypeOK'
  BY TypeStep DEF Inv
<1> SUFFICES RoundInv' /\ LeaveTogether' /\ CrashNeedsGone' /\ Collected' /\ Written'
  BY <1>1 DEF Inv
<1>2. CASE UNCHANGED vars
  <2>1. RoundInv' /\ LeaveTogether'
    <3>1. /\ UNCHANGED <<source, show, unread, eof, pc, src, tmp, dst>>
          /\ RoundInv /\ LeaveTogether
      BY <1>2 DEF Inv, vars, input
    <3>2. Placed => Placed'
      BY <3>1 DEF Placed, Has, Known
    <3>3. Judged => Judged'
      BY <3>1 DEF Judged, Met, Has, Waiting, Present, Verdict, NoDiff, SHOW
    <3>4. (Apart => Apart') /\ (AtEnd => AtEnd')
      BY <3>1 DEF Apart, AtEnd, NoTree
    <3>5. LeaveTogether'
      BY <3>1 DEF LeaveTogether, Has, Waiting
    <3> QED
      BY <3>1, <3>2, <3>3, <3>4, <3>5 DEF RoundInv, Rounds
  <2>2. CrashNeedsGone'
    BY <1>2 DEF Inv, vars, input, CrashNeedsGone, Has
  <2>3. Collected' /\ Written'
    BY <1>2 DEF Inv, vars, input, Collected, Written, Final, Both, Present, Verdict, OnlyOf,
                Lines, NoDiff, SHOW
  <2> QED
    BY <2>1, <2>2, <2>3
<1>3. CASE Read
  <2>1. RoundInv' /\ pc' = "new with new"
    BY <1>3, ReadStep DEF Inv, Read
  <2>2. LeaveTogether'
    BY <2>1 DEF RoundInv, Rounds, Judged, LeaveTogether, Met
  <2> QED
    BY <2>1, <2>2 DEF CrashNeedsGone, Collected, Written
<1>4. CASE NewWithNew
  <2>1. Placed /\ Apart /\ TypeOK /\ pc \in Rounds /\ pc = "new with new"
    BY <1>4 DEF Inv, RoundInv, Rounds, NewWithNew
  <2>2. Leaving(Common(src[1], src[2]))
    BY <1>4, <2>1, LeavingNewWithNew
  <2>3. pc' = "new with old" => Apart'
    BY <2>1, <2>2 DEF Leaving, Common, Apart
  <2>4. FindDiff(src, src, "new with old") /\ UNCHANGED <<input, unread, eof>>
    BY <1>4 DEF NewWithNew
  <2>5. "new with old" \in Rounds
    BY DEF Rounds
  <2> QED
    BY <2>1, <2>2, <2>3, <2>4, <2>5, CompareStep
<1>5. CASE NewWithOld
  <2>1. Placed /\ Apart /\ TypeOK /\ pc \in Rounds /\ pc = "new with old"
    BY <1>5 DEF Inv, RoundInv, Rounds, NewWithOld
  <2>2. Leaving(Common(src[1], tmp[2]))
    BY <1>5, <2>1, LeavingNewWithOld
  <2>3. pc' = "old with new" => Apart'
    BY <2>1, <2>2 DEF Leaving, Common, Apart
  <2>4. FindDiff(src, tmp, "old with new") /\ UNCHANGED <<input, unread, eof>>
    BY <1>5 DEF NewWithOld
  <2>5. "old with new" \in Rounds
    BY DEF Rounds
  <2> QED
    BY <2>1, <2>2, <2>3, <2>4, <2>5, CompareStep
<1>6. CASE OldWithNew
  <2>1. Placed /\ Apart /\ TypeOK /\ pc \in Rounds /\ pc = "old with new"
    BY <1>6 DEF Inv, RoundInv, Rounds, OldWithNew
  <2>2. Leaving(Common(tmp[1], src[2]))
    BY <1>6, <2>1, LeavingOldWithNew
  <2>3. pc' = "move" => Apart'
    BY <2>1, <2>2 DEF Leaving, Common, Apart
  <2>4. FindDiff(tmp, src, "move") /\ UNCHANGED <<input, unread, eof>>
    BY <1>6 DEF OldWithNew
  <2>5. "move" \in Rounds
    BY DEF Rounds
  <2> QED
    BY <2>1, <2>2, <2>3, <2>4, <2>5, CompareStep
<1>7. CASE Move
  <2>1. RoundInv' /\ pc' = "read"
    BY <1>7, MoveStep DEF Inv, Move
  <2>2. LeaveTogether'
    BY <2>1 DEF RoundInv, Rounds, Judged, LeaveTogether, Met
  <2> QED
    BY <2>1, <2>2 DEF CrashNeedsGone, Collected, Written
<1>8. CASE Alone
  <2>1. Collected' /\ pc' = "write"
    BY <1>8, AloneStep DEF Inv, Alone
  <2> QED
    BY <2>1 DEF RoundInv, Rounds, LeaveTogether, CrashNeedsGone, Written
<1>9. CASE Write
  <2>1. UNCHANGED <<source, show, dst>> /\ pc = "write" /\ pc' = "done"
    BY <1>9 DEF Write, input
  <2>2. Collected'
    BY <2>1 DEF Inv, Collected, Final, Both, Present, Verdict, OnlyOf, NoDiff, SHOW
  <2>3. Written'
    <3>1. output' = UNION {Lines(p, dst[p]) : p \in {q \in Paths : dst[q] # NoDiff}}
      BY <1>9 DEF Write
    <3> QED
      BY <2>1, <3>1 DEF Written, Lines, NoDiff
  <2> QED
    BY <2>1, <2>2, <2>3 DEF RoundInv, Rounds, LeaveTogether, CrashNeedsGone
<1>10. CASE Ended
  BY <1>2, <1>10 DEF Ended
<1> QED
  BY <1>2, <1>3, <1>4, <1>5, <1>6, <1>7, <1>8, <1>9, <1>10 DEF Next

LEMMA InvInit == Init => Inv
<1> SUFFICES ASSUME Init PROVE Inv
  OBVIOUS
<1>1. TypeOK /\ RoundInv /\ pc = "read"
  BY TypeInit, RoundInit DEF Init
<1>2. LeaveTogether
  BY <1>1 DEF RoundInv, Rounds, Judged, LeaveTogether, Met
<1> QED
  BY <1>1, <1>2 DEF Inv, CrashNeedsGone, Collected, Written

LEMMA InvCorrect == ASSUME ParentsFirst PROVE Spec => []Inv
<1>1. Init => Inv
  BY InvInit
<1>2. Inv /\ [Next]_vars => Inv'
  BY InvStep
<1> QED
  BY <1>1, <1>2, PTL DEF Spec

(* A file is never lost between the pieces, however the sources were cut,  *)
(* as long as both list directories before what they hold. *)
THEOREM TogetherCorrect == ASSUME ParentsFirst PROVE Spec => []LeaveTogether
<1>1. Inv => LeaveTogether
  BY DEF Inv
<1> QED
  BY <1>1, InvCorrect, PTL

(* The three comparisons of a round leave no common file behind. *)
THEOREM MissedCorrect == ASSUME ParentsFirst PROVE Spec => []NoneMissed
<1>1. Inv => NoneMissed
  BY DEF Inv, RoundInv, Rounds, Apart, NoneMissed
<1> QED
  BY <1>1, InvCorrect, PTL

(* A crash means that a file both sources have was gone. *)
THEOREM CrashCorrect == ASSUME ParentsFirst PROVE Spec => []CrashNeedsGone
<1>1. Inv => CrashNeedsGone
  BY DEF Inv
<1> QED
  BY <1>1, InvCorrect, PTL

(* The lines of a path, and those the whole sources call for. *)
Called(p) ==
  (IF Present(1, p) /\ "old" \in show /\ Changed(p)
   THEN {<<IF Both(p) THEN "<" ELSE "-", p, source[1][p]>>} ELSE {})
  \cup (IF Present(2, p) /\ "new" \in show /\ Changed(p)
        THEN {<<IF Both(p) THEN ">" ELSE "+", p, source[2][p]>>} ELSE {})
  \cup (IF Both(p) /\ show = SHOW /\ ~Changed(p) THEN {<<"=", p, source[1][p]>>} ELSE {})

LEMMA LinesFinal ==
  ASSUME NEW p \in Paths
  PROVE  /\ Final(p) # NoDiff => Lines(p, Final(p)) = Called(p)
         /\ Final(p) = NoDiff => Called(p) = {}
<1>0. None \notin Contents
  BY ContentsAssumption
<1>1. CASE Both(p) /\ Changed(p)
  <2>1. Final(p) = [diff |-> "differs", desc |-> [s \in Sides |-> source[s][p]]]
    BY <1>1 DEF Final, Verdict, Changed
  <2>2. \A s \in Sides : Present(s, p) /\ source[s][p] # None
    BY <1>0, <1>1 DEF Both, Present
  <2> QED
    BY <1>1, <2>1, <2>2 DEF Lines, Called, NoDiff
<1>2. CASE Both(p) /\ ~Changed(p)
  <2>1. CASE show = SHOW
    <3>1. Final(p) = [diff |-> "same", desc |-> [s \in Sides |-> source[s][p]]]
      BY <1>2, <2>1 DEF Final, Verdict, Changed
    <3> QED
      BY <1>2, <2>1, <3>1 DEF Lines, Called, NoDiff
  <2>2. CASE show # SHOW
    <3>1. Final(p) = NoDiff
      BY <1>2, <2>2 DEF Final, Verdict, Changed
    <3> QED
      BY <1>2, <2>2, <3>1 DEF Called
  <2> QED
    BY <2>1, <2>2
<1>3. CASE ~Both(p) /\ \E s \in Sides : Present(s, p)
  <2>1. Final(p) = OnlyOf(p) /\ Changed(p)
    BY <1>3 DEF Final, Changed
  <2>2. PICK s \in Sides : Present(s, p) /\ \A t \in Sides \ {s} : ~Present(t, p)
    BY <1>3 DEF Both
  <2>3. source[s][p] # None
    BY <1>0, <2>2 DEF Present
  <2>4. OnlyOf(p).desc = [t \in Sides |-> IF t = s THEN source[s][p] ELSE None]
    BY <2>2 DEF OnlyOf
  <2>5. OnlyOf(p).diff = "alone" /\ OnlyOf(p) # NoDiff
    BY DEF OnlyOf, NoDiff
  <2>6. CASE s = 1
    BY <1>3, <2>1, <2>2, <2>3, <2>4, <2>5, <2>6 DEF Lines, Called
  <2>7. CASE s = 2
    BY <1>3, <2>1, <2>2, <2>3, <2>4, <2>5, <2>7 DEF Lines, Called
  <2> QED
    BY <2>6, <2>7
<1>4. CASE ~\E s \in Sides : Present(s, p)
  BY <1>4 DEF Final, Both, Called
<1> QED
  BY <1>1, <1>2, <1>3, <1>4

LEMMA ExpectedCalled == Expected = UNION {Called(p) : p \in Paths}
BY DEF Expected, Called

(* What flx check reports is the comparison of the whole sources, whatever *)
(* pieces they were read in, if directories come first. *)
THEOREM CompleteCorrect == ASSUME ParentsFirst PROVE Spec => []Complete
<1>1. Inv => Complete
  <2> SUFFICES ASSUME Inv, pc = "done" PROVE output = Expected
    BY DEF Complete
  <2>1. output = UNION {Lines(p, dst[p]) : p \in {q \in Paths : dst[q] # NoDiff}}
    BY DEF Inv, Written
  <2>2. \A p \in Paths : dst[p] = Final(p)
    BY DEF Inv, Collected
  <2>3. \A p \in Paths : /\ dst[p] # NoDiff => Lines(p, dst[p]) = Called(p)
                         /\ dst[p] = NoDiff => Called(p) = {}
    BY <2>2, LinesFinal
  <2>4. output = UNION {Called(p) : p \in Paths}
    BY <2>1, <2>3
  <2> QED
    BY <2>4, ExpectedCalled
<1> QED
  BY <1>1, InvCorrect, PTL
=============================================================================
