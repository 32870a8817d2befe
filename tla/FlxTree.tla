------------------------------ MODULE FlxTree ------------------------------
(***************************************************************************)
(* The tree of flx (flx/flx.c, flx/flx.h and ft_free in flx/output.c): the *)
(* sorted lists of names where the sources put what they read and from     *)
(* which the output is written.                                            *)
(*                                                                         *)
(* A path is a sequence of names, a name its rank among its brothers, the  *)
(* root <<>>.  A tree is the record of the paths that have a node and, for *)
(* each mark of the status word, of those that have it.                    *)
(***************************************************************************)
EXTENDS Naturals, Sequences, SequencesExt, FiniteSets

VARIABLES   \* shared by the sources and the output
  tree,     \* Root
  sorted,   \* Sorted & INPUT_SORTED
  pc        \* which of the calls in flxsign_main's loop runs

Paths == Seq(Nat \ {0})

Parent(p) == Front(p)
Above(p) == Prefixes(p) \ {p}

(* The order of the lists, a directory before what it holds. *)
Before(p, q) ==
  \/ IsStrictPrefix(p, q)
  \/ \E i \in DOMAIN p \cap DOMAIN q :
       /\ p[i] < q[i]
       /\ \A j \in 1 .. i - 1 : p[j] = q[j]

Least(S) == CHOOSE p \in S : \A q \in S \ {p} : Before(p, q)

NewTree ==
  [node |-> {<<>>}, filled |-> {}, changed |-> {<<>>},
   sorting |-> {}, reading |-> {}]

HasSub(t, p) == \E q \in t.node : IsStrictPrefix(p, q)

(* ft_get: the node of a path, made with those above it. *)
Get(t, p) == [t EXCEPT !.node = @ \cup Prefixes(p)]

(* SET_PARENT: the mark goes up to the first node that already has it. *)
Unmarked(t, p) ==
  {q \in Prefixes(p) :
     \A r \in t.changed \cap Prefixes(p) : IsStrictPrefix(r, q)}

Fill(t, p) ==
  [t EXCEPT !.node = @ \cup Prefixes(p),
            !.filled = @ \cup {p},
            !.changed = @ \cup Unmarked(t, p)]

Set(t, mark, p) == [t EXCEPT ![mark] = @ \cup {p}]
Unset(t, mark, p) == [t EXCEPT ![mark] = @ \ {p}]

(* What ft_free() goes through: the changed nodes below changed ones, not   *)
(* below one that is being read, up to the first such one.                  *)
Reached(t) ==
  {p \in (t.changed \cap t.node) \ {<<>>} :
     \A q \in Above(p) : q \in t.changed \ t.sorting}

Stops(t) == Reached(t) \cap t.sorting

Visited(t) ==
  IF Stops(t) = {}
  THEN Reached(t)
  ELSE {p \in Reached(t) : ~Before(Least(Stops(t)), p)}

(* The nodes visited lose their descriptions and go with all they hold, but *)
(* for the one that stops the walk and those above it.                      *)
Removed(t) ==
  {p \in t.node :
     \E q \in Visited(t) :
        /\ IsPrefix(q, p)
        /\ Stops(t) = {} \/ ~IsPrefix(q, Least(Stops(t)))}

Without(t, S) ==
  [node |-> t.node \ S, filled |-> t.filled \ S, changed |-> t.changed \ S,
   sorting |-> t.sorting \ S, reading |-> t.reading \ S]

Freed(t) ==
  LET root == [t EXCEPT !.filled = @ \ {<<>>}]
  IN IF <<>> \notin t.changed \ t.sorting \/ ~HasSub(t, <<>>)
     THEN Unset(root, "changed", <<>>)
     ELSE Without([root EXCEPT !.filled = @ \ Visited(t)], Removed(t))
============================================================================
