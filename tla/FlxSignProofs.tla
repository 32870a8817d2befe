--------------------------- MODULE FlxSignProofs ---------------------------
(***************************************************************************)
(* Proofs about flx sign: the lines are written in the order of the tree,  *)
(* none twice, what was written does not stay in it, every line is in the  *)
(* dump it belongs to, and nothing that was read is lost; the order, also   *)
(* for a list that is sorted.                                              *)
(*                                                                         *)
(* The argument needs the place of everything at once: what is in the tree *)
(* is after what was written or behind the place the output has reached;   *)
(* what is behind it and complete can be reached by ft_free over changed   *)
(* nodes only; every directory still to be read is marked, and nothing     *)
(* marked is behind.  That nothing is lost needs in addition that what has *)
(* arrived is written or in the tree, that it is written when it is behind *)
(* the output, that no directory is entered twice, for its dump would be   *)
(* made again, and that no dump on the stack was closed.                   *)
(***************************************************************************)
EXTENDS FlxSign, SequenceTheorems, FiniteSetTheorems, WellFoundedInduction, TLAPS

-----------------------------------------------------------------------------
(* The order of paths: that of their names, an end before any name.        *)

At(p, i) == IF i \in 1 .. Len(p) THEN p[i] ELSE 0

(* A name is above zero, and what is beyond the end of a path counts as    *)
(* zero.                                                                   *)
LEMMA AtIs ==
  ASSUME NEW p \in Paths
  PROVE  /\ Len(p) \in Nat /\ DOMAIN p = 1 .. Len(p)
         /\ \A i \in Nat : At(p, i) \in Nat
         /\ \A i \in 1 .. Len(p) : At(p, i) = p[i] /\ p[i] \in Nat \ {0}
         /\ \A i \in Nat : i > Len(p) => At(p, i) = 0
BY DEF At, Paths

(* Paths with the same names are the same.                                 *)
LEMMA SameAt ==
  ASSUME NEW p \in Paths, NEW q \in Paths,
         \A i \in Nat \ {0} : At(p, i) = At(q, i)
  PROVE  p = q
<1>1. Len(p) = Len(q)
  <2>1. CASE Len(p) < Len(q)
    <3>1. Len(q) \in 1 .. Len(q) /\ Len(q) > Len(p) /\ Len(q) \in Nat \ {0}
      BY <2>1, AtIs
    <3>2. At(p, Len(q)) = 0
      BY <3>1, AtIs
    <3>3. At(q, Len(q)) # 0
      BY <3>1, AtIs
    <3> QED
      BY <3>1, <3>2, <3>3
  <2>2. CASE Len(q) < Len(p)
    <3>1. Len(p) \in 1 .. Len(p) /\ Len(p) > Len(q) /\ Len(p) \in Nat \ {0}
      BY <2>2, AtIs
    <3>2. At(q, Len(p)) = 0
      BY <3>1, AtIs
    <3>3. At(p, Len(p)) # 0
      BY <3>1, AtIs
    <3> QED
      BY <3>1, <3>2, <3>3
  <2> QED
    BY <2>1, <2>2, AtIs
<1>2. \A i \in 1 .. Len(p) : p[i] = q[i]
  <2> TAKE i \in 1 .. Len(p)
  <2>1. i \in Nat \ {0}
    BY AtIs
  <2> QED
    BY <1>1, <2>1, AtIs
<1> QED
  BY <1>1, <1>2, SeqEqual DEF Paths

(* A prefix, name by name.                                                 *)
LEMMA PrefixIs ==
  ASSUME NEW p \in Paths, NEW q \in Paths
  PROVE  IsPrefix(p, q) <=> \A i \in 1 .. Len(p) : At(q, i) = p[i]
<1>1. IsPrefix(p, q) <=> (Len(p) <= Len(q) /\ \A i \in 1 .. Len(p) : p[i] = q[i])
  <2>1. ASSUME Len(p) <= Len(q)
        PROVE  /\ SubSeq(p, 1, Len(p)) = p
               /\ SubSeq(q, 1, Len(p)) = [i \in 1 .. Len(p) |-> q[i]]
    BY <2>1 DEF Paths
  <2>2. p = [i \in 1 .. Len(p) |-> p[i]]
    BY DEF Paths
  <2> QED
    BY <2>1, <2>2, AtIs DEF IsPrefix
<1>2. ASSUME \A i \in 1 .. Len(p) : At(q, i) = p[i]
      PROVE  Len(p) <= Len(q)
  <2>1. CASE Len(p) > Len(q)
    <3>1. Len(p) \in 1 .. Len(p) /\ Len(p) \in Nat
      BY <2>1, AtIs
    <3>2. At(q, Len(p)) = 0 /\ p[Len(p)] # 0
      BY <2>1, <3>1, AtIs
    <3> QED
      BY <1>2, <3>1, <3>2
  <2> QED
    BY <2>1, AtIs
<1>3. ASSUME Len(p) <= Len(q), NEW i \in 1 .. Len(p)
      PROVE  At(q, i) = q[i]
  <2>1. i \in 1 .. Len(q)
    BY <1>3, AtIs
  <2> QED
    BY <2>1, AtIs
<1> QED
  BY <1>1, <1>2, <1>3

(* The order of two paths is that of the first names that differ.          *)
LEMMA BeforeIs ==
  ASSUME NEW p \in Paths, NEW q \in Paths
  PROVE  Before(p, q) <=> \E i \in Nat \ {0} :
           At(p, i) < At(q, i) /\ \A j \in 1 .. i - 1 : At(p, j) = At(q, j)
<1>1. ASSUME IsStrictPrefix(p, q)
      PROVE  \E i \in Nat \ {0} :
               At(p, i) < At(q, i) /\ \A j \in 1 .. i - 1 : At(p, j) = At(q, j)
  <2>1. \A i \in 1 .. Len(p) : At(q, i) = p[i]
    BY <1>1, PrefixIs DEF IsStrictPrefix
  <2>2. Len(p) < Len(q)
    <3>1. Len(p) <= Len(q) /\ p # q
      BY <1>1 DEF IsStrictPrefix, IsPrefix
    <3>2. CASE Len(p) = Len(q)
      <4>1. \A i \in 1 .. Len(p) : p[i] = q[i]
        BY <2>1, <3>2, AtIs
      <4> QED
        BY <3>1, <3>2, <4>1, SeqEqual DEF Paths
    <3> QED
      BY <3>1, <3>2, AtIs
  <2>0. Len(p) \in Nat /\ Len(q) \in Nat
    BY AtIs
  <2>3. Len(p) + 1 \in Nat \ {0} /\ Len(p) + 1 \in 1 .. Len(q) /\ Len(p) + 1 > Len(p)
    BY <2>0, <2>2
  <2>4. At(p, Len(p) + 1) < At(q, Len(p) + 1)
    <3>1. At(p, Len(p) + 1) = 0
      BY <2>3, AtIs
    <3>2. At(q, Len(p) + 1) \in Nat \ {0}
      BY <2>3, AtIs
    <3> QED
      BY <3>1, <3>2
  <2>5. \A j \in 1 .. (Len(p) + 1) - 1 : At(p, j) = At(q, j)
    <3>1. (Len(p) + 1) - 1 = Len(p)
      BY AtIs
    <3> QED
      BY <2>1, <3>1, AtIs
  <2> QED
    BY <2>3, <2>4, <2>5
<1>2. ASSUME NEW i \in DOMAIN p \cap DOMAIN q, p[i] < q[i],
             \A j \in 1 .. i - 1 : p[j] = q[j]
      PROVE  \E k \in Nat \ {0} :
               At(p, k) < At(q, k) /\ \A j \in 1 .. k - 1 : At(p, j) = At(q, j)
  <2>0. Len(p) \in Nat /\ Len(q) \in Nat /\ DOMAIN p = 1 .. Len(p) /\ DOMAIN q = 1 .. Len(q)
    BY AtIs
  <2>1. i \in Nat \ {0} /\ i \in 1 .. Len(p) /\ i \in 1 .. Len(q)
    BY <2>0
  <2>2. \A j \in 1 .. i - 1 : j \in 1 .. Len(p) /\ j \in 1 .. Len(q)
    BY <2>0, <2>1
  <2>3. At(p, i) < At(q, i)
    <3>1. At(p, i) = p[i] /\ At(q, i) = q[i]
      BY <2>1, AtIs
    <3> QED
      BY <1>2, <3>1
  <2>4. \A j \in 1 .. i - 1 : At(p, j) = At(q, j)
    <3>1. \A j \in 1 .. i - 1 : At(p, j) = p[j] /\ At(q, j) = q[j]
      BY <2>2, AtIs
    <3> QED
      BY <1>2, <3>1
  <2> QED
    BY <2>1, <2>3, <2>4
<1>3. ASSUME NEW i \in Nat \ {0}, At(p, i) < At(q, i),
             \A j \in 1 .. i - 1 : At(p, j) = At(q, j)
      PROVE  Before(p, q)
  <2>1. i \in 1 .. Len(q) /\ At(q, i) = q[i]
    <3>1. i > Len(q) => At(q, i) = 0
      BY AtIs
    <3>2. At(p, i) \in Nat /\ At(q, i) \in Nat /\ Len(q) \in Nat
      BY AtIs
    <3>3. i <= Len(q)
      BY <1>3, <3>1, <3>2
    <3>4. i \in 1 .. Len(q)
      BY <3>2, <3>3
    <3> QED
      BY <3>4, AtIs
  <2>2. CASE i \in 1 .. Len(p)
    <3>0. Len(p) \in Nat /\ Len(q) \in Nat
      BY AtIs
    <3>1. \A j \in 1 .. i - 1 : j \in 1 .. Len(p) /\ j \in 1 .. Len(q)
      BY <2>1, <2>2, <3>0
    <3>2. \A j \in 1 .. i - 1 : p[j] = q[j]
      BY <1>3, <3>1, AtIs
    <3>3. p[i] < q[i]
      BY <1>3, <2>1, <2>2, AtIs
    <3> QED
      BY <2>1, <2>2, <3>2, <3>3, AtIs DEF Before
  <2>3. CASE i \notin 1 .. Len(p)
    <3>1. Len(p) < i
      BY <2>3, AtIs
    <3>2. \A j \in 1 .. Len(p) : j \in 1 .. i - 1
      BY <3>1, AtIs
    <3>3. \A j \in 1 .. Len(p) : At(q, j) = p[j]
      BY <1>3, <3>2, AtIs
    <3>4. p # q
      BY <1>3, AtIs
    <3> QED
      BY <3>3, <3>4, PrefixIs DEF Before, IsStrictPrefix
  <2> QED
    BY <2>2, <2>3
<1> QED
  BY <1>1, <1>2, <1>3 DEF Before

(* Where two paths differ first. *)
Parts(p, q, i) == At(p, i) < At(q, i) /\ \A j \in 1 .. i - 1 : At(p, j) = At(q, j)

(* No path is before itself.                                               *)
LEMMA Irreflexive == ASSUME NEW p \in Paths PROVE ~Before(p, p)
<1>1. \A i \in Nat \ {0} : ~(At(p, i) < At(p, i))
  BY AtIs
<1> QED
  BY <1>1, BeforeIs

(* The order is transitive.                                                *)
LEMMA Transitive ==
  ASSUME NEW p \in Paths, NEW q \in Paths, NEW r \in Paths, Before(p, q), Before(q, r)
  PROVE  Before(p, r)
<1>1. PICK i \in Nat \ {0} : Parts(p, q, i)
  BY BeforeIs DEF Parts
<1>2. PICK k \in Nat \ {0} : Parts(q, r, k)
  BY BeforeIs DEF Parts
<1>3. At(p, i) \in Nat /\ At(q, i) \in Nat /\ At(r, i) \in Nat
  BY AtIs
<1>4. At(p, k) \in Nat /\ At(q, k) \in Nat /\ At(r, k) \in Nat
  BY AtIs
<1>5. CASE i <= k
  <2>1. \A j \in 1 .. i - 1 : j \in 1 .. k - 1
    BY <1>5
  <2>2. At(q, i) <= At(r, i)
    <3>1. i \in 1 .. k - 1 \/ i = k
      BY <1>5
    <3> QED
      BY <1>2, <1>3, <1>4, <3>1 DEF Parts
  <2>3. At(p, i) < At(r, i)
    BY <1>1, <1>3, <2>2 DEF Parts
  <2>4. \A j \in 1 .. i - 1 : At(p, j) = At(r, j)
    BY <1>1, <1>2, <2>1 DEF Parts
  <2> QED
    BY <2>3, <2>4, BeforeIs
<1>6. CASE k < i
  <2>1. \A j \in 1 .. k - 1 : j \in 1 .. i - 1
    BY <1>6
  <2>2. k \in 1 .. i - 1
    BY <1>6
  <2>3. At(p, k) < At(r, k)
    BY <1>1, <1>2, <2>2 DEF Parts
  <2>4. \A j \in 1 .. k - 1 : At(p, j) = At(r, j)
    BY <1>1, <1>2, <2>1 DEF Parts
  <2> QED
    BY <2>3, <2>4, BeforeIs
<1> QED
  BY <1>5, <1>6

(* A set of numbers has a least one.                                       *)
LEMMA LeastNat ==
  ASSUME NEW T \in SUBSET Nat, T # {}
  PROVE  \E n \in T : \A m \in T : n <= m
<1> DEFINE R == OpToRel(<, Nat)
<1>1. \E x \in T : \A y \in T : ~ (<<y, x>> \in R)
  <2>1. IsWellFoundedOn(R, Nat)
    BY NatLessThanWellFounded
  <2> HIDE DEF R
  <2> QED  BY <2>1, WFMin
<1>2. \A x, y \in Nat : <<y, x>> \notin R => x <= y
  BY DEF OpToRel
<1> HIDE DEF R
<1> QED  BY <1>1, <1>2

(* Of two paths one is before the other.                                   *)
LEMMA Comparable ==
  ASSUME NEW p \in Paths, NEW q \in Paths
  PROVE  p = q \/ Before(p, q) \/ Before(q, p)
<1> SUFFICES ASSUME p # q PROVE Before(p, q) \/ Before(q, p)
  OBVIOUS
<1> DEFINE T == {i \in Nat \ {0} : At(p, i) # At(q, i)}
<1>1. T # {} /\ T \in SUBSET Nat
  <2>1. \E i \in Nat \ {0} : At(p, i) # At(q, i)
    BY SameAt
  <2> QED
    BY <2>1
<1>2. PICK i \in T : \A m \in T : i <= m
  <2> HIDE DEF T
  <2> QED
    BY <1>1, LeastNat
<1>3. \A j \in 1 .. i - 1 : At(p, j) = At(q, j)
  <2>1. \A j \in 1 .. i - 1 : j \in Nat \ {0} /\ ~(i <= j)
    OBVIOUS
  <2> QED
    BY <1>2, <2>1
<1>4. At(p, i) < At(q, i) \/ At(q, i) < At(p, i)
  <2>1. At(p, i) \in Nat /\ At(q, i) \in Nat
    BY AtIs
  <2> QED
    BY <2>1
<1>5. i \in Nat \ {0}
  OBVIOUS
<1> HIDE DEF T
<1> QED
  BY <1>3, <1>4, <1>5, BeforeIs

-----------------------------------------------------------------------------
(* Prefixes.                                                               *)

(* The paths above a path, and itself.                                     *)
LEMMA PrefixesAre ==
  ASSUME NEW p \in Paths
  PROVE  /\ Prefixes(p) \subseteq Paths
         /\ \A q \in Paths : q \in Prefixes(p) <=> IsPrefix(q, p)
         /\ p \in Prefixes(p) /\ <<>> \in Prefixes(p)
         /\ IsFiniteSet(Prefixes(p))
<1>1. \A n \in 0 .. Len(p) : SubSeq(p, 1, n) \in Paths /\ Len(SubSeq(p, 1, n)) = n
  BY DEF Paths
<1>2. Len(p) \in Nat
  BY AtIs
<1>3. Prefixes(p) \subseteq Paths
  BY <1>1 DEF Prefixes
<1>4. ASSUME NEW q \in Paths PROVE q \in Prefixes(p) <=> IsPrefix(q, p)
  <2>1. ASSUME NEW n \in 0 .. Len(p), q = SubSeq(p, 1, n) PROVE IsPrefix(q, p)
    <3>1. Len(q) = n /\ n <= Len(p)
      BY <1>1, <1>2, <2>1
    <3>2. SubSeq(q, 1, Len(q)) = q
      BY SubSeqFull DEF Paths
    <3> QED
      BY <2>1, <3>1, <3>2 DEF IsPrefix
  <2>2. ASSUME IsPrefix(q, p) PROVE q \in Prefixes(p)
    <3>1. SubSeq(q, 1, Len(q)) = q
      BY SubSeqFull DEF Paths
    <3>2. Len(q) \in 0 .. Len(p)
      <4>1. Len(q) \in Nat
        BY AtIs
      <4> QED
        BY <1>2, <2>2, <4>1 DEF IsPrefix
    <3> QED
      BY <2>2, <3>1, <3>2 DEF IsPrefix, Prefixes
  <2>3. q \in Prefixes(p) => \E n \in 0 .. Len(p) : q = SubSeq(p, 1, n)
    BY DEF Prefixes
  <2> QED
    BY <2>1, <2>2, <2>3
<1>5. p \in Prefixes(p)
  <2>1. SubSeq(p, 1, Len(p)) = p
    BY SubSeqFull DEF Paths
  <2>2. Len(p) \in 0 .. Len(p)
    BY <1>2
  <2>3. SubSeq(p, 1, Len(p)) \in Prefixes(p)
    BY <2>2, Zenon DEF Prefixes
  <2> QED
    BY <2>1, <2>3
<1>6. <<>> \in Prefixes(p)
  <2>1. SubSeq(p, 1, 0) = <<>>
    BY DEF Paths
  <2> QED
    BY <1>2, <2>1 DEF Prefixes
<1>7. IsFiniteSet(Prefixes(p))
  <2>1. IsFiniteSet(0 .. Len(p))
    BY <1>2, FS_Interval
  <2> DEFINE f == [n \in 0 .. Len(p) |-> SubSeq(p, 1, n)]
  <2>2. f \in Surjection(0 .. Len(p), Prefixes(p))
    BY DEF Surjection, Prefixes
  <2> QED
    BY <2>1, <2>2, FS_Surjection
<1> QED
  BY <1>3, <1>4, <1>5, <1>6, <1>7

(* A path is its own prefix.                                               *)
LEMMA PrefixRefl == ASSUME NEW p \in Paths PROVE IsPrefix(p, p)
BY PrefixesAre

(* The root is above every path.                                           *)
LEMMA EmptyPrefix == ASSUME NEW p \in Paths PROVE IsPrefix(<<>>, p) /\ <<>> \in Paths
<1>1. <<>> \in Paths
  BY DEF Paths
<1> QED
  BY <1>1, PrefixesAre

(* A prefix has the names of the path.                                     *)
LEMMA PrefixAt ==
  ASSUME NEW p \in Paths, NEW q \in Paths, IsPrefix(p, q), NEW j \in 1 .. Len(p)
  PROVE  At(p, j) = At(q, j)
<1>1. At(q, j) = p[j]
  BY PrefixIs
<1>2. At(p, j) = p[j]
  BY AtIs
<1> QED
  BY <1>1, <1>2

(* A prefix is shorter, or the path itself.                                *)
LEMMA PrefixLen ==
  ASSUME NEW p \in Paths, NEW q \in Paths, IsPrefix(p, q)
  PROVE  Len(p) <= Len(q) /\ (Len(p) = Len(q) => p = q)
<1>1. Len(p) <= Len(q) /\ SubSeq(p, 1, Len(p)) = SubSeq(q, 1, Len(p))
  BY DEF IsPrefix
<1>2. SubSeq(p, 1, Len(p)) = p /\ SubSeq(q, 1, Len(q)) = q
  BY SubSeqFull DEF Paths
<1> QED
  BY <1>1, <1>2

(* A prefix of a prefix is a prefix.                                       *)
LEMMA PrefixTrans ==
  ASSUME NEW p \in Paths, NEW q \in Paths, NEW r \in Paths, IsPrefix(p, q), IsPrefix(q, r)
  PROVE  IsPrefix(p, r)
<1>1. \A i \in 1 .. Len(p) : At(r, i) = p[i]
  <2> TAKE i \in 1 .. Len(p)
  <2>1. i \in 1 .. Len(q)
    <3>1. Len(p) \in Nat /\ Len(q) \in Nat
      BY AtIs
    <3> QED
      BY <3>1, PrefixLen
  <2>2. At(p, i) = At(q, i) /\ At(q, i) = At(r, i)
    BY <2>1, PrefixAt
  <2> QED
    BY <2>2, AtIs
<1> QED
  BY <1>1, PrefixIs

(* A directory comes before what it holds.                                 *)
LEMMA PrefixBefore ==
  ASSUME NEW p \in Paths, NEW q \in Paths, IsPrefix(p, q)
  PROVE  p = q \/ Before(p, q)
BY DEF Before, IsStrictPrefix

(* Of two directories above a path one is above the other.                 *)
LEMMA PrefixesCompare ==
  ASSUME NEW p \in Paths, NEW q \in Paths, NEW r \in Paths, IsPrefix(p, r), IsPrefix(q, r)
  PROVE  IsPrefix(p, q) \/ IsPrefix(q, p)
<1>0. Len(p) \in Nat /\ Len(q) \in Nat
  BY AtIs
<1>1. CASE Len(p) <= Len(q)
  <2>1. ASSUME NEW i \in 1 .. Len(p) PROVE At(q, i) = p[i]
    <3>1. i \in 1 .. Len(q)
      BY <1>0, <1>1
    <3>2. At(p, i) = At(r, i) /\ At(q, i) = At(r, i)
      BY <3>1, PrefixAt
    <3> QED
      BY <3>2, AtIs
  <2> QED
    BY <2>1, PrefixIs
<1>2. CASE Len(q) <= Len(p)
  <2>1. ASSUME NEW i \in 1 .. Len(q) PROVE At(p, i) = q[i]
    <3>1. i \in 1 .. Len(p)
      BY <1>0, <1>2
    <3>2. At(p, i) = At(r, i) /\ At(q, i) = At(r, i)
      BY <3>1, PrefixAt
    <3> QED
      BY <3>2, AtIs
  <2> QED
    BY <2>1, PrefixIs
<1> QED
  BY <1>0, <1>1, <1>2

(* What is below a path that is before another, and not above it, is before *)
(* it too.                                                                 *)
LEMMA BelowBefore ==
  ASSUME NEW p \in Paths, NEW q \in Paths, NEW r \in Paths,
         Before(p, q), ~IsPrefix(p, q), IsPrefix(p, r)
  PROVE  Before(r, q)
<1>0. Len(p) \in Nat
  BY AtIs
<1>1. PICK i \in Nat \ {0} : Parts(p, q, i)
  BY BeforeIs DEF Parts
<1>2. i \in 1 .. Len(p)
  <2>1. CASE i > Len(p)
    <3>1. \A j \in 1 .. Len(p) : j \in 1 .. i - 1
      BY <1>0, <2>1
    <3>2. \A j \in 1 .. Len(p) : At(q, j) = p[j]
      <4> TAKE j \in 1 .. Len(p)
      <4>1. At(p, j) = At(q, j)
        BY <1>1, <3>1 DEF Parts
      <4> QED
        BY <4>1, AtIs
    <3> QED
      BY <3>2, PrefixIs
  <2> QED
    BY <1>0, <2>1
<1>3. \A j \in 1 .. i : At(r, j) = At(p, j)
  <2>1. \A j \in 1 .. i : j \in 1 .. Len(p)
    BY <1>0, <1>2
  <2> QED
    BY <2>1, PrefixAt
<1>4. At(r, i) < At(q, i) /\ \A j \in 1 .. i - 1 : At(r, j) = At(q, j)
  <2>1. i \in 1 .. i /\ \A j \in 1 .. i - 1 : j \in 1 .. i
    OBVIOUS
  <2> QED
    BY <1>1, <1>3, <2>1 DEF Parts
<1> QED
  BY <1>4, BeforeIs

-----------------------------------------------------------------------------
(* An entry of a directory.                                                *)

(* An entry of a directory.                                                *)
LEMMA AppendIs ==
  ASSUME NEW c \in Paths, NEW n \in Nat \ {0}
  PROVE  /\ Append(c, n) \in Paths /\ Append(c, n) # <<>>
         /\ Len(Append(c, n)) = Len(c) + 1
         /\ Parent(Append(c, n)) = c /\ Last(Append(c, n)) = n
         /\ IsPrefix(c, Append(c, n)) /\ Before(c, Append(c, n))
         /\ \A i \in 1 .. Len(c) : At(Append(c, n), i) = At(c, i)
         /\ At(Append(c, n), Len(c) + 1) = n
<1> DEFINE e == Append(c, n)
<1>0. Len(c) \in Nat /\ c \in Seq(Nat \ {0})
  BY AtIs DEF Paths
<1>1. e \in Paths /\ Len(e) = Len(c) + 1 /\ e[Len(c) + 1] = n
      /\ \A i \in 1 .. Len(c) : e[i] = c[i]
  BY <1>0, AppendProperties DEF Paths
<1>2. e # <<>>
  BY <1>0, <1>1
<1>3. Parent(e) = c
  <2>1. Front(e) = SubSeq(e, 1, Len(c))
    BY <1>0, <1>1 DEF Front
  <2>2. SubSeq(e, 1, Len(c)) = c
    BY <1>0
  <2> QED
    BY <2>1, <2>2 DEF Parent
<1>4. Last(e) = n
  BY <1>1 DEF Last
<1> HIDE DEF e
<1>5. \A i \in 1 .. Len(c) : At(e, i) = c[i] /\ At(c, i) = c[i]
  <2>1. \A i \in 1 .. Len(c) : i \in 1 .. Len(e)
    BY <1>0, <1>1
  <2> QED
    BY <1>1, <2>1, AtIs
<1>6. IsPrefix(c, e)
  BY <1>1, <1>5, PrefixIs
<1>7. c # e
  BY <1>0, <1>1
<1>8. Before(c, e)
  BY <1>1, <1>6, <1>7, PrefixBefore
<1>9. At(e, Len(c) + 1) = n
  <2>1. Len(c) + 1 \in 1 .. Len(e)
    BY <1>0, <1>1
  <2> QED
    BY <1>1, <2>1, AtIs
<1>10. \A i \in 1 .. Len(c) : At(e, i) = At(c, i)
  BY <1>5
<1> QED
  BY <1>1, <1>2, <1>3, <1>4, <1>6, <1>8, <1>9, <1>10 DEF e

(* A path is an entry of the directory above it.                           *)
LEMMA ParentIs ==
  ASSUME NEW p \in Paths, p # <<>>
  PROVE  /\ Parent(p) \in Paths /\ Last(p) \in Nat \ {0}
         /\ p = Append(Parent(p), Last(p))
<1>1. Len(p) \in Nat \ {0}
  BY DEF Paths
<1>2. Parent(p) \in Paths
  BY <1>1 DEF Parent, Front, Paths
<1>3. Last(p) \in Nat \ {0}
  BY <1>1 DEF Last, Paths
<1>4. p = Append(Parent(p), Last(p))
  BY <1>1 DEF Parent, Front, Last, Paths
<1> QED
  BY <1>2, <1>3, <1>4

(* Between an entry and the next one there is only what is below the first.*)
LEMMA NextAfter ==
  ASSUME NEW c \in Paths, NEW n \in Nat \ {0}, NEW q \in Paths,
         Before(q, Append(c, n + 1))
  PROVE  Before(q, Append(c, n)) \/ IsPrefix(Append(c, n), q)
<1> DEFINE e == Append(c, n)
           f == Append(c, n + 1)
           k == Len(c) + 1
<1>1. /\ e \in Paths /\ f \in Paths /\ Len(e) = k /\ Len(f) = k /\ k \in Nat \ {0}
      /\ At(e, k) = n /\ At(f, k) = n + 1
      /\ \A j \in 1 .. k - 1 : At(e, j) = At(f, j)
  <2>1. n + 1 \in Nat \ {0} /\ Len(c) \in Nat /\ (Len(c) + 1) - 1 = Len(c)
    BY AtIs
  <2>2. e \in Paths /\ Len(e) = k /\ At(e, k) = n /\ \A i \in 1 .. Len(c) : At(e, i) = At(c, i)
    BY AppendIs
  <2>3. f \in Paths /\ Len(f) = k /\ At(f, k) = n + 1 /\ \A i \in 1 .. Len(c) : At(f, i) = At(c, i)
    BY <2>1, AppendIs
  <2> QED
    BY <2>1, <2>2, <2>3
<1> HIDE DEF e, f, k
<1>2. PICK i \in Nat \ {0} : Parts(q, f, i)
  <2>1. Before(q, f)
    BY DEF f
  <2> QED
    BY <1>1, <2>1, BeforeIs DEF Parts
<1>3. i <= k
  <2>1. i > k => At(f, i) = 0
    BY <1>1, AtIs
  <2>2. At(q, i) \in Nat
    BY AtIs
  <2> QED
    BY <1>1, <1>2, <2>1, <2>2 DEF Parts
<1>4. CASE i < k
  <2>1. At(q, i) < At(e, i) /\ \A j \in 1 .. i - 1 : At(q, j) = At(e, j)
    <3>1. i \in 1 .. k - 1 /\ \A j \in 1 .. i - 1 : j \in 1 .. k - 1
      BY <1>1, <1>4
    <3> QED
      BY <1>1, <1>2, <3>1 DEF Parts
  <2> QED
    BY <1>1, <2>1, BeforeIs DEF e
<1>5. CASE i = k
  <2>1. At(q, k) < n + 1 /\ \A j \in 1 .. k - 1 : At(q, j) = At(e, j)
    BY <1>1, <1>2, <1>5 DEF Parts
  <2>2. CASE At(q, k) < n
    BY <1>1, <2>1, <2>2, BeforeIs DEF e
  <2>3. CASE At(q, k) = n
    <3>1. ASSUME NEW j \in 1 .. Len(e) PROVE At(q, j) = e[j]
      <4>1. At(e, j) = e[j]
        BY <1>1, AtIs
      <4>2. j \in 1 .. k - 1 \/ j = k
        BY <1>1
      <4> QED
        BY <1>1, <2>1, <2>3, <4>1, <4>2
    <3> QED
      BY <1>1, <3>1, PrefixIs DEF e
  <2> QED
    <3> At(q, k) \in Nat
      BY <1>1, AtIs
    <3> QED
      BY <2>1, <2>2, <2>3
<1> QED
  BY <1>1, <1>3, <1>4, <1>5

(* Nothing is between a directory and its first possible entry.            *)
LEMMA FirstBelow ==
  ASSUME NEW e \in Paths, NEW q \in Paths, Before(q, Append(e, 1))
  PROVE  q = e \/ Before(q, e)
<1> DEFINE f == Append(e, 1)
           k == Len(e) + 1
<1>1. /\ f \in Paths /\ Len(f) = k /\ k \in Nat \ {0} /\ At(f, k) = 1 /\ Len(e) = k - 1
      /\ \A j \in 1 .. k - 1 : At(f, j) = At(e, j)
  <2>1. 1 \in Nat \ {0} /\ Len(e) \in Nat /\ (Len(e) + 1) - 1 = Len(e)
    BY AtIs
  <2>2. f \in Paths /\ Len(f) = k /\ At(f, k) = 1 /\ \A i \in 1 .. Len(e) : At(f, i) = At(e, i)
    BY <2>1, AppendIs
  <2> QED
    BY <2>1, <2>2
<1> HIDE DEF f, k
<1>2. PICK i \in Nat \ {0} : Parts(q, f, i)
  <2>1. Before(q, f)
    BY DEF f
  <2> QED
    BY <1>1, <2>1, BeforeIs DEF Parts
<1>3. At(q, i) \in Nat
  BY AtIs
<1>4. i <= k
  <2>1. i > k => At(f, i) = 0
    BY <1>1, AtIs
  <2> QED
    BY <1>1, <1>2, <1>3, <2>1 DEF Parts
<1>5. CASE i < k
  <2>1. i \in 1 .. k - 1 /\ \A j \in 1 .. i - 1 : j \in 1 .. k - 1
    BY <1>1, <1>5
  <2>2. At(q, i) < At(e, i) /\ \A j \in 1 .. i - 1 : At(q, j) = At(e, j)
    BY <1>1, <1>2, <2>1 DEF Parts
  <2> QED
    BY <2>2, BeforeIs
<1>6. CASE i = k
  <2>1. At(q, k) = 0 /\ \A j \in 1 .. k - 1 : At(q, j) = At(e, j)
    BY <1>1, <1>2, <1>3, <1>6 DEF Parts
  <2>2. \A j \in 1 .. Len(e) : At(q, j) = e[j]
    <3>1. \A j \in 1 .. Len(e) : At(e, j) = e[j]
      BY AtIs
    <3> QED
      BY <1>1, <2>1, <3>1
  <2>3. IsPrefix(e, q)
    BY <2>2, PrefixIs
  <2>4. Len(q) <= Len(e)
    <3>1. CASE k \in 1 .. Len(q)
      <4> At(q, k) # 0
        BY <3>1, AtIs
      <4> QED
        BY <2>1
    <3>2. Len(q) \in Nat
      BY AtIs
    <3> QED
      BY <1>1, <3>1, <3>2
  <2>5. Len(q) = Len(e)
    <3>1. Len(q) \in Nat /\ Len(e) \in Nat
      BY AtIs
    <3>2. Len(e) <= Len(q)
      BY <2>3, PrefixLen
    <3> QED
      BY <2>4, <3>1, <3>2
  <2> QED
    BY <2>3, <2>5, PrefixLen
<1> QED
  BY <1>1, <1>4, <1>5, <1>6

(* What is below a directory and not before a name in it is below another  *)
(* name, after that one.                                                   *)
LEMMA BelowAfter ==
  ASSUME NEW c \in Paths, NEW a \in Nat, NEW q \in Paths,
         IsPrefix(c, q), ~Before(q, Append(c, a + 1))
  PROVE  \E x \in Nat \ {0} : x > a /\ IsPrefix(Append(c, x), q)
<1> DEFINE f == Append(c, a + 1)
           k == Len(c) + 1
           x == At(q, k)
<1>1. /\ f \in Paths /\ Len(f) = k /\ k \in Nat \ {0} /\ At(f, k) = a + 1 /\ Len(c) = k - 1
      /\ \A j \in 1 .. k - 1 : At(f, j) = At(c, j)
  <2>1. a + 1 \in Nat \ {0} /\ Len(c) \in Nat /\ (Len(c) + 1) - 1 = Len(c)
    BY AtIs
  <2>2. f \in Paths /\ Len(f) = k /\ At(f, k) = a + 1 /\ \A i \in 1 .. Len(c) : At(f, i) = At(c, i)
    BY <2>1, AppendIs
  <2> QED
    BY <2>1, <2>2
<1>2. x \in Nat
  BY <1>1, AtIs
<1>3. ~Before(q, f)
  OBVIOUS
<1> HIDE DEF f, k, x
<1>4. \A j \in 1 .. k - 1 : At(q, j) = At(f, j) /\ At(q, j) = At(c, j)
  <2>1. \A j \in 1 .. k - 1 : At(q, j) = At(c, j)
    BY <1>1, PrefixAt
  <2> QED
    BY <1>1, <2>1
<1>5. x > a
  <2>1. CASE x <= a
    <3>1. At(q, k) < At(f, k)
      BY <1>1, <1>2, <2>1 DEF x
    <3> QED
      BY <1>1, <1>3, <1>4, <3>1, BeforeIs
  <2> QED
    BY <1>2, <2>1
<1>6. x \in Nat \ {0}
  BY <1>2, <1>5
<1>7. IsPrefix(Append(c, x), q)
  <2> DEFINE e == Append(c, x)
  <2>1. e \in Paths /\ Len(e) = k /\ At(e, k) = x /\ \A j \in 1 .. k - 1 : At(e, j) = At(c, j)
    <3>1. e \in Paths /\ Len(e) = k /\ At(e, k) = x /\ \A j \in 1 .. Len(c) : At(e, j) = At(c, j)
      BY <1>6, AppendIs DEF k
    <3> QED
      BY <1>1, <3>1
  <2> HIDE DEF e
  <2>2. ASSUME NEW j \in 1 .. Len(e) PROVE At(q, j) = e[j]
    <3>1. At(e, j) = e[j]
      BY <2>1, AtIs
    <3>2. j \in 1 .. k - 1 \/ j = k
      BY <1>1, <2>1
    <3> QED
      BY <1>4, <2>1, <3>1, <3>2 DEF x
  <2>3. IsPrefix(e, q)
    BY <2>1, <2>2, PrefixIs
  <2> QED
    BY <2>3 DEF e
<1> QED
  BY <1>5, <1>6, <1>7

(* What is not before a place but before something in the directory of the *)
(* place is in that directory.                                             *)
LEMMA Between ==
  ASSUME NEW c \in Paths, NEW a \in Nat, NEW q \in Paths, NEW r \in Paths,
         ~Before(q, Append(c, a + 1)), IsPrefix(c, r), Before(q, r)
  PROVE  \E x \in Nat \ {0} : x > a /\ IsPrefix(Append(c, x), q)
<1>1. Append(c, a + 1) \in Paths /\ Before(c, Append(c, a + 1))
  BY AppendIs
<1>2. Before(c, q)
  <2>1. q = Append(c, a + 1) \/ Before(Append(c, a + 1), q)
    BY <1>1, Comparable
  <2> QED
    BY <1>1, <2>1, Transitive
<1>3. IsPrefix(c, q)
  <2>1. CASE ~IsPrefix(c, q)
    <3>1. Before(r, q)
      BY <1>2, <2>1, BelowBefore
    <3> QED
      BY <3>1, Transitive, Irreflexive
  <2> QED
    BY <2>1
<1> QED
  BY <1>3, BelowAfter

(* Entries of a directory are in the order of their names.                 *)
LEMMA Brothers ==
  ASSUME NEW c \in Paths, NEW n \in Nat \ {0}, NEW m \in Nat \ {0}
  PROVE  Before(Append(c, n), Append(c, m)) <=> n < m
<1> DEFINE e == Append(c, n)
           f == Append(c, m)
           k == Len(c) + 1
<1>1. /\ e \in Paths /\ f \in Paths /\ k \in Nat \ {0}
      /\ At(e, k) = n /\ At(f, k) = m /\ Len(c) = k - 1
      /\ \A j \in 1 .. k - 1 : At(e, j) = At(f, j)
  <2>1. Len(c) \in Nat /\ (Len(c) + 1) - 1 = Len(c)
    BY AtIs
  <2>2. e \in Paths /\ At(e, k) = n /\ \A i \in 1 .. Len(c) : At(e, i) = At(c, i)
    BY AppendIs
  <2>3. f \in Paths /\ At(f, k) = m /\ \A i \in 1 .. Len(c) : At(f, i) = At(c, i)
    BY AppendIs
  <2> QED
    BY <2>1, <2>2, <2>3
<1> HIDE DEF e, f, k
<1>2. n < m => Before(e, f)
  BY <1>1, BeforeIs
<1>3. m < n => Before(f, e)
  BY <1>1, BeforeIs
<1>4. Before(e, f) /\ Before(f, e) => FALSE
  BY <1>1, Transitive, Irreflexive
<1>5. n = m => ~Before(e, f)
  BY <1>1, Irreflexive DEF e, f
<1> QED
  BY <1>2, <1>3, <1>4, <1>5 DEF e, f

(* A finite set of paths has a least one.                                  *)
LEMMA LeastIs ==
  ASSUME NEW S \in SUBSET Paths, IsFiniteSet(S), S # {}
  PROVE  Least(S) \in S /\ \A q \in S \ {Least(S)} : Before(Least(S), q)
<1> DEFINE Has(A) == \E p \in A : \A q \in A \ {p} : Before(p, q)
           T == {Cardinality(A) : A \in {B \in SUBSET S : B # {} /\ ~Has(B)}}
<1>1. T = {}
  <2> SUFFICES ASSUME T # {} PROVE FALSE
    OBVIOUS
  <2>1. T \in SUBSET Nat
    BY FS_Subset, FS_CardinalityType
  <2>2. PICK n \in T : \A m \in T : n <= m
    <3> HIDE DEF T
    <3> QED
      BY <2>1, LeastNat
  <2>3. PICK A \in SUBSET S : A # {} /\ ~Has(A) /\ Cardinality(A) = n
    OBVIOUS
  <2>4. PICK p \in A : TRUE
    BY <2>3
  <2>5. IsFiniteSet(A) /\ IsFiniteSet(A \ {p}) /\ Cardinality(A \ {p}) = Cardinality(A) - 1
    BY FS_Subset, FS_RemoveElement
  <2>6. CASE A \ {p} = {}
    <3> Has(A)
      BY <2>6
    <3> QED
      BY <2>3
  <2>7. CASE A \ {p} # {}
    <3>1. Has(A \ {p})
      <4>1. CASE ~Has(A \ {p})
        <5>1. Cardinality(A \ {p}) \in T
          BY <2>7, <4>1
        <5> QED
          <6>1. n \in Nat /\ n <= n - 1
            BY <2>1, <2>2, <2>3, <2>5, <5>1
          <6> QED
            BY <6>1
      <4> QED
        BY <4>1
    <3>2. PICK r \in A \ {p} : \A q \in (A \ {p}) \ {r} : Before(r, q)
      BY <3>1
    <3>3. p \in Paths /\ r \in Paths /\ p # r
      OBVIOUS
    <3>4. CASE Before(r, p)
      <4> \A q \in A \ {r} : Before(r, q)
        BY <3>2, <3>4
      <4> QED
        BY <2>3
    <3>5. CASE Before(p, r)
      <4>1. ASSUME NEW q \in A \ {p} PROVE Before(p, q)
        <5>1. q = r \/ Before(r, q)
          BY <3>2
        <5> QED
          BY <3>3, <3>5, <5>1, Transitive
      <4> QED
        BY <2>3, <4>1
    <3> QED
      BY <3>3, <3>4, <3>5, Comparable
  <2> QED
    BY <2>6, <2>7
<1>2. Has(S)
  BY <1>1
<1> QED
  BY <1>2, Zenon DEF Least

-----------------------------------------------------------------------------
(* The tree.                                                               *)

Names == Nat \ {0}
Trees == [node : SUBSET Paths, filled : SUBSET Paths, changed : SUBSET Paths,
          sorting : SUBSET Paths, reading : SUBSET Paths]

TreeOk(t) ==
  /\ t \in Trees
  /\ IsFiniteSet(t.node) /\ <<>> \in t.node
  /\ t.filled \subseteq t.node /\ t.changed \subseteq t.node /\ t.sorting \subseteq t.node

(* A changed node is below changed ones, and what is filled or being read   *)
(* is changed.                                                             *)
MarksOk(t) ==
  /\ \A p \in t.changed : Prefixes(p) \subseteq t.changed \cup {<<>>}
  /\ t.filled \cup t.sorting \subseteq t.changed \cup {<<>>}

(* Only the root is above the root.                                        *)
LEMMA RootPrefixes == Prefixes(<<>>) = {<<>>} /\ <<>> \in Paths
<1>1. <<>> \in Paths
  BY EmptySeq DEF Paths
<1>2. ASSUME NEW q \in Paths, IsPrefix(q, <<>>) PROVE q = <<>>
  <2>1. Len(q) <= Len(<<>>)
    BY <1>2 DEF IsPrefix
  <2>2. Len(q) \in Nat /\ Len(<<>>) = 0
    BY AtIs
  <2> QED
    BY <2>1, <2>2 DEF Paths
<1> QED
  BY <1>1, <1>2, PrefixesAre

(* The tree at the beginning.                                              *)
LEMMA NewOk == TreeOk(NewTree) /\ MarksOk(NewTree)
<1>1. <<>> \in Paths /\ IsFiniteSet({<<>>})
  BY RootPrefixes, FS_Singleton
<1>2. NewTree \in Trees
  BY <1>1 DEF NewTree, Trees
<1>3. TreeOk(NewTree)
  BY <1>1, <1>2 DEF NewTree, TreeOk
<1>4. Prefixes(<<>>) = {<<>>}
  BY RootPrefixes
<1> QED
  BY <1>3, <1>4 DEF NewTree, MarksOk

(* ft_get makes nodes and changes no mark.                                 *)
LEMMA GetOk ==
  ASSUME NEW t, TreeOk(t), NEW p \in Paths
  PROVE  /\ TreeOk(Get(t, p)) /\ p \in Get(t, p).node
         /\ t.node \subseteq Get(t, p).node
         /\ Get(t, p).filled = t.filled /\ Get(t, p).changed = t.changed
         /\ Get(t, p).sorting = t.sorting
<1>1. t \in Trees
  BY DEF TreeOk
<1>2. /\ Get(t, p) \in Trees /\ Get(t, p).node = t.node \cup Prefixes(p)
      /\ Get(t, p).filled = t.filled /\ Get(t, p).changed = t.changed
      /\ Get(t, p).sorting = t.sorting
  BY <1>1, PrefixesAre DEF Get, Trees
<1>3. IsFiniteSet(t.node \cup Prefixes(p))
  BY PrefixesAre, FS_Union DEF TreeOk
<1>4. p \in Prefixes(p)
  BY PrefixesAre
<1> QED
  BY <1>2, <1>3, <1>4 DEF TreeOk

(* What ft_get and SET_PARENT do to the tree.                              *)
LEMMA FillOk ==
  ASSUME NEW t, TreeOk(t), NEW p \in Paths
  PROVE  /\ TreeOk(Fill(t, p)) /\ p \in Fill(t, p).node
         /\ t.node \subseteq Fill(t, p).node
         /\ Fill(t, p).filled = t.filled \cup {p}
         /\ Fill(t, p).changed = t.changed \cup Unmarked(t, p)
         /\ Fill(t, p).sorting = t.sorting
<1>1. t \in Trees
  BY DEF TreeOk
<1>2. /\ Fill(t, p) \in Trees /\ Fill(t, p).node = t.node \cup Prefixes(p)
      /\ Fill(t, p).filled = t.filled \cup {p}
      /\ Fill(t, p).changed = t.changed \cup Unmarked(t, p)
      /\ Fill(t, p).sorting = t.sorting
  <2>1. Unmarked(t, p) \subseteq Paths /\ Prefixes(p) \subseteq Paths
    BY PrefixesAre DEF Unmarked
  <2> QED
    BY <1>1, <2>1 DEF Fill, Trees
<1>3. IsFiniteSet(t.node \cup Prefixes(p))
  BY PrefixesAre, FS_Union DEF TreeOk
<1>4. p \in Prefixes(p) /\ Unmarked(t, p) \subseteq Prefixes(p)
  BY PrefixesAre DEF Unmarked
<1> QED
  BY <1>2, <1>3, <1>4 DEF TreeOk

(* SET_PARENT leaves no node that is changed below one that is not.        *)
LEMMA FillMarks ==
  ASSUME NEW t, TreeOk(t), MarksOk(t), NEW p \in Paths
  PROVE  /\ MarksOk(Fill(t, p)) /\ t.changed \subseteq Fill(t, p).changed
         /\ p \in Fill(t, p).changed \cup {<<>>}
<1>1. /\ Fill(t, p).filled = t.filled \cup {p}
      /\ Fill(t, p).changed = t.changed \cup Unmarked(t, p)
      /\ Fill(t, p).sorting = t.sorting
  BY FillOk
<1>2. t.changed \in SUBSET Paths
  BY DEF TreeOk, Trees
<1>3. Prefixes(p) \subseteq t.changed \cup Unmarked(t, p) \cup {<<>>}
  <2> SUFFICES ASSUME NEW q \in Prefixes(p), q \notin Unmarked(t, p)
               PROVE  q \in t.changed \cup {<<>>}
    OBVIOUS
  <2>1. PICK r \in t.changed \cap Prefixes(p) : ~IsStrictPrefix(r, q)
    BY DEF Unmarked
  <2>2. q \in Paths /\ r \in Paths /\ IsPrefix(q, p) /\ IsPrefix(r, p)
    BY PrefixesAre
  <2>3. q = r \/ IsPrefix(q, r)
    BY <2>1, <2>2, PrefixesCompare DEF IsStrictPrefix
  <2>4. q \in Prefixes(r)
    BY <2>2, <2>3, PrefixesAre
  <2> QED
    BY <2>4 DEF MarksOk
<1>4. \A q \in Unmarked(t, p) : Prefixes(q) \subseteq Prefixes(p)
  <2> TAKE q \in Unmarked(t, p)
  <2>1. q \in Paths /\ IsPrefix(q, p)
    BY PrefixesAre DEF Unmarked
  <2>2. ASSUME NEW r \in Prefixes(q) PROVE r \in Prefixes(p)
    <3>1. r \in Paths /\ IsPrefix(r, q)
      BY <2>1, PrefixesAre
    <3> QED
      BY <2>1, <3>1, PrefixTrans, PrefixesAre
  <2> QED
    BY <2>2
<1>5. p \in Prefixes(p)
  BY PrefixesAre
<1>6. \A q \in t.changed \cup Unmarked(t, p) :
        Prefixes(q) \subseteq t.changed \cup Unmarked(t, p) \cup {<<>>}
  BY <1>3, <1>4 DEF MarksOk
<1>7. t.filled \cup {p} \cup t.sorting \subseteq t.changed \cup Unmarked(t, p) \cup {<<>>}
  BY <1>3, <1>5 DEF MarksOk
<1> QED
  BY <1>1, <1>3, <1>5, <1>6, <1>7 DEF MarksOk

(* The root is always changed without consequence for those below.         *)
LEMMA RootChanged ==
  ASSUME NEW t, TreeOk(t)
  PROVE  /\ TreeOk(Set(t, "changed", <<>>))
         /\ Set(t, "changed", <<>>).node = t.node
         /\ Set(t, "changed", <<>>).filled = t.filled
         /\ Set(t, "changed", <<>>).sorting = t.sorting
         /\ Set(t, "changed", <<>>).changed = t.changed \cup {<<>>}
         /\ MarksOk(t) => MarksOk(Set(t, "changed", <<>>))
<1>1. t \in Trees /\ <<>> \in Paths
  BY EmptySeq DEF TreeOk, Paths
<1>2. Set(t, "changed", <<>>) = [t EXCEPT !.changed = @ \cup {<<>>}]
  BY DEF Set
<1>3. /\ Set(t, "changed", <<>>) \in Trees
      /\ Set(t, "changed", <<>>).node = t.node
      /\ Set(t, "changed", <<>>).filled = t.filled
      /\ Set(t, "changed", <<>>).sorting = t.sorting
      /\ Set(t, "changed", <<>>).changed = t.changed \cup {<<>>}
  BY <1>1, <1>2 DEF Trees
<1>4. Prefixes(<<>>) = {<<>>}
  BY RootPrefixes
<1>5. MarksOk(t) => MarksOk(Set(t, "changed", <<>>))
  BY <1>3, <1>4 DEF MarksOk
<1> QED
  BY <1>3, <1>5 DEF TreeOk

(* Marking a node that is being read.                                      *)
LEMMA SortingSet ==
  ASSUME NEW t, TreeOk(t), NEW p \in t.node
  PROVE  /\ TreeOk(Set(t, "sorting", p))
         /\ Set(t, "sorting", p).node = t.node
         /\ Set(t, "sorting", p).filled = t.filled
         /\ Set(t, "sorting", p).changed = t.changed
         /\ Set(t, "sorting", p).sorting = t.sorting \cup {p}
<1>1. t \in Trees
  BY DEF TreeOk
<1>2. Set(t, "sorting", p) = [t EXCEPT !.sorting = @ \cup {p}]
  BY DEF Set
<1>3. /\ Set(t, "sorting", p) \in Trees
      /\ Set(t, "sorting", p).node = t.node
      /\ Set(t, "sorting", p).filled = t.filled
      /\ Set(t, "sorting", p).changed = t.changed
      /\ Set(t, "sorting", p).sorting = t.sorting \cup {p}
  BY <1>1, <1>2 DEF Trees
<1> QED
  BY <1>3 DEF TreeOk

(* Taking that mark away.                                                  *)
LEMMA SortingUnset ==
  ASSUME NEW t, TreeOk(t), NEW p
  PROVE  /\ TreeOk(Unset(t, "sorting", p))
         /\ Unset(t, "sorting", p).node = t.node
         /\ Unset(t, "sorting", p).filled = t.filled
         /\ Unset(t, "sorting", p).changed = t.changed
         /\ Unset(t, "sorting", p).sorting = t.sorting \ {p}
<1>1. t \in Trees
  BY DEF TreeOk
<1>2. Unset(t, "sorting", p) = [t EXCEPT !.sorting = @ \ {p}]
  BY DEF Unset
<1>3. /\ Unset(t, "sorting", p) \in Trees
      /\ Unset(t, "sorting", p).node = t.node
      /\ Unset(t, "sorting", p).filled = t.filled
      /\ Unset(t, "sorting", p).changed = t.changed
      /\ Unset(t, "sorting", p).sorting = t.sorting \ {p}
  BY <1>1, <1>2 DEF Trees
<1> QED
  BY <1>3 DEF TreeOk

(* Marking a directory whose lines are being read.                         *)
LEMMA ReadingSet ==
  ASSUME NEW t, TreeOk(t), NEW p \in Paths
  PROVE  TreeOk(Set(t, "reading", p))
<1>1. t \in Trees
  BY DEF TreeOk
<1>2. Set(t, "reading", p) = [t EXCEPT !.reading = @ \cup {p}]
  BY DEF Set
<1>3. /\ Set(t, "reading", p) \in Trees
      /\ Set(t, "reading", p).node = t.node
      /\ Set(t, "reading", p).filled = t.filled
      /\ Set(t, "reading", p).changed = t.changed
      /\ Set(t, "reading", p).sorting = t.sorting
  BY <1>1, <1>2 DEF Trees
<1> QED
  BY <1>3 DEF TreeOk

(* What ft_free() goes through and frees.                                   *)
LEMMA ReachedIs ==
  ASSUME NEW t, TreeOk(t)
  PROVE  /\ Reached(t) \subseteq Paths \ {<<>>} /\ Reached(t) \subseteq t.node
         /\ IsFiniteSet(Stops(t)) /\ Stops(t) \in SUBSET Paths
         /\ Visited(t) \subseteq Reached(t)
         /\ Removed(t) \subseteq t.node /\ <<>> \notin Removed(t)
<1>1. t.node \subseteq Paths /\ IsFiniteSet(t.node)
  BY DEF TreeOk, Trees
<1>2. Reached(t) \subseteq Paths \ {<<>>} /\ Reached(t) \subseteq t.node
  BY <1>1 DEF Reached
<1>3. Stops(t) \subseteq Reached(t)
  BY DEF Stops
<1>4. IsFiniteSet(Stops(t)) /\ Stops(t) \in SUBSET Paths
  BY <1>1, <1>2, <1>3, FS_Subset
<1>5. Visited(t) \subseteq Reached(t)
  BY DEF Visited
<1>6. Removed(t) \subseteq t.node
  BY DEF Removed
<1>7. <<>> \notin Removed(t)
  <2>1. ASSUME NEW q \in Visited(t), IsPrefix(q, <<>>) PROVE FALSE
    <3>1. q \in Paths \ {<<>>}
      BY <1>2, <1>5
    <3> QED
      BY <2>1, <3>1, RootPrefixes, PrefixesAre
  <2> QED
    BY <2>1 DEF Removed
<1> QED
  BY <1>2, <1>4, <1>5, <1>6, <1>7

(* What ft_free leaves, mark by mark.                                      *)
LEMMA FreedIs ==
  ASSUME NEW t, TreeOk(t)
  PROVE  LET nothing == <<>> \notin t.changed \ t.sorting \/ ~HasSub(t, <<>>)
             f == Freed(t)
         IN  /\ f \in Trees
             /\ nothing => /\ f.node = t.node /\ f.filled = t.filled \ {<<>>}
                           /\ f.changed = t.changed \ {<<>>} /\ f.sorting = t.sorting
             /\ ~nothing => /\ f.node = t.node \ Removed(t)
                            /\ f.filled = (t.filled \ ({<<>>} \cup Visited(t))) \ Removed(t)
                            /\ f.changed = t.changed \ Removed(t)
                            /\ f.sorting = t.sorting \ Removed(t)
<1> DEFINE nothing == <<>> \notin t.changed \ t.sorting \/ ~HasSub(t, <<>>)
           root == [t EXCEPT !.filled = @ \ {<<>>}]
<1>1. t \in Trees
  BY DEF TreeOk
<1>2. /\ root \in Trees /\ root.node = t.node /\ root.filled = t.filled \ {<<>>}
      /\ root.changed = t.changed /\ root.sorting = t.sorting
  BY <1>1 DEF Trees
<1> HIDE DEF root
<1>3. CASE nothing
  <2>1. Freed(t) = Unset(root, "changed", <<>>)
    BY <1>3 DEF Freed, root
  <2>2. Unset(root, "changed", <<>>) = [root EXCEPT !.changed = @ \ {<<>>}]
    BY DEF Unset
  <2> QED
    BY <1>2, <1>3, <2>1, <2>2 DEF Trees
<1>4. CASE ~nothing
  <2> DEFINE r == [root EXCEPT !.filled = @ \ Visited(t)]
  <2>1. Freed(t) = Without(r, Removed(t))
    BY <1>4 DEF Freed, root
  <2>2. /\ r \in Trees /\ r.node = t.node
        /\ r.filled = (t.filled \ {<<>>}) \ Visited(t)
        /\ r.changed = t.changed /\ r.sorting = t.sorting
    BY <1>2 DEF Trees
  <2> HIDE DEF r
  <2>3. (t.filled \ {<<>>}) \ Visited(t) = t.filled \ ({<<>>} \cup Visited(t))
    OBVIOUS
  <2>4. /\ Without(r, Removed(t)) \in Trees
        /\ Without(r, Removed(t)).node = r.node \ Removed(t)
        /\ Without(r, Removed(t)).filled = r.filled \ Removed(t)
        /\ Without(r, Removed(t)).changed = r.changed \ Removed(t)
        /\ Without(r, Removed(t)).sorting = r.sorting \ Removed(t)
    BY <2>2 DEF Without, Trees
  <2> QED
    BY <1>4, <2>1, <2>2, <2>3, <2>4
<1> QED
  BY <1>3, <1>4

(* A tree that was freed is a tree.                                        *)
LEMMA FreedOk == ASSUME NEW t, TreeOk(t) PROVE TreeOk(Freed(t))
<1> DEFINE nothing == <<>> \notin t.changed \ t.sorting \/ ~HasSub(t, <<>>)
           f == Freed(t)
<1>1. f \in Trees
  BY FreedIs
<1>2. CASE nothing
  <2> f.node = t.node /\ f.filled = t.filled \ {<<>>}
      /\ f.changed = t.changed \ {<<>>} /\ f.sorting = t.sorting
    BY <1>2, FreedIs
  <2> HIDE DEF f
  <2> TreeOk(f)
    BY <1>1 DEF TreeOk
  <2> QED
    BY DEF f
<1>3. CASE ~nothing
  <2>1. /\ f.node = t.node \ Removed(t)
        /\ f.filled = (t.filled \ ({<<>>} \cup Visited(t))) \ Removed(t)
        /\ f.changed = t.changed \ Removed(t)
        /\ f.sorting = t.sorting \ Removed(t)
    BY <1>3, FreedIs
  <2>2. IsFiniteSet(t.node \ Removed(t))
    BY FS_Difference DEF TreeOk
  <2>3. <<>> \notin Removed(t)
    BY ReachedIs
  <2> HIDE DEF f
  <2> TreeOk(f)
    BY <1>1, <2>1, <2>2, <2>3 DEF TreeOk
  <2> QED
    BY DEF f
<1> QED
  BY <1>2, <1>3

(* A mark of reading is never lost, nor what is above it.                   *)
LEMMA SortingStays ==
  ASSUME NEW t, TreeOk(t), MarksOk(t), <<>> \in t.changed \ t.sorting,
         NEW s \in t.sorting
  PROVE  s \notin Removed(t)
<1>1. t \in Trees /\ s \in Paths /\ s \in t.node
  BY DEF TreeOk, Trees
<1> SUFFICES ASSUME NEW q \in Visited(t), IsPrefix(q, s),
                    Stops(t) = {} \/ ~IsPrefix(q, Least(Stops(t)))
             PROVE  FALSE
  BY DEF Removed
<1>2. q \in Reached(t) /\ q \in Paths \ {<<>>} /\ q \in t.changed
  BY ReachedIs DEF Reached
<1> DEFINE T == {Len(r) : r \in {u \in Prefixes(s) : u \in t.sorting}}
<1>3. T \in SUBSET Nat /\ T # {}
  <2>1. \A r \in Prefixes(s) : Len(r) \in Nat
    BY <1>1, PrefixesAre, AtIs
  <2>2. s \in Prefixes(s)
    BY <1>1, PrefixesAre
  <2> QED
    BY <2>1, <2>2
<1>4. PICK n \in T : \A m \in T : n <= m
  <2> HIDE DEF T
  <2> QED
    BY <1>3, LeastNat
<1>5. PICK r \in Prefixes(s) : r \in t.sorting /\ Len(r) = n
  OBVIOUS
<1>6. \A u \in Prefixes(s) \cap t.sorting : Len(r) <= Len(u)
  BY <1>4, <1>5
<1> HIDE DEF T
<1>7. r \in Paths /\ IsPrefix(r, s) /\ r # <<>> /\ r \in t.node
  BY <1>1, <1>5, PrefixesAre DEF TreeOk
<1>8. r \in t.changed /\ Prefixes(r) \subseteq t.changed \cup {<<>>}
  BY <1>5, <1>7 DEF MarksOk
<1>9. \A u \in Above(r) : u \in t.changed \ t.sorting
  <2> TAKE u \in Above(r)
  <2>1. u \in Paths /\ IsPrefix(u, r) /\ u # r /\ u \in Prefixes(r)
    BY <1>7, PrefixesAre DEF Above
  <2>2. u \in t.changed
    BY <1>8, <2>1
  <2>3. u \notin t.sorting
    <3>1. CASE u \in t.sorting
      <4>1. u \in Prefixes(s)
        BY <1>1, <1>7, <2>1, PrefixTrans, PrefixesAre
      <4>2. Len(r) <= Len(u)
        BY <1>6, <3>1, <4>1
      <4>3. Len(u) <= Len(r) /\ Len(u) # Len(r)
        BY <1>7, <2>1, PrefixLen
      <4>4. Len(u) \in Nat /\ Len(r) \in Nat
        BY <1>7, <2>1, AtIs
      <4> QED
        BY <4>2, <4>3, <4>4
    <3> QED
      BY <3>1
  <2> QED
    BY <2>2, <2>3
<1>10. r \in Reached(t) /\ r \in Stops(t)
  BY <1>5, <1>7, <1>8, <1>9 DEF Reached, Stops
<1> DEFINE l == Least(Stops(t))
<1>11. l \in Paths /\ (r = l \/ Before(l, r)) /\ ~Before(l, q) /\ ~IsPrefix(q, l)
  <2>1. l \in Stops(t) /\ \A u \in Stops(t) \ {l} : Before(l, u)
    BY <1>10, ReachedIs, LeastIs
  <2>2. ~Before(l, q)
    BY <1>10 DEF Visited
  <2> QED
    BY <1>10, <2>1, <2>2, ReachedIs
<1> HIDE DEF l
<1>12. IsPrefix(q, r)
  <2>1. CASE IsPrefix(r, q)
    <3>1. CASE r # q
      <4>1. r \in Above(q)
        BY <1>2, <1>7, <2>1, <3>1, PrefixesAre DEF Above
      <4> QED
        BY <1>2, <1>5, <4>1 DEF Reached
    <3>2. CASE r = q
      BY <1>2, <3>2, PrefixRefl
    <3> QED
      BY <3>1, <3>2
  <2> QED
    BY <1>1, <1>2, <1>7, <2>1, PrefixesCompare
<1>13. Before(q, l)
  <2>1. q # l
    BY <1>2, <1>11, PrefixRefl
  <2> QED
    BY <1>2, <1>11, <2>1, Comparable
<1>14. Before(r, l)
  BY <1>2, <1>7, <1>11, <1>12, <1>13, BelowBefore
<1> QED
  BY <1>7, <1>11, <1>14, Transitive, Irreflexive

(* A node goes with all that is below it.                                  *)
LEMMA RemovedDown ==
  ASSUME NEW t, TreeOk(t), NEW p \in t.node, NEW q \in Paths, IsPrefix(q, p), q \in Removed(t)
  PROVE  p \in Removed(t)
<1>1. p \in Paths
  BY DEF TreeOk, Trees
<1>2. PICK v \in Visited(t) : IsPrefix(v, q) /\ (Stops(t) = {} \/ ~IsPrefix(v, Least(Stops(t))))
  BY DEF Removed
<1>3. v \in Paths
  BY ReachedIs
<1>4. IsPrefix(v, p)
  BY <1>1, <1>2, <1>3, PrefixTrans
<1> QED
  BY <1>2, <1>4 DEF Removed

(* What is left.                                                           *)
LEMMA FreedMarks ==
  ASSUME NEW t, TreeOk(t), MarksOk(t)
  PROVE  /\ MarksOk(Freed(t))
         /\ Freed(t).sorting = t.sorting
         /\ \A q \in Freed(t).filled : q \in t.filled /\ q \notin Visited(t) /\ q # <<>>
         /\ \A s \in t.sorting : \A p \in Paths : IsPrefix(p, s) =>
              /\ p \in t.node => p \in Freed(t).node
              /\ p \in t.changed \cup {<<>>} => p \in Freed(t).changed \cup {<<>>}
<1> DEFINE nothing == <<>> \notin t.changed \ t.sorting \/ ~HasSub(t, <<>>)
           f == Freed(t)
<1>0. t \in Trees
  BY DEF TreeOk
<1>1. CASE nothing
  <2>1. f.node = t.node /\ f.filled = t.filled \ {<<>>}
        /\ f.changed = t.changed \ {<<>>} /\ f.sorting = t.sorting
    BY <1>1, FreedIs
  <2>2. Reached(t) = {}
    <3> SUFFICES ASSUME NEW q \in Reached(t) PROVE FALSE
      OBVIOUS
    <3>1. q \in Paths \ {<<>>} /\ q \in t.node /\ \A u \in Above(q) : u \in t.changed \ t.sorting
      BY ReachedIs DEF Reached
    <3>2. <<>> \in Above(q) /\ IsPrefix(<<>>, q)
      BY <3>1, PrefixesAre, RootPrefixes DEF Above
    <3>3. HasSub(t, <<>>)
      BY <3>1, <3>2 DEF HasSub, IsStrictPrefix
    <3> QED
      BY <1>1, <3>1, <3>2, <3>3
  <2>3. Visited(t) = {}
    BY <2>2, ReachedIs
  <2> HIDE DEF f
  <2>4. MarksOk(f)
    <3>1. \A p \in f.changed : Prefixes(p) \subseteq f.changed \cup {<<>>}
      BY <2>1 DEF MarksOk
    <3>2. f.filled \cup f.sorting \subseteq f.changed \cup {<<>>}
      BY <2>1 DEF MarksOk
    <3> QED
      BY <3>1, <3>2 DEF MarksOk
  <2>5. MarksOk(Freed(t))
    BY <2>4 DEF f
  <2>6. /\ Freed(t).node = t.node /\ Freed(t).filled = t.filled \ {<<>>}
        /\ Freed(t).changed = t.changed \ {<<>>} /\ Freed(t).sorting = t.sorting
    BY <2>1 DEF f
  <2> QED
    BY <2>3, <2>5, <2>6
<1>2. CASE ~nothing
  <2>1. /\ f.node = t.node \ Removed(t)
        /\ f.filled = (t.filled \ ({<<>>} \cup Visited(t))) \ Removed(t)
        /\ f.changed = t.changed \ Removed(t)
        /\ f.sorting = t.sorting \ Removed(t)
    BY <1>2, FreedIs
  <2>2. <<>> \in t.changed \ t.sorting
    BY <1>2
  <2>3. \A s \in t.sorting : s \notin Removed(t)
    BY <2>2, SortingStays
  <2>4. t.changed \subseteq t.node /\ t.node \subseteq Paths /\ t.sorting \subseteq t.node
    BY DEF TreeOk, Trees
  <2>5. ASSUME NEW p \in t.changed \ Removed(t), NEW u \in Prefixes(p)
        PROVE  u \in (t.changed \ Removed(t)) \cup {<<>>}
    <3>1. p \in Paths /\ p \in t.node
      BY <2>4
    <3>2. u \in Paths /\ IsPrefix(u, p)
      BY <3>1, PrefixesAre
    <3>3. u \in t.changed \cup {<<>>}
      BY <2>5 DEF MarksOk
    <3>4. u \notin Removed(t)
      BY <2>5, <3>1, <3>2, RemovedDown
    <3> QED
      BY <3>3, <3>4
  <2>6. f.filled \cup f.sorting \subseteq f.changed \cup {<<>>}
    BY <2>1, <2>3 DEF MarksOk
  <2>7. MarksOk(f)
    <3> HIDE DEF f
    <3> QED
      BY <2>1, <2>5, <2>6 DEF MarksOk
  <2>8. ASSUME NEW s \in t.sorting, NEW p \in Paths, IsPrefix(p, s) PROVE p \notin Removed(t)
    BY <2>3, <2>4, <2>8, RemovedDown
  <2>9. f.sorting = t.sorting
    BY <2>1, <2>3
  <2>10. \A q \in f.filled : q \in t.filled /\ q \notin Visited(t) /\ q # <<>>
    BY <2>1
  <2>11. \A s \in t.sorting : \A p \in Paths : IsPrefix(p, s) =>
              /\ p \in t.node => p \in f.node
              /\ p \in t.changed \cup {<<>>} => p \in f.changed \cup {<<>>}
    BY <2>1, <2>8
  <2> QED
    BY <2>7, <2>9, <2>10, <2>11
<1> QED
  BY <1>1, <1>2

-----------------------------------------------------------------------------
(* Recursive functions.                                                    *)

(* A property of 0 that goes from each number to the next is of all up to n.*)
LEMMA CountUp ==
  ASSUME NEW n \in Nat, NEW T, 0 \in T,
         \A i \in 1 .. n : i - 1 \in T => i \in T
  PROVE  0 .. n \subseteq T
<1> SUFFICES ASSUME (0 .. n) \ T # {} PROVE FALSE
  OBVIOUS
<1>1. PICK i \in (0 .. n) \ T : \A m \in (0 .. n) \ T : i <= m
  <2> (0 .. n) \ T \in SUBSET Nat
    OBVIOUS
  <2> QED
    BY LeastNat
<1>2. i # 0 /\ i \in 1 .. n /\ i - 1 \in 0 .. n /\ ~(i <= i - 1)
  BY <1>1
<1> QED
  BY <1>1, <1>2

(* A function is given by its value at 0 and a step to each number.        *)
Follows(f, n, a, h) ==
  /\ f = [i \in 0 .. n |-> f[i]]
  /\ f[0] = a
  /\ \A i \in 1 .. n : f[i] = h[i][f[i - 1]]

(* A function given by a value at 0 and a step exists.                     *)
LEMMA Recursion ==
  ASSUME NEW n \in Nat, NEW a, NEW h
  PROVE  \E f : Follows(f, n, a, h)
<1> DEFINE Ok(f, k) == /\ f = [i \in 0 .. n |-> f[i]]
                       /\ f[0] = a
                       /\ \A i \in 1 .. k : f[i] = h[i][f[i - 1]]
           T == {k \in 0 .. n : \E f : Ok(f, k)}
<1>1. 0 \in T
  <2>1. Ok([i \in 0 .. n |-> a], 0) /\ 0 \in 0 .. n
    OBVIOUS
  <2> QED
    BY <2>1
<1>2. ASSUME NEW k \in 1 .. n, k - 1 \in T
      PROVE  k \in T
  <2>1. PICK f : Ok(f, k - 1)
    BY <1>2
  <2> DEFINE g == [i \in 0 .. n |-> IF i = k THEN h[k][f[k - 1]] ELSE f[i]]
  <2>2. k \in 0 .. n
    OBVIOUS
  <2>3. g = [i \in 0 .. n |-> g[i]]
    OBVIOUS
  <2>4. g[k] = h[k][f[k - 1]] /\ \A i \in 0 .. n : i # k => g[i] = f[i]
    BY <2>2
  <2> HIDE DEF g
  <2>5. g[0] = a
    BY <2>1, <2>4
  <2>6. ASSUME NEW i \in 1 .. k PROVE g[i] = h[i][g[i - 1]]
    <3>1. CASE i = k
      <4> i - 1 # k /\ i - 1 \in 0 .. n
        BY <3>1
      <4> QED
        BY <2>4, <3>1
    <3>2. CASE i # k
      <4> i \in 1 .. k - 1 /\ i \in 0 .. n /\ i - 1 \in 0 .. n /\ i - 1 # k
        BY <3>2
      <4> QED
        BY <2>1, <2>4, <3>2
    <3> QED
      BY <3>1, <3>2
  <2> QED
    BY <2>2, <2>3, <2>5, <2>6
<1>3. n \in T
  <2> HIDE DEF T
  <2> n \in 0 .. n
    OBVIOUS
  <2> QED
    BY <1>1, <1>2, CountUp
<1>4. PICK f : Ok(f, n)
  BY <1>3
<1> QED
  BY <1>4 DEF Follows

Written1 == [path : Paths \ {<<>>}, dump : Paths]

Ordered(lines) ==
  \A i, j \in 1 .. Len(lines) : i < j => Before(lines[i].path, lines[j].path)

From(part, lines, n) ==
  \A i \in 1 .. Len(part) : \E j \in 1 .. n : part[i] = lines[j]

(* A dump that is made again takes lines away, and leaves the order.        *)
LEMMA TruncatedIs ==
  ASSUME NEW lines \in Seq(Written1), NEW dump
  PROVE  \E f : /\ f[0] = <<>>
                /\ \A i \in 1 .. Len(lines) :
                     /\ f[i - 1] \in Seq(Written1)
                     /\ f[i] = IF lines[i].dump = dump THEN f[i - 1]
                               ELSE Append(f[i - 1], lines[i])
                /\ Truncated(lines, dump) = f[Len(lines)]
                /\ f[Len(lines)] \in Seq(Written1)
<1> DEFINE N == Len(lines)
           S == Seq(Written1)
           h == [i \in 1 .. N |-> [s \in S |-> IF lines[i].dump = dump THEN s
                                              ELSE Append(s, lines[i])]]
           Rule(f) == f = [i \in 0 .. N |->
                            IF i = 0 THEN <<>>
                            ELSE IF lines[i].dump = dump THEN f[i - 1]
                            ELSE Append(f[i - 1], lines[i])]
           kept == CHOOSE f : Rule(f)
<1>1. N \in Nat /\ <<>> \in S /\ \A i \in 1 .. N : lines[i] \in Written1
  BY EmptySeq
<1>2. \A i \in 1 .. N : \A s \in S : Append(s, lines[i]) \in S
  BY <1>1
<1>3. \A i \in 1 .. N : \A s \in S :
        h[i][s] = IF lines[i].dump = dump THEN s ELSE Append(s, lines[i])
  OBVIOUS
<1> HIDE DEF N, S, h
<1>4. PICK f : Follows(f, N, <<>>, h)
  BY <1>1, Recursion
<1> DEFINE T == {i \in 0 .. N : f[i] \in S}
<1>5. ASSUME NEW i \in 1 .. N, i - 1 \in T PROVE i \in T
  <2>1. f[i] = h[i][f[i - 1]] /\ f[i - 1] \in S
    BY <1>4, <1>5 DEF Follows
  <2>2. f[i] \in S
    BY <1>2, <1>3, <2>1
  <2>3. i \in 0 .. N
    BY <1>1
  <2> QED
    BY <2>2, <2>3
<1>6. 0 .. N \subseteq T
  <2>1. 0 \in T
    <3>1. f[0] = <<>> /\ 0 \in 0 .. N
      BY <1>1, <1>4 DEF Follows
    <3> QED
      BY <1>1, <3>1
  <2> HIDE DEF T
  <2> QED
    BY <1>1, <1>5, <2>1, CountUp
<1>7. \A i \in 1 .. N : i - 1 \in 0 .. N /\ i \in 0 .. N
  BY <1>1
<1>8. \A i \in 1 .. N : /\ f[i - 1] \in S
                        /\ f[i] = IF lines[i].dump = dump THEN f[i - 1]
                                  ELSE Append(f[i - 1], lines[i])
  BY <1>3, <1>4, <1>6, <1>7 DEF Follows
<1>9. f = [i \in 0 .. N |-> f[i]] /\ f[0] = <<>>
  BY <1>4 DEF Follows
<1>10. Rule(f)
  <2>1. ASSUME NEW i \in 0 .. N
        PROVE  f[i] = IF i = 0 THEN <<>>
               ELSE IF lines[i].dump = dump THEN f[i - 1]
               ELSE Append(f[i - 1], lines[i])
    <3>1. CASE i = 0
      BY <1>9, <3>1
    <3>2. CASE i # 0
      <4>1. i \in 1 .. N /\ i > 0
        BY <1>1, <3>2
      <4>2. CASE lines[i].dump = dump
        BY <1>8, <3>2, <4>1, <4>2
      <4>3. CASE lines[i].dump # dump
        BY <1>8, <3>2, <4>1, <4>3
      <4> QED
        BY <4>2, <4>3
    <3> QED
      BY <3>1, <3>2
  <2> QED
    BY <1>9, <2>1
<1>11. Rule(kept)
  BY <1>10
<1>12. Truncated(lines, dump) = kept[N]
  BY DEF Truncated, N
<1> HIDE DEF kept
<1>13. kept[0] = <<>>
  <2>1. 0 \in 0 .. N
    BY <1>1
  <2> QED
    BY <1>11, <2>1
<1>14. \A i \in 1 .. N : kept[i] = IF lines[i].dump = dump THEN kept[i - 1]
                                   ELSE Append(kept[i - 1], lines[i])
  <2> TAKE i \in 1 .. N
  <2>1. i \in 0 .. N /\ i # 0 /\ i > 0
    BY <1>1
  <2>2. kept[i] = IF i = 0 THEN <<>>
               ELSE IF lines[i].dump = dump THEN kept[i - 1]
               ELSE Append(kept[i - 1], lines[i])
    BY <1>11, <2>1
  <2>3. CASE lines[i].dump = dump
    BY <2>1, <2>2, <2>3
  <2>4. CASE lines[i].dump # dump
    BY <2>1, <2>2, <2>4
  <2> QED
    BY <2>3, <2>4
<1> DEFINE U == {i \in 0 .. N : kept[i] \in S}
<1>15. ASSUME NEW i \in 1 .. N, i - 1 \in U PROVE i \in U
  <2>1. kept[i] \in S
    BY <1>2, <1>14, <1>15
  <2>2. i \in 0 .. N
    BY <1>1
  <2> QED
    BY <2>1, <2>2
<1>16. 0 .. N \subseteq U
  <2>1. 0 \in U
    <3>1. 0 \in 0 .. N
      BY <1>1
    <3> QED
      BY <1>1, <1>13, <3>1
  <2> HIDE DEF U
  <2> QED
    BY <1>1, <1>15, <2>1, CountUp
<1>17. \A i \in 1 .. N : kept[i - 1] \in S
  BY <1>7, <1>16
<1>18. kept[N] \in S
  <2> N \in 0 .. N
    BY <1>1
  <2> QED
    BY <1>16
<1> QED
  BY <1>12, <1>13, <1>14, <1>17, <1>18 DEF N, S

(* What is left of a dump is in the same order.                            *)
LEMMA TruncatedKeeps ==
  ASSUME NEW lines \in Seq(Written1), Ordered(lines), NEW dump
  PROVE  /\ Truncated(lines, dump) \in Seq(Written1)
         /\ Ordered(Truncated(lines, dump))
         /\ From(Truncated(lines, dump), lines, Len(lines))
<1> DEFINE N == Len(lines)
           S == Seq(Written1)
<1>1. PICK f : /\ f[0] = <<>>
               /\ \A i \in 1 .. N :
                    /\ f[i - 1] \in S
                    /\ f[i] = IF lines[i].dump = dump THEN f[i - 1]
                              ELSE Append(f[i - 1], lines[i])
               /\ Truncated(lines, dump) = f[N]
               /\ f[N] \in S
  BY TruncatedIs
<1>2. N \in Nat
  OBVIOUS
<1> DEFINE T == {i \in 0 .. N : Ordered(f[i]) /\ From(f[i], lines, i)}
<1>3. 0 \in T
  <2>1. Len(<<>>) = 0 /\ 0 \in 0 .. N
    BY <1>2
  <2> QED
    BY <1>1, <2>1 DEF Ordered, From
<1>4. ASSUME NEW i \in 1 .. N, i - 1 \in T PROVE i \in T
  <2>0. i \in 0 .. N /\ i - 1 \in Nat /\ i \in Nat
    BY <1>2
  <2>1. CASE lines[i].dump = dump
    <3>1. f[i] = f[i - 1]
      BY <1>1, <2>1
    <3>2. From(f[i - 1], lines, i)
      BY <1>4, <2>0 DEF From
    <3> QED
      BY <1>4, <2>0, <3>1, <3>2
  <2>2. CASE lines[i].dump # dump
    <3> DEFINE g == f[i - 1]
               n == Len(g)
    <3>0. lines[i] \in Written1
      BY <1>2
    <3>1. f[i] = Append(g, lines[i]) /\ g \in S
      <4> HIDE DEF S, N
      <4> QED
        BY <1>1, <2>2
    <3>2. n \in Nat /\ Ordered(g) /\ From(g, lines, i - 1)
      BY <1>4, <3>1
    <3> HIDE DEF g
    <3>3. /\ Len(f[i]) = n + 1 /\ f[i][n + 1] = lines[i]
          /\ \A k \in 1 .. n : f[i][k] = g[k]
      BY <3>0, <3>1
    <3> HIDE DEF n
    <3>4. From(f[i], lines, i)
      <4>1. ASSUME NEW k \in 1 .. n + 1 PROVE \E j \in 1 .. i : f[i][k] = lines[j]
        <5>1. CASE k = n + 1
          <6> i \in 1 .. i
            BY <2>0
          <6> QED
            BY <3>3, <5>1
        <5>2. CASE k # n + 1
          <6>1. k \in 1 .. n
            BY <3>2, <5>2
          <6>2. PICK j \in 1 .. i - 1 : g[k] = lines[j]
            BY <3>2, <6>1 DEF From, n
          <6>3. j \in 1 .. i
            BY <2>0
          <6> QED
            BY <3>3, <6>1, <6>2, <6>3
        <5> QED
          BY <5>1, <5>2
      <4> QED
        BY <3>3, <4>1 DEF From
    <3>5. Ordered(f[i])
      <4>1. ASSUME NEW k \in 1 .. n + 1, NEW m \in 1 .. n + 1, k < m
            PROVE  Before(f[i][k].path, f[i][m].path)
        <5>1. k \in 1 .. n
          BY <3>2, <4>1
        <5>2. CASE m \in 1 .. n
          BY <3>2, <3>3, <4>1, <5>1, <5>2 DEF Ordered, n
        <5>3. CASE m = n + 1
          <6>1. PICK j \in 1 .. i - 1 : g[k] = lines[j]
            BY <3>2, <5>1 DEF From, n
          <6>2. j \in 1 .. N /\ j < i
            BY <1>2, <2>0
          <6>3. Before(lines[j].path, lines[i].path)
            BY <6>2 DEF Ordered
          <6> QED
            BY <3>3, <5>1, <5>3, <6>1, <6>3
        <5> QED
          BY <3>2, <5>2, <5>3
      <4> QED
        BY <3>3, <4>1 DEF Ordered
    <3> QED
      BY <2>0, <3>4, <3>5
  <2> QED
    BY <2>1, <2>2
<1>5. N \in T
  <2>1. N \in 0 .. N
    BY <1>2
  <2> HIDE DEF T
  <2> QED
    BY <1>2, <1>3, <1>4, <2>1, CountUp
<1> QED
  BY <1>1, <1>5

-----------------------------------------------------------------------------
(* The lines of a list.                                                    *)

LineStates == [tree : Trees, at : Paths]

(* What one line of a list does to the tree.                               *)
LEMMA LineTyped ==
  ASSUME NEW acc \in LineStates, NEW p \in Paths \ {<<>>}
  PROVE  /\ Line(acc, p) \in LineStates
         /\ Line(acc, p).tree.node = acc.tree.node \cup Prefixes(p)
         /\ Line(acc, p).tree.filled = acc.tree.filled \cup {p}
         /\ Line(acc, p).tree.changed = acc.tree.changed \cup Unmarked(acc.tree, p)
         /\ Line(acc, p).tree.sorting = acc.tree.sorting
<1> DEFINE t == acc.tree
           f == Fill(t, p)
           g == [f EXCEPT !.reading = (@ \ {acc.at}) \cup {Parent(p)}]
<1>1. t \in Trees /\ acc.at \in Paths /\ Parent(p) \in Paths
  BY ParentIs DEF LineStates
<1>2. Unmarked(t, p) \subseteq Paths /\ Prefixes(p) \subseteq Paths
  BY PrefixesAre DEF Unmarked
<1>3. /\ f \in Trees /\ f.node = t.node \cup Prefixes(p)
      /\ f.filled = t.filled \cup {p}
      /\ f.changed = t.changed \cup Unmarked(t, p)
      /\ f.sorting = t.sorting
  BY <1>1, <1>2 DEF Fill, Trees
<1>4. Line(acc, p) = [tree |-> g, at |-> Parent(p)]
  BY DEF Line
<1> HIDE DEF f
<1>5. /\ g \in Trees /\ g.node = f.node /\ g.filled = f.filled
      /\ g.changed = f.changed /\ g.sorting = f.sorting
  BY <1>1, <1>3 DEF Trees
<1> HIDE DEF g
<1> QED
  BY <1>1, <1>3, <1>4, <1>5 DEF LineStates

(* The lines are read one after the other.                                 *)
LEMMA LinesFollow ==
  ASSUME NEW acc \in LineStates, NEW n \in Nat, NEW texts,
         \A i \in 1 .. n : texts[i] \in Paths \ {<<>>}
  PROVE  \E f : /\ f[0] = acc
                /\ \A i \in 1 .. n : f[i - 1] \in LineStates /\ f[i] = Line(f[i - 1], texts[i])
                /\ Lines(acc, texts, n) = f[n]
                /\ f[n] \in LineStates
<1> DEFINE S == LineStates
           h == [i \in 1 .. n |-> [s \in S |-> Line(s, texts[i])]]
           Rule(f) == f = [i \in 0 .. n |-> IF i = 0 THEN acc ELSE Line(f[i - 1], texts[i])]
           read == CHOOSE f : Rule(f)
<1>2. \A i \in 1 .. n : \A s \in S : Line(s, texts[i]) \in S
  BY LineTyped
<1>3. \A i \in 1 .. n : \A s \in S : h[i][s] = Line(s, texts[i])
  OBVIOUS
<1>0. acc \in S
  OBVIOUS
<1> HIDE DEF S, h
<1>4. PICK f : Follows(f, n, acc, h)
  BY Recursion
<1> DEFINE T == {i \in 0 .. n : f[i] \in S}
<1>5. ASSUME NEW i \in 1 .. n, i - 1 \in T PROVE i \in T
  <2>1. f[i] = h[i][f[i - 1]] /\ f[i - 1] \in S
    BY <1>4, <1>5 DEF Follows
  <2>2. f[i] \in S
    BY <1>2, <1>3, <2>1
  <2> QED
    BY <2>2
<1>6. 0 .. n \subseteq T
  <2>1. 0 \in T
    <3>1. f[0] = acc /\ 0 \in 0 .. n
      BY <1>4 DEF Follows
    <3> QED
      BY <1>0, <3>1
  <2> HIDE DEF T
  <2> QED
    BY <1>5, <2>1, CountUp
<1>7. \A i \in 1 .. n : i - 1 \in 0 .. n /\ i \in 0 .. n /\ i # 0
  OBVIOUS
<1>8. \A i \in 1 .. n : f[i - 1] \in S /\ f[i] = Line(f[i - 1], texts[i])
  BY <1>3, <1>4, <1>6, <1>7 DEF Follows
<1>9. f = [i \in 0 .. n |-> f[i]] /\ f[0] = acc
  BY <1>4 DEF Follows
<1>10. Rule(f)
  <2>1. \A i \in 0 .. n : i = 0 \/ i \in 1 .. n
    OBVIOUS
  <2>2. \A i \in 0 .. n : f[i] = IF i = 0 THEN acc ELSE Line(f[i - 1], texts[i])
    BY <1>7, <1>8, <1>9, <2>1
  <2> QED
    BY <1>9, <2>2
<1>11. Rule(read)
  BY <1>10
<1>12. Lines(acc, texts, n) = read[n]
  BY DEF Lines
<1> HIDE DEF read
<1>13. read[0] = acc
  <2>1. 0 \in 0 .. n
    OBVIOUS
  <2> QED
    BY <1>11, <2>1
<1>14. \A i \in 1 .. n : read[i] = Line(read[i - 1], texts[i])
  BY <1>7, <1>11
<1> DEFINE U == {i \in 0 .. n : read[i] \in S}
<1>15. ASSUME NEW i \in 1 .. n, i - 1 \in U PROVE i \in U
  <2>1. read[i] \in S
    BY <1>2, <1>14, <1>15
  <2> QED
    BY <2>1
<1>16. 0 .. n \subseteq U
  <2>1. 0 \in U
    BY <1>0, <1>13
  <2> HIDE DEF U
  <2> QED
    BY <1>15, <2>1, CountUp
<1>17. \A i \in 1 .. n : read[i - 1] \in S
  BY <1>7, <1>16
<1>18. read[n] \in S
  BY <1>16
<1> QED
  BY <1>12, <1>13, <1>14, <1>17, <1>18 DEF S

(* Reading lines fills their paths, and keeps the marks.                   *)
LEMMA LinesOk ==
  ASSUME NEW t, TreeOk(t), NEW at \in Paths, NEW n \in Nat, NEW texts,
         \A i \in 1 .. n : texts[i] \in Paths \ {<<>>}
  PROVE  LET u == Lines([tree |-> t, at |-> at], texts, n).tree
         IN  /\ TreeOk(u)
             /\ u.filled = t.filled \cup {texts[i] : i \in 1 .. n}
             /\ t.changed \subseteq u.changed
             /\ u.sorting = t.sorting
             /\ MarksOk(t) => MarksOk(u)
<1> DEFINE acc == [tree |-> t, at |-> at]
           Good(s, i) == /\ s \in LineStates /\ TreeOk(s.tree)
                         /\ s.tree.filled = t.filled \cup {texts[j] : j \in 1 .. i}
                         /\ t.changed \subseteq s.tree.changed
                         /\ s.tree.sorting = t.sorting
                         /\ MarksOk(t) => MarksOk(s.tree)
<1>1. acc \in LineStates
  BY DEF LineStates, TreeOk
<1>2. PICK f : /\ f[0] = acc
               /\ \A i \in 1 .. n : f[i - 1] \in LineStates /\ f[i] = Line(f[i - 1], texts[i])
               /\ Lines(acc, texts, n) = f[n]
               /\ f[n] \in LineStates
  <2> HIDE DEF acc
  <2> QED
    BY <1>1, LinesFollow
<1> DEFINE T == {i \in 0 .. n : Good(f[i], i)}
<1>3. 0 \in T
  <2>1. {texts[j] : j \in 1 .. 0} = {}
    OBVIOUS
  <2>2. Good(acc, 0)
    BY <1>1, <2>1
  <2> QED
    BY <1>2, <2>2
<1>4. ASSUME NEW i \in 1 .. n, i - 1 \in T PROVE i \in T
  <2> DEFINE s == f[i - 1]
             p == texts[i]
             u == Line(s, p)
  <2>1. Good(s, i - 1) /\ p \in Paths \ {<<>>} /\ f[i] = u
    BY <1>2, <1>4
  <2>2. {texts[j] : j \in 1 .. i} = {texts[j] : j \in 1 .. i - 1} \cup {p}
    <3>1. 1 .. i = (1 .. i - 1) \cup {i}
      OBVIOUS
    <3> QED
      BY <3>1
  <2> HIDE DEF s, p
  <2>3. /\ u \in LineStates
        /\ u.tree.node = s.tree.node \cup Prefixes(p)
        /\ u.tree.filled = s.tree.filled \cup {p}
        /\ u.tree.changed = s.tree.changed \cup Unmarked(s.tree, p)
        /\ u.tree.sorting = s.tree.sorting
    BY <2>1, LineTyped
  <2>4. /\ TreeOk(Fill(s.tree, p))
        /\ Fill(s.tree, p).node = s.tree.node \cup Prefixes(p)
        /\ Fill(s.tree, p).filled = s.tree.filled \cup {p}
        /\ Fill(s.tree, p).changed = s.tree.changed \cup Unmarked(s.tree, p)
        /\ Fill(s.tree, p).sorting = s.tree.sorting
    <3>1. s.tree \in Trees
      BY <2>1 DEF LineStates
    <3>2. Fill(s.tree, p).node = s.tree.node \cup Prefixes(p)
      BY <3>1 DEF Fill, Trees
    <3> QED
      BY <2>1, <3>2, FillOk
  <2> HIDE DEF u
  <2>5. TreeOk(u.tree)
    <3>1. u.tree \in Trees
      BY <2>3 DEF LineStates
    <3> QED
      BY <2>3, <2>4, <3>1 DEF TreeOk
  <2>6. MarksOk(t) => MarksOk(u.tree)
    <3> SUFFICES ASSUME MarksOk(t) PROVE MarksOk(u.tree)
      OBVIOUS
    <3>1. MarksOk(Fill(s.tree, p))
      BY <2>1, FillMarks
    <3> QED
      BY <2>3, <2>4, <3>1 DEF MarksOk
  <2>7. Good(u, i)
    <3>1. u.tree.filled = t.filled \cup {texts[j] : j \in 1 .. i}
      BY <2>1, <2>2, <2>3
    <3>2. t.changed \subseteq u.tree.changed /\ u.tree.sorting = t.sorting
      BY <2>1, <2>3
    <3> QED
      BY <2>3, <2>5, <2>6, <3>1, <3>2
  <2> QED
    BY <2>1, <2>7
<1>5. n \in T
  <2>1. n \in 0 .. n
    OBVIOUS
  <2> HIDE DEF T
  <2> QED
    BY <1>3, <1>4, <2>1, CountUp
<1>6. Good(Lines(acc, texts, n), n)
  BY <1>2, <1>5
<1> QED
  BY <1>6

-----------------------------------------------------------------------------
(* The inductive invariant.                                                *)

(* A source that is open.                                                  *)
Listings == {s.lines : s \in UNION {ToSet(cmd) : cmd \in Commands}}
Opens ==
  [kind : {"fs", "list", "lists"}, base : Paths, depth : Int, lines : Listings,
   dir : Paths, pending : Seq(SUBSET Names),
   step : {"init", "notread", "open", "read"},
   left : SUBSET Names, fd : Seq(Paths \ {<<>>})]

(* The directories that are pending: below the current one, below the one   *)
(* above it, and so on.                                                    *)
PendsAt(s, k) == {Append(SubSeq(s.dir, 1, Len(s.dir) - k + 1), n) : n \in s.pending[k]}
Pends(s) == UNION {PendsAt(s, k) : k \in 1 .. Len(s.pending)}

SourceOk(s) ==
  /\ Len(s.pending) <= Len(s.dir) + 1
  /\ s.kind # "list" /\ s.step # "read" => s.pending # <<>>
  /\ s.step = "init" => s.kind = "fs" /\ s.dir = s.base
  /\ s.kind = "lists" => Pends(s) \subseteq DOMAIN s.lines
  /\ s.kind = "lists" /\ s.step # "read" => s.dir \in DOMAIN s.lines

InputOk ==
  /\ TreeOk(tree)
  /\ sorted \in BOOLEAN
  /\ count \in Nat
  /\ in \in Seq(Opens)
  /\ \A i \in 1 .. Len(in) : SourceOk(in[i])

OutputOk ==
  /\ pc \in {"read", "last", "write", "visit", "free", "done"}
  /\ number \in {0, 1} /\ (pc = "last" => number = 0)
  /\ cpath \in Paths /\ after \in Nat /\ bpath \in Paths /\ fd \in Paths
  /\ fdstack \in Seq(Paths)
  /\ Len(fdstack) = Len(cpath) + 1 \/ (fdstack = <<>> /\ cpath = <<>> /\ pc # "visit")
  /\ log \in Seq(Written1)
  /\ Ordered(log)

(* What is after all that was written.                                     *)
Later(q) == \A i \in 1 .. Len(log) : Before(log[i].path, q)
(* A directory that can have been written, and nothing after it.            *)
NotPast(S) == \A i \in 1 .. Len(log) : log[i].path = S \/ Before(log[i].path, S)

Pos == Append(cpath, after + 1)
Filled == tree.filled \ {<<>>}
Reading == pc \in {"read", "last", "write"}

OrderOk ==
  /\ Reading => \A q \in Filled : Later(q)
  /\ pc = "visit" => \A q \in Filled : Before(q, Pos) \/ Later(q)

UnsortedOk ==
  /\ pc = "visit" => number = 0
  /\ Reading \/ (pc = "free" /\ number = 1) => log = <<>> /\ cpath = <<>>

(* A sorted file system.                                                   *)
FsOk ==
  /\ Len(in) <= 1
  /\ in # <<>> =>
       /\ Current.kind = "fs"
       /\ Pends(Current) \subseteq tree.sorting
       /\ Pends(Current) \cap Prefixes(Current.dir) = {}
       /\ Current.step = "init" => log = <<>> /\ cpath = <<>> /\ count = 0
       /\ Current.step = "notread" =>
            \/ Current.dir \in tree.sorting
            \/ log = <<>> /\ cpath = <<>> /\ Current.dir \in tree.changed \cup {<<>>}
       /\ Current.step = "open" => Current.dir \in tree.sorting /\ <<>> \in tree.changed
       /\ pc # "read" =>
            \/ Current.step = "read"
            \/ Current.step = "notread" /\ Current.dir \in tree.sorting
  /\ count > 0 => pc = "read" /\ <<>> \in tree.changed
  /\ MarksOk(tree)
  /\ tree.reading = {}

Ahead(p) == (p = <<>> /\ cpath = <<>>) \/ Before(cpath, p)

RoundOk ==
  /\ Reading \/ (pc = "free" /\ number = 1) =>
       /\ \A S \in tree.sorting : Ahead(S) /\ NotPast(S)
  /\ Reading =>
       /\ \A q \in Filled : Before(cpath, q)
       /\ cpath # <<>> => cpath \in tree.changed /\ HasSub(tree, cpath)
  /\ pc = "write" /\ number = 1 => <<>> \in tree.changed
  /\ pc = "visit" /\ number = 1 =>
       /\ \A q \in Filled : Before(q, Pos) => q \in Reached(tree)
       /\ Prefixes(cpath) \subseteq tree.changed \ tree.sorting
       /\ \A S \in tree.sorting : ~Before(S, Pos) /\ NotPast(S)
  /\ pc = "free" /\ number = 1 =>
       /\ \A q \in Filled : q \in Visited(tree) \/ (Later(q) /\ Before(cpath, q))
       /\ cpath # <<>> =>
            /\ cpath \in tree.changed
            /\ \E S \in tree.sorting : IsStrictPrefix(cpath, S)

(* A file system sorted or not, or anything that is not sorted.            *)
Plain == sorted => sources[1].kind = "fs"

IInv ==
  /\ InputOk /\ OutputOk
  /\ OrderOk
  /\ ~sorted => UnsortedOk
  /\ sorted => FsOk /\ RoundOk

-----------------------------------------------------------------------------
(* A source going down and up.                                             *)

(* The lists of a source name paths below the root.                        *)
LEMMA ListingsAre ==
  ASSUME NEW lines \in Listings
  PROVE  /\ DOMAIN lines \subseteq Paths /\ IsFiniteSet(DOMAIN lines)
         /\ \A p \in DOMAIN lines : lines[p] \in Seq(Paths \ {<<>>})
<1>1. PICK cmd \in Commands : \E s \in ToSet(cmd) : lines = s.lines
  BY DEF Listings
<1> QED
  BY <1>1, CommandsAssumption

(* Min of some numbers is one of them.                                     *)
LEMMA MinIs ==
  ASSUME NEW T \in SUBSET Nat, T # {}
  PROVE  Min(T) \in T
<1>1. \E n \in T : \A m \in T : n <= m
  BY LeastNat
<1> QED
  BY <1>1 DEF Min

(* The directories above a path.                                           *)
LEMMA UpTo ==
  ASSUME NEW p \in Paths, NEW k \in 1 .. Len(p) + 1
  PROVE  /\ Len(p) - k + 1 \in 0 .. Len(p)
         /\ SubSeq(p, 1, Len(p) - k + 1) \in Paths
         /\ Len(SubSeq(p, 1, Len(p) - k + 1)) = Len(p) - k + 1
<1>1. Len(p) \in Nat
  BY AtIs
<1> DEFINE m == Len(p) - k + 1
<1>2. m \in 0 .. Len(p)
  BY <1>1
<1> HIDE DEF m
<1>3. SubSeq(p, 1, m) \in Paths /\ Len(SubSeq(p, 1, m)) = m
  BY <1>2 DEF Paths
<1> QED
  BY <1>2, <1>3 DEF m

(* What is pending are entries of directories above the current one.       *)
LEMMA PendsTyped ==
  ASSUME NEW s \in Opens, SourceOk(s), NEW k \in 1 .. Len(s.pending), NEW n \in s.pending[k]
  PROVE  /\ n \in Names /\ SubSeq(s.dir, 1, Len(s.dir) - k + 1) \in Paths
         /\ Append(SubSeq(s.dir, 1, Len(s.dir) - k + 1), n) \in Paths
         /\ Len(Append(SubSeq(s.dir, 1, Len(s.dir) - k + 1), n)) = Len(s.dir) - k + 2
<1>1. s.dir \in Paths /\ s.pending \in Seq(SUBSET Names)
  BY DEF Opens
<1>2. s.pending[k] \in SUBSET Names
  BY <1>1
<1>3. k \in 1 .. Len(s.dir) + 1
  <2>1. Len(s.dir) \in Nat /\ Len(s.pending) \in Nat /\ Len(s.pending) <= Len(s.dir) + 1
    BY <1>1, AtIs DEF SourceOk
  <2> QED
    BY <2>1
<1> DEFINE u == SubSeq(s.dir, 1, Len(s.dir) - k + 1)
<1>4. u \in Paths /\ Len(u) = Len(s.dir) - k + 1 /\ n \in Nat \ {0}
  BY <1>1, <1>2, <1>3, UpTo DEF Names
<1> HIDE DEF u
<1>5. Append(u, n) \in Paths /\ Len(Append(u, n)) = Len(u) + 1
  BY <1>4, AppendIs
<1>6. Len(s.dir) \in Nat
  BY <1>1, AtIs
<1> QED
  BY <1>4, <1>5, <1>6 DEF u, Names

(* What is pending are paths.                                              *)
LEMMA PendsArePaths ==
  ASSUME NEW s \in Opens, SourceOk(s)
  PROVE  Pends(s) \subseteq Paths
<1> SUFFICES ASSUME NEW k \in 1 .. Len(s.pending), NEW p \in PendsAt(s, k)
             PROVE  p \in Paths
  BY DEF Pends
<1>1. PICK n \in s.pending[k] : p = Append(SubSeq(s.dir, 1, Len(s.dir) - k + 1), n)
  BY DEF PendsAt
<1> QED
  BY <1>1, PendsTyped

(* Only the position counts.                                               *)
LEMMA SamePosition ==
  ASSUME NEW s, NEW u, u.dir = s.dir, u.pending = s.pending
  PROVE  Pends(u) = Pends(s)
BY DEF Pends, PendsAt

(* A sequence put behind two elements.                                     *)
LEMMA TwoAndRest ==
  ASSUME NEW S, NEW two \in Seq(S), NEW rest \in Seq(S), Len(two) = 2
  PROVE  /\ two \o rest \in Seq(S) /\ Len(two \o rest) = 2 + Len(rest)
         /\ (two \o rest)[1] = two[1] /\ (two \o rest)[2] = two[2]
         /\ \A k \in 3 .. 2 + Len(rest) : (two \o rest)[k] = rest[k - 2]
<1> DEFINE both == two \o rest
<1>1. /\ both \in Seq(S) /\ Len(both) = Len(two) + Len(rest)
      /\ \A k \in 1 .. Len(two) + Len(rest) :
           both[k] = IF k <= Len(two) THEN two[k] ELSE rest[k - Len(two)]
  BY ConcatProperties
<1>2. Len(rest) \in Nat
  OBVIOUS
<1> HIDE DEF both
<1>3. both[1] = two[1] /\ both[2] = two[2]
  BY <1>1, <1>2
<1>4. \A k \in 3 .. 2 + Len(rest) : both[k] = rest[k - 2]
  BY <1>1, <1>2
<1> QED
  BY <1>1, <1>3, <1>4 DEF both

DownPending(s) == <<{}, Head(s.pending) \ {Min(Head(s.pending))}>> \o Tail(s.pending)

(* The stack of pending directories after a step down.                     *)
LEMMA DownPends ==
  ASSUME NEW s \in Opens, SourceOk(s), s.pending # <<>>, Head(s.pending) # {}
  PROVE  /\ Min(Head(s.pending)) \in Names
         /\ Append(s.dir, Min(Head(s.pending))) \in Pends(s)
         /\ DownPending(s) \in Seq(SUBSET Names)
         /\ Len(DownPending(s)) = Len(s.pending) + 1
         /\ DownPending(s)[1] = {}
         /\ DownPending(s)[2] = Head(s.pending) \ {Min(Head(s.pending))}
         /\ \A k \in 3 .. Len(s.pending) + 1 : DownPending(s)[k] = s.pending[k - 1]
<1> DEFINE P == s.pending
           n == Min(Head(P))
           L == Len(P)
<1>1. P \in Seq(SUBSET Names) /\ s.dir \in Paths
  BY DEF Opens
<1>2. L \in Nat /\ L >= 1 /\ 1 \in 1 .. L
  BY <1>1
<1>3. P[1] = Head(P) /\ Head(P) \in SUBSET Names
  BY <1>1, <1>2
<1>4. n \in Head(P) /\ n \in Names
  BY <1>3, MinIs DEF Names
<1>5. Append(s.dir, n) \in Pends(s)
  <2>1. Len(s.dir) - 1 + 1 = Len(s.dir) /\ SubSeq(s.dir, 1, Len(s.dir)) = s.dir
    <3>1. Len(s.dir) \in Nat
      BY <1>1, AtIs
    <3> QED
      BY <1>1, <3>1, SubSeqFull DEF Paths
  <2>2. Append(s.dir, n) \in PendsAt(s, 1)
    BY <1>3, <1>4, <2>1 DEF PendsAt
  <2> QED
    BY <1>2, <2>2 DEF Pends
<1> DEFINE two == <<{}, Head(P) \ {n}>>
           Q == two \o Tail(P)
<1>6. /\ two \in Seq(SUBSET Names) /\ Len(two) = 2 /\ two[1] = {} /\ two[2] = Head(P) \ {n}
      /\ Tail(P) \in Seq(SUBSET Names) /\ Len(Tail(P)) = L - 1
      /\ \A k \in 1 .. L - 1 : Tail(P)[k] = P[k + 1]
  BY <1>1, <1>2, <1>3
<1> HIDE DEF two, P, L
<1>7. /\ Q \in Seq(SUBSET Names) /\ Len(Q) = L + 1
      /\ Q[1] = {} /\ Q[2] = Head(P) \ {n}
      /\ \A k \in 3 .. L + 1 : Q[k] = Tail(P)[k - 2]
  <2> DEFINE rest == Tail(P)
  <2>1. rest \in Seq(SUBSET Names) /\ Len(rest) = L - 1
    BY <1>6
  <2> HIDE DEF rest
  <2> DEFINE both == two \o rest
  <2>0. /\ both \in Seq(SUBSET Names) /\ Len(both) = 2 + Len(rest)
        /\ both[1] = two[1] /\ both[2] = two[2]
        /\ \A k \in 3 .. 2 + Len(rest) : both[k] = rest[k - 2]
    BY <1>6, <2>1, TwoAndRest
  <2> HIDE DEF both
  <2>3. Len(both) = L + 1
    BY <1>2, <2>0, <2>1
  <2>5. \A k \in 3 .. L + 1 : both[k] = rest[k - 2]
    BY <1>2, <2>0, <2>1
  <2> QED
    BY <1>6, <2>0, <2>3, <2>5 DEF rest, both
<1>8. \A k \in 3 .. L + 1 : Q[k] = P[k - 1]
  <2> TAKE k \in 3 .. L + 1
  <2>1. k - 2 \in 1 .. L - 1 /\ (k - 2) + 1 = k - 1
    BY <1>2
  <2> QED
    BY <1>6, <1>7, <2>1
<1>9. Q = DownPending(s)
  BY DEF DownPending, two, P
<1> QED
  BY <1>4, <1>5, <1>7, <1>8, <1>9 DEF P, L

DownDir(s) == Append(s.dir, Min(Head(s.pending)))

(* What a step down changes of a source.                                   *)
LEMMA DownIs ==
  ASSUME NEW s \in Opens, SourceOk(s), s.pending # <<>>, Head(s.pending) # {}
  PROVE  /\ Down(s) \in Opens
         /\ Down(s).kind = s.kind /\ Down(s).lines = s.lines
         /\ Down(s).dir = DownDir(s) /\ Down(s).pending = DownPending(s)
         /\ Down(s).step = "notread"
<1> DEFINE n == Min(Head(s.pending))
           down == [s EXCEPT !.dir = Append(@, n),
                             !.pending = <<{}, Head(@) \ {n}>> \o Tail(@),
                             !.depth = IF @ = 0 THEN 0 ELSE @ - 1,
                             !.step = "notread"]
           d == DownDir(s)
           P == DownPending(s)
           depth == IF s.depth = 0 THEN 0 ELSE s.depth - 1
<1>1. n \in Names /\ P \in Seq(SUBSET Names)
  BY DownPends
<1>2. s.dir \in Paths /\ s.depth \in Int
  BY DEF Opens
<1>3. d \in Paths
  BY <1>1, <1>2, AppendIs DEF DownDir, Names
<1>4. depth \in Int
  BY <1>2
<1>5. down = [s EXCEPT !.dir = d, !.pending = P, !.depth = depth, !.step = "notread"]
  BY DEF DownDir, DownPending
<1> HIDE DEF d, P, depth, down
<1>6. /\ down \in Opens /\ down.kind = s.kind /\ down.lines = s.lines
      /\ down.dir = d /\ down.pending = P /\ down.step = "notread"
  BY <1>1, <1>3, <1>4, <1>5 DEF Opens
<1>7. Children(down) \in SUBSET Names
  <2>1. ASSUME NEW e \in Entries PROVE Last(e) \in Names
    <3>1. e \in Paths \ {<<>>}
      BY EntriesAssumption
    <3> QED
      BY <3>1, ParentIs DEF Names
  <2> QED
    BY <2>1 DEF Children
<1> DEFINE C == Children(down)
           u == [down EXCEPT !.left = C]
<1>8. Down(s) = u
  BY DEF Down, down
<1>9. C \in SUBSET Names
  BY <1>7
<1> HIDE DEF C
<1>10. /\ u \in Opens /\ u.kind = down.kind /\ u.lines = down.lines
       /\ u.dir = down.dir /\ u.pending = down.pending /\ u.step = down.step
  BY <1>6, <1>9 DEF Opens
<1> QED
  BY <1>6, <1>8, <1>10 DEF d, P

(* The entries of a directory are names.                                   *)
LEMMA ChildrenAre == ASSUME NEW s PROVE Children(s) \in SUBSET Names
<1>1. ASSUME NEW e \in Entries PROVE Last(e) \in Names
  <2>1. e \in Paths \ {<<>>}
    BY EntriesAssumption
  <2> QED
    BY <2>1, ParentIs DEF Names
<1> QED
  BY <1>1 DEF Children

(* The beginning of a longer path.                                         *)
LEMMA BeginOfAppend ==
  ASSUME NEW p \in Paths, NEW n \in Names, NEW m \in 0 .. Len(p)
  PROVE  SubSeq(Append(p, n), 1, m) = SubSeq(p, 1, m)
<1>1. Len(p) \in Nat /\ Len(Append(p, n)) = Len(p) + 1
      /\ \A i \in 1 .. Len(p) : Append(p, n)[i] = p[i]
  BY DEF Paths
<1>2. \A i \in 1 .. m : Append(p, n)[i] = p[i]
  BY <1>1
<1>3. SubSeq(Append(p, n), 1, m) = [i \in 1 .. m |-> Append(p, n)[i]]
  BY <1>1
<1>4. SubSeq(p, 1, m) = [i \in 1 .. m |-> p[i]]
  BY <1>1 DEF Paths
<1> QED
  BY <1>2, <1>3, <1>4

(* A step down goes to what was pending, which then is no more.            *)
LEMMA DownOk ==
  ASSUME NEW s \in Opens, SourceOk(s), s.pending # <<>>, Head(s.pending) # {}
  PROVE  /\ SourceOk(Down(s))
         /\ Down(s).dir \in Pends(s)
         /\ Pends(Down(s)) \subseteq Pends(s) \ {Down(s).dir}
         /\ Prefixes(Down(s).dir) \subseteq Prefixes(s.dir) \cup {Down(s).dir}
<1> DEFINE u == Down(s)
           n == Min(Head(s.pending))
           d == Append(s.dir, n)
           Q == DownPending(s)
           L == Len(s.pending)
<1>1. /\ u \in Opens /\ u.kind = s.kind /\ u.lines = s.lines
      /\ u.dir = d /\ u.pending = Q /\ u.step = "notread"
  BY DownIs DEF DownDir
<1>2. /\ n \in Names /\ d \in Pends(s)
      /\ Q \in Seq(SUBSET Names) /\ Len(Q) = L + 1
      /\ Q[1] = {} /\ Q[2] = Head(s.pending) \ {n}
      /\ \A k \in 3 .. L + 1 : Q[k] = s.pending[k - 1]
  BY DownPends
<1>3. s.dir \in Paths /\ s.pending \in Seq(SUBSET Names) /\ L \in Nat /\ L >= 1
      /\ Head(s.pending) = s.pending[1] /\ Len(s.dir) \in Nat /\ L <= Len(s.dir) + 1
  <2>1. s.dir \in Paths /\ s.pending \in Seq(SUBSET Names)
    BY DEF Opens
  <2>2. Len(s.dir) \in Nat
    BY <2>1, AtIs
  <2> QED
    BY <2>1, <2>2 DEF SourceOk
<1>4. d \in Paths /\ Len(d) = Len(s.dir) + 1 /\ Parent(d) = s.dir /\ IsPrefix(s.dir, d)
  BY <1>2, <1>3, AppendIs DEF Names
<1> HIDE DEF u, Q, L
<1>5. ASSUME NEW k \in 1 .. Len(Q), NEW m \in Q[k]
      PROVE  /\ k > 1 /\ k - 1 \in 1 .. L /\ m \in s.pending[k - 1]
             /\ SubSeq(d, 1, Len(d) - k + 1) = SubSeq(s.dir, 1, Len(s.dir) - (k - 1) + 1)
             /\ k = 2 => m # n
  <2>1. k > 1
    BY <1>2, <1>5
  <2>2. k - 1 \in 1 .. L /\ Len(d) - k + 1 = Len(s.dir) - (k - 1) + 1
        /\ Len(s.dir) - (k - 1) + 1 \in 0 .. Len(s.dir)
    BY <1>2, <1>3, <1>4, <2>1
  <2>3. SubSeq(d, 1, Len(d) - k + 1) = SubSeq(s.dir, 1, Len(s.dir) - (k - 1) + 1)
    BY <1>2, <1>3, <2>2, BeginOfAppend
  <2>4. CASE k = 2
    BY <1>2, <1>3, <1>5, <2>1, <2>2, <2>3, <2>4
  <2>5. CASE k # 2
    <3>1. k \in 3 .. L + 1
      BY <1>2, <1>3, <2>1, <2>5
    <3> QED
      BY <1>2, <1>5, <2>1, <2>2, <2>3, <2>5, <3>1
  <2> QED
    BY <2>4, <2>5
<1>6. Pends(u) \subseteq Pends(s) \ {d}
  <2> SUFFICES ASSUME NEW k \in 1 .. Len(Q), NEW p \in PendsAt(u, k)
               PROVE  p \in Pends(s) \ {d}
    BY <1>1 DEF Pends
  <2>1. PICK m \in Q[k] : p = Append(SubSeq(d, 1, Len(d) - k + 1), m)
    BY <1>1 DEF PendsAt
  <2>2. /\ k > 1 /\ k - 1 \in 1 .. L /\ m \in s.pending[k - 1]
        /\ p = Append(SubSeq(s.dir, 1, Len(s.dir) - (k - 1) + 1), m)
        /\ k = 2 => m # n
    BY <1>5, <2>1
  <2>3. p \in Pends(s)
    <3>1. p \in PendsAt(s, k - 1)
      BY <2>2 DEF PendsAt
    <3>2. k - 1 \in 1 .. Len(s.pending)
      BY <2>2 DEF L
    <3> QED
      BY <3>1, <3>2 DEF Pends
  <2>4. p # d
    <3> DEFINE v == SubSeq(s.dir, 1, Len(s.dir) - (k - 1) + 1)
    <3>1. v \in Paths /\ m \in Names /\ Len(p) = Len(s.dir) - (k - 1) + 2
      BY <2>2, PendsTyped DEF L
    <3> HIDE DEF v
    <3>2. p = Append(v, m)
      BY <2>2 DEF v
    <3>3. CASE k = 2
      <4>1. Last(p) = m /\ Last(d) = n
        BY <1>2, <1>3, <3>1, <3>2, AppendIs DEF Names
      <4> QED
        BY <2>2, <3>3, <4>1
    <3>4. CASE k # 2
      BY <1>3, <1>4, <2>2, <3>1, <3>4
    <3> QED
      BY <3>3, <3>4
  <2> QED
    BY <2>3, <2>4
<1>7. SourceOk(u)
  <2>1. Len(u.pending) <= Len(u.dir) + 1 /\ u.pending # <<>>
    BY <1>1, <1>2, <1>3, <1>4
  <2>2. s.kind = "lists" => Pends(s) \subseteq DOMAIN s.lines
    BY DEF SourceOk
  <2> QED
    BY <1>1, <1>2, <1>6, <2>1, <2>2 DEF SourceOk
<1>8. Prefixes(d) \subseteq Prefixes(s.dir) \cup {d}
  <2> SUFFICES ASSUME NEW p \in Prefixes(d), p # d PROVE p \in Prefixes(s.dir)
    OBVIOUS
  <2>1. p \in Paths /\ IsPrefix(p, d)
    BY <1>4, PrefixesAre
  <2>2. IsPrefix(p, s.dir)
    <3>1. CASE IsPrefix(s.dir, p)
      <4>1. Len(s.dir) <= Len(p) /\ (Len(s.dir) = Len(p) => s.dir = p)
        BY <1>3, <2>1, <3>1, PrefixLen
      <4>2. Len(p) <= Len(d) /\ Len(p) # Len(d) /\ Len(p) \in Nat
        BY <1>4, <2>1, PrefixLen, AtIs
      <4>3. s.dir = p
        BY <1>3, <1>4, <4>1, <4>2
      <4> QED
        BY <1>3, <4>3, PrefixRefl
    <3> QED
      BY <1>3, <1>4, <2>1, <3>1, PrefixesCompare
  <2> QED
    BY <1>3, <2>1, <2>2, PrefixesAre
<1> QED
  BY <1>1, <1>2, <1>6, <1>7, <1>8 DEF u

(* A step up leaves nothing pending below the new position.                *)
LEMMA ClimbOk ==
  ASSUME NEW s \in Opens, SourceOk(s), s.pending # <<>>, s.step = "read"
  PROVE  /\ Climb(s) \in Opens /\ SourceOk(Climb(s))
         /\ Climb(s).kind = s.kind /\ Climb(s).step = "read"
         /\ Pends(Climb(s)) \subseteq Pends(s)
         /\ Climb(s).dir \in Prefixes(s.dir)
<1> DEFINE L == Len(s.pending)
           d == IF L = 1 THEN s.dir ELSE Parent(s.dir)
           depth == IF s.depth = 0 THEN 0 ELSE s.depth + 1
           T == Tail(s.pending)
           u == Climb(s)
<1>1. s.dir \in Paths /\ s.pending \in Seq(SUBSET Names) /\ s.depth \in Int
  BY DEF Opens
<1>2. L \in Nat /\ L >= 1 /\ Len(s.dir) \in Nat /\ L <= Len(s.dir) + 1
  <2>1. Len(s.dir) \in Nat
    BY <1>1, AtIs
  <2> QED
    BY <1>1, <2>1 DEF SourceOk
<1>3. /\ T \in Seq(SUBSET Names) /\ Len(T) = L - 1
      /\ \A k \in 1 .. L - 1 : T[k] = s.pending[k + 1]
  BY <1>1, <1>2
<1>4. /\ d \in Paths /\ IsPrefix(d, s.dir)
      /\ L > 1 => Len(d) = Len(s.dir) - 1 /\ d = SubSeq(s.dir, 1, Len(s.dir) - 1)
  <2>1. CASE L = 1
    BY <1>1, <2>1, PrefixRefl
  <2>2. CASE L # 1
    <3>1. s.dir # <<>>
      <4>1. Len(s.dir) >= 1
        <5> HIDE DEF L
        <5> QED
          BY <1>2, <2>2
      <4> QED
        BY <4>1
    <3>2. Parent(s.dir) \in Paths /\ s.dir = Append(Parent(s.dir), Last(s.dir))
          /\ Last(s.dir) \in Nat \ {0}
      BY <1>1, <3>1, ParentIs
    <3> DEFINE v == Parent(s.dir)
               m == Last(s.dir)
    <3>3. v \in Paths /\ m \in Nat \ {0} /\ s.dir = Append(v, m)
      BY <3>2
    <3> HIDE DEF v, m
    <3>4. IsPrefix(v, s.dir) /\ Len(s.dir) = Len(v) + 1 /\ Len(v) \in Nat
      BY <3>3, AppendIs, AtIs
    <3>5. SubSeq(Append(v, m), 1, Len(v)) = SubSeq(v, 1, Len(v))
      BY <3>3, <3>4, BeginOfAppend DEF Names
    <3>6. SubSeq(v, 1, Len(v)) = v
      BY <3>3, SubSeqFull DEF Paths
    <3>7. Len(s.dir) - 1 = Len(v)
      BY <3>4
    <3> QED
      BY <2>2, <3>3, <3>4, <3>5, <3>6, <3>7 DEF v
  <2> QED
    BY <2>1, <2>2
<1>5. depth \in Int
  BY <1>1
<1>6. u = [s EXCEPT !.dir = d, !.pending = T, !.depth = depth]
  BY DEF Climb
<1> HIDE DEF d, depth, T, L, u
<1>7. /\ u \in Opens /\ u.kind = s.kind /\ u.lines = s.lines /\ u.step = s.step
      /\ u.dir = d /\ u.pending = T
  BY <1>3, <1>4, <1>5, <1>6 DEF Opens
<1>8. Pends(u) \subseteq Pends(s)
  <2> SUFFICES ASSUME NEW k \in 1 .. Len(T), NEW p \in PendsAt(u, k)
               PROVE  p \in Pends(s)
    BY <1>7 DEF Pends
  <2>1. PICK m \in T[k] : p = Append(SubSeq(d, 1, Len(d) - k + 1), m)
    BY <1>7 DEF PendsAt
  <2>2. k + 1 \in 1 .. L /\ m \in s.pending[k + 1] /\ L > 1
    BY <1>2, <1>3, <2>1
  <2>3. /\ Len(d) - k + 1 = Len(s.dir) - (k + 1) + 1
        /\ Len(d) - k + 1 \in 0 .. Len(d) /\ Len(d) \in Nat
    BY <1>2, <1>4, <2>2
  <2>4. SubSeq(d, 1, Len(d) - k + 1) = SubSeq(s.dir, 1, Len(s.dir) - (k + 1) + 1)
    <3>1. d \in Paths /\ Last(s.dir) \in Names /\ s.dir = Append(d, Last(s.dir))
      <4>1. d = Parent(s.dir)
        BY <1>2, <2>2 DEF d
      <4>2. s.dir # <<>>
        <5>1. Len(s.dir) >= 1
          BY <1>2, <2>2
        <5> QED
          BY <5>1
      <4> QED
        BY <1>1, <1>4, <4>1, <4>2, ParentIs DEF Names
    <3>2. SubSeq(Append(d, Last(s.dir)), 1, Len(d) - k + 1) = SubSeq(d, 1, Len(d) - k + 1)
      BY <2>3, <3>1, BeginOfAppend
    <3> QED
      BY <2>3, <3>1, <3>2
  <2>5. p \in PendsAt(s, k + 1)
    BY <2>1, <2>2, <2>4 DEF PendsAt
  <2> QED
    BY <2>2, <2>5 DEF Pends, L
<1>9. SourceOk(u)
  <2>1. Len(u.pending) <= Len(u.dir) + 1
    <3>1. CASE L = 1
      BY <1>2, <1>3, <1>4, <1>7, <3>1, AtIs
    <3>2. CASE L > 1
      BY <1>2, <1>3, <1>4, <1>7, <3>2
    <3> QED
      BY <1>2, <3>1, <3>2
  <2> QED
    BY <1>7, <1>8, <2>1 DEF SourceOk
<1>10. d \in Prefixes(s.dir)
  BY <1>1, <1>4, PrefixesAre
<1> QED
  BY <1>7, <1>8, <1>9, <1>10 DEF u

-----------------------------------------------------------------------------
(* What reading does to the tree.                                          *)

Grown(t, u) ==
  /\ TreeOk(u)
  /\ t.node \subseteq u.node /\ t.changed \subseteq u.changed
  /\ u.reading = t.reading

(* Growing twice is growing.                                               *)
LEMMA GrownTrans == ASSUME NEW t, NEW u, NEW v, Grown(t, u), Grown(u, v) PROVE Grown(t, v)
BY DEF Grown

(* ft_get only adds.                                                       *)
LEMMA GetGrows == ASSUME NEW t, TreeOk(t), NEW p \in Paths PROVE Grown(t, Get(t, p))
<1>1. t \in Trees
  BY DEF TreeOk
<1>2. Get(t, p).reading = t.reading
  BY <1>1 DEF Get, Trees
<1> QED
  BY <1>2, GetOk DEF Grown

(* A description only adds.                                                *)
LEMMA FillGrows == ASSUME NEW t, TreeOk(t), NEW p \in Paths PROVE Grown(t, Fill(t, p))
<1>1. t \in Trees
  BY DEF TreeOk
<1>2. Fill(t, p).reading = t.reading
  BY <1>1 DEF Fill, Trees
<1> QED
  BY <1>2, FillOk DEF Grown

(* Marking the root only adds.                                             *)
LEMMA RootGrows == ASSUME NEW t, TreeOk(t) PROVE Grown(t, Set(t, "changed", <<>>))
<1>1. t \in Trees
  BY DEF TreeOk
<1>2. Set(t, "changed", <<>>).reading = t.reading
  BY <1>1 DEF Set, Trees
<1> QED
  BY <1>2, RootChanged DEF Grown

(* Marking a directory that is read only adds.                             *)
LEMMA SetGrows ==
  ASSUME NEW t, TreeOk(t), NEW p \in t.node PROVE Grown(t, Set(t, "sorting", p))
<1>1. t \in Trees
  BY DEF TreeOk
<1>2. Set(t, "sorting", p).reading = t.reading
  BY <1>1 DEF Set, Trees
<1> QED
  BY <1>2, SortingSet DEF Grown

(* Taking this mark away leaves nodes and changes.                         *)
LEMMA UnsetGrows == ASSUME NEW t, TreeOk(t), NEW p PROVE Grown(t, Unset(t, "sorting", p))
<1>1. t \in Trees
  BY DEF TreeOk
<1>2. Unset(t, "sorting", p).reading = t.reading
  BY <1>1 DEF Unset, Trees
<1> QED
  BY <1>2, SortingUnset DEF Grown

(* The base of a file system, read or not.                                 *)
LEMMA BaseFilled ==
  ASSUME NEW t, TreeOk(t), NEW p \in Paths, NEW u, u = Fill(Set(t, "changed", <<>>), p)
  PROVE  /\ Grown(t, u) /\ u.filled = t.filled \cup {p} /\ u.sorting = t.sorting
         /\ <<>> \in u.changed
         /\ MarksOk(t) => MarksOk(u) /\ p \in u.changed \cup {<<>>}
<1> DEFINE r == Set(t, "changed", <<>>)
<1>1. /\ TreeOk(r) /\ Grown(t, r) /\ r.filled = t.filled /\ r.sorting = t.sorting
      /\ r.changed = t.changed \cup {<<>>}
      /\ MarksOk(t) => MarksOk(r)
  BY RootChanged, RootGrows
<1> HIDE DEF r
<1>2. Grown(r, u) /\ u.filled = r.filled \cup {p} /\ u.sorting = r.sorting
  BY <1>1, FillOk, FillGrows DEF r
<1>3. MarksOk(r) => MarksOk(u) /\ p \in u.changed \cup {<<>>}
  BY <1>1, FillMarks DEF r
<1>4. Grown(t, u)
  BY <1>1, <1>2, GrownTrans
<1>5. <<>> \in u.changed
  BY <1>1, <1>2 DEF Grown
<1> QED
  BY <1>1, <1>2, <1>3, <1>4, <1>5

(* The node of a base that does not exist.                                 *)
LEMMA BaseMade ==
  ASSUME NEW t, TreeOk(t), NEW p \in Paths, NEW u, u = Get(Set(t, "changed", <<>>), p)
  PROVE  /\ Grown(t, u) /\ u.filled = t.filled /\ u.sorting = t.sorting
         /\ p \in u.node
         /\ MarksOk(t) => MarksOk(u)
<1> DEFINE r == Set(t, "changed", <<>>)
<1>1. /\ TreeOk(r) /\ Grown(t, r) /\ r.filled = t.filled /\ r.sorting = t.sorting
      /\ MarksOk(t) => MarksOk(r)
  BY RootChanged, RootGrows
<1> HIDE DEF r
<1>2. /\ Grown(r, u) /\ u.filled = r.filled /\ u.sorting = r.sorting /\ u.changed = r.changed
      /\ p \in u.node
  BY <1>1, GetOk, GetGrows DEF r
<1>3. MarksOk(r) => MarksOk(u)
  BY <1>2 DEF MarksOk
<1>4. Grown(t, u)
  BY <1>1, <1>2, GrownTrans
<1> QED
  BY <1>1, <1>2, <1>3, <1>4

(* A directory that is opened, an entry that is read, a directory that was. *)
LEMMA DirMarked ==
  ASSUME NEW t, TreeOk(t), NEW p \in Paths, NEW u,
         u = Set(Set(Get(t, p), "sorting", p), "changed", <<>>)
  PROVE  /\ Grown(t, u) /\ u.filled = t.filled /\ u.sorting = t.sorting \cup {p}
         /\ <<>> \in u.changed
         /\ MarksOk(t) /\ p \in t.changed \cup {<<>>} => MarksOk(u)
<1> DEFINE g == Get(t, p)
           s == Set(g, "sorting", p)
<1>1. /\ TreeOk(g) /\ Grown(t, g) /\ p \in g.node
      /\ g.filled = t.filled /\ g.sorting = t.sorting /\ g.changed = t.changed
  BY GetOk, GetGrows
<1> HIDE DEF g
<1>2. /\ TreeOk(s) /\ Grown(g, s)
      /\ s.filled = g.filled /\ s.sorting = g.sorting \cup {p} /\ s.changed = g.changed
  BY <1>1, SortingSet, SetGrows
<1> HIDE DEF s
<1>3. u = Set(s, "changed", <<>>)
  BY DEF s, g
<1>4. /\ Grown(s, u) /\ u.filled = s.filled /\ u.sorting = s.sorting
      /\ u.changed = s.changed \cup {<<>>}
      /\ MarksOk(s) => MarksOk(u)
  BY <1>2, <1>3, RootChanged, RootGrows
<1>5. MarksOk(t) /\ p \in t.changed \cup {<<>>} => MarksOk(s)
  BY <1>1, <1>2 DEF MarksOk
<1>6. Grown(t, u)
  BY <1>1, <1>2, <1>4, GrownTrans
<1> QED
  BY <1>1, <1>2, <1>4, <1>5, <1>6

(* An entry that is a directory.                                           *)
LEMMA DirFilled ==
  ASSUME NEW t, TreeOk(t), NEW p \in Paths, NEW u, u = Set(Fill(t, p), "sorting", p)
  PROVE  /\ Grown(t, u) /\ u.filled = t.filled \cup {p} /\ u.sorting = t.sorting \cup {p}
         /\ MarksOk(t) => MarksOk(u)
<1> DEFINE f == Fill(t, p)
<1>1. /\ TreeOk(f) /\ Grown(t, f) /\ p \in f.node
      /\ f.filled = t.filled \cup {p} /\ f.sorting = t.sorting
  BY FillOk, FillGrows
<1>2. MarksOk(t) => MarksOk(f) /\ p \in f.changed \cup {<<>>}
  BY FillMarks
<1> HIDE DEF f
<1>3. u = Set(f, "sorting", p)
  BY DEF f
<1>4. /\ Grown(f, u) /\ u.filled = f.filled /\ u.sorting = f.sorting \cup {p}
      /\ u.changed = f.changed
  BY <1>1, <1>3, SortingSet, SetGrows
<1>5. MarksOk(t) => MarksOk(u)
  BY <1>2, <1>4 DEF MarksOk
<1>6. Grown(t, u)
  BY <1>1, <1>4, GrownTrans
<1> QED
  BY <1>1, <1>4, <1>5, <1>6

(* A directory that was read.                                              *)
LEMMA DirUnmarked ==
  ASSUME NEW t, TreeOk(t), NEW p \in Paths, NEW u,
         u = Unset(Set(Get(t, p), "changed", <<>>), "sorting", p)
  PROVE  /\ Grown(t, u) /\ u.filled = t.filled /\ u.sorting = t.sorting \ {p}
         /\ <<>> \in u.changed
         /\ MarksOk(t) => MarksOk(u)
<1> DEFINE g == Get(t, p)
           s == Set(g, "changed", <<>>)
<1>1. /\ TreeOk(g) /\ Grown(t, g)
      /\ g.filled = t.filled /\ g.sorting = t.sorting /\ g.changed = t.changed
  BY GetOk, GetGrows
<1> HIDE DEF g
<1>2. /\ TreeOk(s) /\ Grown(g, s)
      /\ s.filled = g.filled /\ s.sorting = g.sorting /\ s.changed = g.changed \cup {<<>>}
      /\ MarksOk(g) => MarksOk(s)
  BY <1>1, RootChanged, RootGrows
<1> HIDE DEF s
<1>3. u = Unset(s, "sorting", p)
  BY DEF s, g
<1>4. /\ Grown(s, u) /\ u.filled = s.filled /\ u.sorting = s.sorting \ {p}
      /\ u.changed = s.changed
  BY <1>2, <1>3, SortingUnset, UnsetGrows
<1>5. MarksOk(t) => MarksOk(g)
  BY <1>1 DEF MarksOk
<1>6. MarksOk(s) => MarksOk(u)
  BY <1>4 DEF MarksOk
<1>7. Grown(t, u)
  BY <1>1, <1>2, <1>4, GrownTrans
<1> QED
  BY <1>1, <1>2, <1>4, <1>5, <1>6, <1>7

(* A directory that holds something still does in a tree that has grown.   *)
LEMMA SubStays ==
  ASSUME NEW t, NEW u, Grown(t, u), NEW p, HasSub(t, p) PROVE HasSub(u, p)
BY DEF Grown, HasSub

-----------------------------------------------------------------------------
(* The sources that are open.                                              *)

(* A sequence whose first element is replaced.                             *)
LEMMA SourceSet ==
  ASSUME NEW S, NEW l \in Seq(S), l # <<>>, NEW v \in S, NEW k, k = [l EXCEPT ![1] = v]
  PROVE  /\ k \in Seq(S) /\ Len(k) = Len(l) /\ k[1] = v /\ k # <<>>
         /\ \A i \in 1 .. Len(l) : i # 1 => k[i] = l[i]
<1>1. Len(l) \in Nat /\ Len(l) >= 1 /\ 1 \in 1 .. Len(l) /\ DOMAIN l = 1 .. Len(l)
  OBVIOUS
<1>2. k \in Seq(S) /\ Len(k) = Len(l)
  BY <1>1
<1> QED
  BY <1>1, <1>2

SourcesOk(l) == l \in Seq(Opens) /\ \A i \in 1 .. Len(l) : SourceOk(l[i])

(* The source being read.                                                  *)
LEMMA CurrentIs ==
  ASSUME InputOk, in # <<>>
  PROVE  /\ Current \in Opens /\ SourceOk(Current) /\ Current = in[1]
         /\ Current.dir \in Paths /\ Current.base \in Paths
         /\ Current.left \in SUBSET Names /\ Current.depth \in Int
         /\ Current.pending \in Seq(SUBSET Names)
<1>1. in \in Seq(Opens) /\ 1 \in 1 .. Len(in)
  BY DEF InputOk
<1>2. Current \in Opens /\ SourceOk(Current) /\ Current = in[1]
  BY <1>1 DEF InputOk, Current
<1> QED
  BY <1>2 DEF Opens

(* The current source replaced.                                            *)
LEMMA SourcesKept ==
  ASSUME InputOk, in # <<>>, NEW v \in Opens, SourceOk(v), NEW l, l = [in EXCEPT ![1] = v]
  PROVE  SourcesOk(l) /\ l[1] = v /\ Len(l) = Len(in) /\ l # <<>>
<1>1. in \in Seq(Opens) /\ \A i \in 1 .. Len(in) : SourceOk(in[i])
  BY DEF InputOk
<1>2. /\ l \in Seq(Opens) /\ Len(l) = Len(in) /\ l[1] = v /\ l # <<>>
      /\ \A i \in 1 .. Len(in) : i # 1 => l[i] = in[i]
  BY <1>1, SourceSet
<1> QED
  BY <1>1, <1>2 DEF SourcesOk

(* The current source ended.                                               *)
LEMMA SourcesLeft ==
  ASSUME InputOk, in # <<>>
  PROVE  SourcesOk(Tail(in)) /\ Len(Tail(in)) = Len(in) - 1 /\ Len(in) \in Nat \ {0}
<1>1. in \in Seq(Opens) /\ \A i \in 1 .. Len(in) : SourceOk(in[i])
  BY DEF InputOk
<1>2. /\ Tail(in) \in Seq(Opens) /\ Len(Tail(in)) = Len(in) - 1 /\ Len(in) \in Nat \ {0}
      /\ \A i \in 1 .. Len(Tail(in)) : Tail(in)[i] = in[i + 1]
  BY <1>1
<1>3. \A i \in 1 .. Len(Tail(in)) : i + 1 \in 1 .. Len(in)
  BY <1>2
<1> QED
  BY <1>1, <1>2, <1>3 DEF SourcesOk

(* A source that stays where it is.                                        *)
LEMMA SourceStays ==
  ASSUME NEW s \in Opens, SourceOk(s), NEW u,
         u.kind = s.kind, u.lines = s.lines, u.dir = s.dir, u.pending = s.pending,
         s.step # "read" \/ u.step = "read", u.step # "init"
  PROVE  SourceOk(u) /\ Pends(u) = Pends(s)
<1>1. Pends(u) = Pends(s)
  BY SamePosition
<1> QED
  BY <1>1 DEF SourceOk

-----------------------------------------------------------------------------
(* What each step of a reading does.                                       *)

InputStays ==
  /\ TreeOk(tree') /\ SourcesOk(in') /\ count' \in Nat /\ sorted' = sorted

(* What every step of the reading keeps is enough.                         *)
LEMMA InputIsKept == ASSUME InputOk, InputStays PROVE InputOk'
BY DEF InputOk, InputStays, SourcesOk

(* Without a stack nothing is pending.                                     *)
LEMMA NoPends == ASSUME NEW s, s.pending = <<>> PROVE Pends(s) = {}
<1>1. Len(s.pending) = 0
  OBVIOUS
<1>2. 1 .. 0 = {}
  OBVIOUS
<1> QED
  BY <1>1, <1>2 DEF Pends

(* What reading the base changes.                                          *)
LEMMA ReadBaseDoes ==
  ASSUME InputOk, ReadBase
  PROVE  /\ InputStays /\ in # <<>> /\ pc = "read" /\ Current.step = "init" /\ Current.kind = "fs"
         /\ \/ /\ tree' = Fill(Set(tree, "changed", <<>>), Current.base)
               /\ Len(in') = Len(in) /\ in'[1].kind = "fs"
               /\ \/ /\ in'[1].step = "read" /\ Pends(in'[1]) = {}
                     /\ pc' = "write" /\ count' = 0
                  \/ /\ in'[1].step = "notread" /\ in'[1].dir = Current.base
                     /\ Current.dir = Current.base /\ Pends(in'[1]) = Pends(Current)
                     /\ pc' = "read" /\ count' = 1
            \/ /\ tree' = Get(Set(tree, "changed", <<>>), Current.base)
               /\ in' = Tail(in) /\ count' = count
               /\ pc' = IF Len(in) = 1 THEN "last" ELSE "read"
<1>0. in # <<>> /\ pc = "read" /\ Current.step = "init" /\ Current.kind = "fs"
  BY DEF ReadBase, Is
<1>1. /\ Current \in Opens /\ SourceOk(Current) /\ Current = in[1]
      /\ Current.base \in Paths /\ Current.depth \in Int
  BY <1>0, CurrentIs
<1>2. TreeOk(tree) /\ count \in Nat /\ sorted' = sorted
  BY DEF ReadBase, InputOk
<1>3. CASE /\ tree' = Fill(Set(tree, "changed", <<>>), Current.base)
           /\ Single(Current)
           /\ in' = [in EXCEPT ![1].pending = <<>>, ![1].step = "read"]
           /\ pc' = "write" /\ count' = 0
  <2> DEFINE u == [Current EXCEPT !.pending = <<>>, !.step = "read"]
  <2>1. in' = [in EXCEPT ![1] = u]
    BY <1>3 DEF Current
  <2>2. u \in Opens /\ u.kind = "fs" /\ u.pending = <<>> /\ u.step = "read" /\ u.dir = Current.dir
    <3>1. <<>> \in Seq(SUBSET Names)
      BY EmptySeq
    <3> QED
      BY <1>0, <1>1, <3>1 DEF Opens
  <2> HIDE DEF u
  <2>3. SourceOk(u) /\ Pends(u) = {}
    <3>1. Len(u.pending) = 0 /\ Len(u.dir) \in Nat
      BY <1>1, <2>2, AtIs DEF Opens
    <3>2. Len(u.pending) <= Len(u.dir) + 1
      BY <3>1
    <3>3. Pends(u) = {}
      BY <2>2, NoPends
    <3> QED
      BY <2>2, <3>2, <3>3 DEF SourceOk
  <2>4. SourcesOk(in') /\ in'[1] = u /\ Len(in') = Len(in)
    BY <1>0, <2>1, <2>2, <2>3, SourcesKept
  <2>5. TreeOk(tree')
    BY <1>1, <1>2, <1>3, BaseFilled DEF Grown
  <2>6. InputStays
    BY <1>2, <1>3, <2>4, <2>5 DEF InputStays
  <2> QED
    BY <1>0, <1>3, <2>2, <2>3, <2>4, <2>6
<1>4. CASE /\ tree' = Fill(Set(tree, "changed", <<>>), Current.base)
           /\ in' = [in EXCEPT ![1].step = "notread",
                               ![1].left = Children(Current),
                               ![1].depth = @ - 1]
           /\ pc' = pc /\ count' = 1
  <2> DEFINE C == Children(Current)
             n == Current.depth - 1
             u == [Current EXCEPT !.step = "notread", !.left = C, !.depth = n]
  <2>1. in' = [in EXCEPT ![1] = u]
    BY <1>4 DEF Current
  <2>0. C \in SUBSET Names /\ n \in Int
    BY <1>1, ChildrenAre
  <2> HIDE DEF C, n
  <2>2. /\ u \in Opens /\ u.kind = "fs" /\ u.step = "notread" /\ u.dir = Current.dir
        /\ u.pending = Current.pending /\ u.lines = Current.lines
    BY <1>0, <1>1, <2>0 DEF Opens
  <2> HIDE DEF u
  <2>3. SourceOk(u) /\ Pends(u) = Pends(Current)
    BY <1>0, <1>1, <2>2, SourceStays
  <2>4. SourcesOk(in') /\ in'[1] = u /\ Len(in') = Len(in)
    BY <1>0, <2>1, <2>2, <2>3, SourcesKept
  <2>5. TreeOk(tree')
    BY <1>1, <1>2, <1>4, BaseFilled DEF Grown
  <2>6. InputStays
    BY <1>2, <1>4, <2>4, <2>5 DEF InputStays
  <2>7. Current.dir = Current.base
    BY <1>0, <1>1 DEF SourceOk
  <2> QED
    BY <1>0, <1>4, <2>2, <2>3, <2>4, <2>6, <2>7
<1>5. CASE /\ tree' = Get(Set(tree, "changed", <<>>), Current.base)
           /\ in' = Tail(in)
           /\ pc' = IF Len(in) = 1 THEN "last" ELSE "read"
           /\ UNCHANGED <<count, arrived>>
  <2>1. SourcesOk(in')
    BY <1>0, <1>5, SourcesLeft
  <2>2. TreeOk(tree')
    BY <1>1, <1>2, <1>5, BaseMade DEF Grown
  <2>3. InputStays
    BY <1>2, <1>5, <2>1, <2>2 DEF InputStays
  <2> QED
    BY <1>0, <1>5, <2>3
<1> QED
  BY <1>3, <1>4, <1>5 DEF ReadBase

(* What opening a directory changes.                                       *)
LEMMA OpenDirDoes ==
  ASSUME InputOk, OpenDir
  PROVE  /\ InputStays /\ in # <<>> /\ pc = "read" /\ Current.step = "notread" /\ Current.kind = "fs"
         /\ tree' = Set(Set(Get(tree, Current.dir), "sorting", Current.dir), "changed", <<>>)
         /\ Len(in') = Len(in) /\ in'[1].kind = "fs" /\ in'[1].step \in {"open", "read"}
         /\ in'[1].dir = Current.dir /\ Pends(in'[1]) = Pends(Current)
         /\ pc' = "read" /\ count' = count
<1>0. /\ in # <<>> /\ pc = "read" /\ Current.step = "notread" /\ Current.kind = "fs"
      /\ tree' = Set(Set(Get(tree, Current.dir), "sorting", Current.dir), "changed", <<>>)
      /\ pc' = "read" /\ count' = count /\ sorted' = sorted
  BY DEF OpenDir, Is
<1>1. /\ Current \in Opens /\ SourceOk(Current) /\ Current = in[1] /\ Current.dir \in Paths
  BY <1>0, CurrentIs
<1>2. TreeOk(tree) /\ count \in Nat
  BY DEF InputOk
<1>3. PICK u : /\ in' = [in EXCEPT ![1] = u] /\ u \in Opens
               /\ u.kind = "fs" /\ u.step \in {"open", "read"} /\ u.dir = Current.dir
               /\ u.pending = Current.pending /\ u.lines = Current.lines
  <2>1. CASE in' = [in EXCEPT ![1].step = "open"]
    <3> DEFINE u == [Current EXCEPT !.step = "open"]
    <3>1. in' = [in EXCEPT ![1] = u]
      BY <2>1 DEF Current
    <3>2. /\ u \in Opens /\ u.kind = "fs" /\ u.step = "open" /\ u.dir = Current.dir
          /\ u.pending = Current.pending /\ u.lines = Current.lines
      BY <1>0, <1>1 DEF Opens
    <3> HIDE DEF u
    <3> QED
      BY <3>1, <3>2
  <2>2. CASE in' = [in EXCEPT ![1].step = "read", ![1].left = {}]
    <3> DEFINE u == [Current EXCEPT !.step = "read", !.left = {}]
    <3>1. in' = [in EXCEPT ![1] = u]
      BY <2>2 DEF Current
    <3>2. /\ u \in Opens /\ u.kind = "fs" /\ u.step = "read" /\ u.dir = Current.dir
          /\ u.pending = Current.pending /\ u.lines = Current.lines
      BY <1>0, <1>1 DEF Opens
    <3> HIDE DEF u
    <3> QED
      BY <3>1, <3>2
  <2> QED
    BY <2>1, <2>2 DEF OpenDir
<1>4. SourceOk(u) /\ Pends(u) = Pends(Current)
  BY <1>0, <1>1, <1>3, SourceStays
<1>5. SourcesOk(in') /\ in'[1] = u /\ Len(in') = Len(in)
  BY <1>0, <1>3, <1>4, SourcesKept
<1>6. TreeOk(tree')
  BY <1>0, <1>1, <1>2, DirMarked DEF Grown
<1>7. InputStays
  BY <1>0, <1>2, <1>5, <1>6 DEF InputStays
<1> QED
  BY <1>0, <1>3, <1>4, <1>5, <1>7

InDir(d, T) == {Append(d, n) : n \in T}

FirstSet(P, Q, T) == Q = [P EXCEPT ![1] = T]

(* What is pending after the uppermost set was replaced.                   *)
LEMMA OnePends ==
  ASSUME NEW s \in Opens, SourceOk(s), s.pending # <<>>, NEW T \in SUBSET Names, NEW u \in Opens,
         u.dir = s.dir, FirstSet(s.pending, u.pending, T)
  PROVE  /\ Pends(u) \subseteq Pends(s) \cup InDir(s.dir, T)
         /\ Len(u.pending) = Len(s.pending) /\ u.pending # <<>>
<1>1. s.pending \in Seq(SUBSET Names) /\ s.dir \in Paths
  BY DEF Opens
<1>2. /\ Len(u.pending) = Len(s.pending) /\ u.pending[1] = T /\ u.pending # <<>>
      /\ \A k \in 1 .. Len(s.pending) : k # 1 => u.pending[k] = s.pending[k]
  BY <1>1, SourceSet DEF FirstSet
<1>3. Len(s.dir) - 1 + 1 = Len(s.dir) /\ SubSeq(s.dir, 1, Len(s.dir)) = s.dir
  <2>1. Len(s.dir) \in Nat
    BY <1>1, AtIs
  <2> QED
    BY <1>1, <2>1, SubSeqFull DEF Paths
<1>4. ASSUME NEW k \in 1 .. Len(s.pending), NEW p \in PendsAt(u, k)
      PROVE  p \in Pends(s) \cup InDir(s.dir, T)
  <2>1. CASE k = 1
    BY <1>2, <1>3, <1>4, <2>1 DEF PendsAt, InDir
  <2>2. CASE k # 1
    <3>1. p \in PendsAt(s, k)
      BY <1>2, <1>4, <2>2 DEF PendsAt
    <3> QED
      BY <3>1 DEF Pends
  <2> QED
    BY <2>1, <2>2
<1> QED
  BY <1>2, <1>4 DEF Pends

(* What reading an entry changes.                                          *)
LEMMA ReadEntryDoes ==
  ASSUME InputOk, ReadEntry
  PROVE  /\ InputStays /\ in # <<>> /\ pc = "read" /\ Current.step = "open" /\ Current.kind = "fs"
         /\ Len(in') = Len(in) /\ in'[1].kind = "fs" /\ in'[1].step = "open"
         /\ in'[1].dir = Current.dir
         /\ pc' = "read" /\ count' > 0
         /\ \E n \in Names :
              \/ /\ tree' = Set(Fill(tree, Append(Current.dir, n)), "sorting", Append(Current.dir, n))
                 /\ Pends(in'[1]) \subseteq Pends(Current) \cup {Append(Current.dir, n)}
              \/ /\ tree' = Fill(tree, Append(Current.dir, n))
                 /\ Pends(in'[1]) = Pends(Current)
<1>0. /\ in # <<>> /\ pc = "read" /\ Current.step = "open" /\ Current.kind = "fs"
      /\ pc' = "read" /\ sorted' = sorted /\ count' = count + 1
  BY DEF ReadEntry, Is
<1>1. /\ Current \in Opens /\ SourceOk(Current) /\ Current = in[1] /\ Current.dir \in Paths
      /\ Current.left \in SUBSET Names /\ Current.pending \in Seq(SUBSET Names)
  BY <1>0, CurrentIs
<1>2. TreeOk(tree) /\ count \in Nat
  BY DEF InputOk
<1>10. count' \in Nat /\ count' > 0
  BY <1>0, <1>2
<1>3. Current.pending # <<>>
  BY <1>0, <1>1 DEF SourceOk
<1>4. PICK n \in Current.left :
        LET p == Append(Current.dir, n)
        IN \/ /\ tree' = Set(Fill(tree, p), "sorting", p)
              /\ in' = [[in EXCEPT ![1].left = @ \ {n}] EXCEPT ![1].pending[1] = @ \cup {n}]
           \/ tree' = Fill(tree, p) /\ in' = [in EXCEPT ![1].left = @ \ {n}]
  BY DEF ReadEntry
<1> DEFINE p == Append(Current.dir, n)
           C == Current.left \ {n}
           v == [Current EXCEPT !.left = C]
           rest == [in EXCEPT ![1].left = @ \ {n}]
<1>5. n \in Names /\ p \in Paths
  BY <1>1, AppendIs DEF Names
<1>6. rest = [in EXCEPT ![1] = v]
  BY DEF Current
<1>7. /\ v \in Opens /\ v.kind = "fs" /\ v.step = "open" /\ v.dir = Current.dir
      /\ v.pending = Current.pending /\ v.lines = Current.lines
  BY <1>0, <1>1 DEF Opens
<1>8. CASE /\ tree' = Set(Fill(tree, p), "sorting", p)
           /\ in' = [rest EXCEPT ![1].pending[1] = @ \cup {n}]
  <2> DEFINE T == Current.pending[1] \cup {n}
             P == [Current.pending EXCEPT ![1] = T]
             u == [v EXCEPT !.pending = P]
  <2>1. /\ Len(rest) = Len(in) /\ rest[1] = v /\ rest \in Seq(Opens)
    <3>1. in \in Seq(Opens)
      BY DEF InputOk
    <3>2. v \in Opens
      BY <1>7
    <3> HIDE DEF v, rest
    <3> QED
      BY <1>0, <1>6, <3>1, <3>2, SourceSet
  <2>2. in' = [in EXCEPT ![1] = u]
    <3>1. in' = [rest EXCEPT ![1] = [rest[1] EXCEPT !.pending = [rest[1].pending EXCEPT ![1] = rest[1].pending[1] \cup {n}]]]
      <4> HIDE DEF rest
      <4> QED
        BY <1>8
    <3>2. in' = [rest EXCEPT ![1] = u]
      <4> HIDE DEF rest, v
      <4> QED
        BY <1>7, <2>1, <3>1
    <3> HIDE DEF u, v
    <3>3. \A w : [rest EXCEPT ![1] = w] = [in EXCEPT ![1] = w]
      BY <1>6
    <3> QED
      BY <3>2, <3>3
  <2>3. T \in SUBSET Names
    <3>1. Current.pending[1] \in SUBSET Names
      BY <1>1, <1>3
    <3> QED
      BY <1>5, <3>1
  <2>4. P \in Seq(SUBSET Names)
    <3> HIDE DEF T
    <3> QED
      BY <1>1, <1>3, <2>3, SourceSet
  <2> HIDE DEF P, v
  <2>5. /\ u \in Opens /\ u.kind = "fs" /\ u.step = "open" /\ u.dir = Current.dir
        /\ u.pending = P /\ u.lines = Current.lines
    BY <1>7, <2>4 DEF Opens
  <2> HIDE DEF u
  <2>6. /\ Pends(u) \subseteq Pends(Current) \cup InDir(Current.dir, T)
        /\ Len(u.pending) = Len(Current.pending) /\ u.pending # <<>>
    <3> HIDE DEF T
    <3>1. FirstSet(Current.pending, u.pending, T) /\ u \in Opens /\ u.dir = Current.dir
      BY <2>5 DEF P, FirstSet
    <3> QED
      BY <1>1, <1>3, <2>3, <3>1, OnePends
  <2>7. \A m \in Current.pending[1] : Append(Current.dir, m) \in Pends(Current)
    <3>1. Len(Current.dir) - 1 + 1 = Len(Current.dir) /\ SubSeq(Current.dir, 1, Len(Current.dir)) = Current.dir
      <4>1. Len(Current.dir) \in Nat
        BY <1>1, AtIs
      <4> QED
        BY <1>1, <4>1, SubSeqFull DEF Paths
    <3>2. 1 \in 1 .. Len(Current.pending)
      BY <1>1, <1>3
    <3>3. \A m \in Current.pending[1] : Append(Current.dir, m) \in PendsAt(Current, 1)
      BY <3>1 DEF PendsAt
    <3> QED
      BY <3>2, <3>3 DEF Pends
  <2>8. Pends(u) \subseteq Pends(Current) \cup {p}
    BY <2>6, <2>7 DEF InDir
  <2>9. SourceOk(u)
    BY <1>1, <2>5, <2>6 DEF SourceOk
  <2>10. SourcesOk(in') /\ in'[1] = u /\ Len(in') = Len(in)
    BY <1>0, <2>2, <2>5, <2>9, SourcesKept
  <2>11. TreeOk(tree')
    BY <1>2, <1>5, <1>8, DirFilled DEF Grown
  <2>12. InputStays
    BY <1>0, <1>10, <2>10, <2>11 DEF InputStays
  <2> QED
    BY <1>0, <1>5, <1>8, <1>10, <2>5, <2>8, <2>10, <2>12
<1>9. CASE tree' = Fill(tree, p) /\ in' = rest
  <2> HIDE DEF v, rest
  <2>1. SourceOk(v) /\ Pends(v) = Pends(Current)
    BY <1>0, <1>1, <1>7, SourceStays
  <2>2. SourcesOk(in') /\ in'[1] = v /\ Len(in') = Len(in)
    BY <1>0, <1>6, <1>7, <1>9, <2>1, SourcesKept
  <2>3. TreeOk(tree')
    BY <1>2, <1>5, <1>9, FillOk
  <2>4. InputStays
    BY <1>0, <1>10, <2>2, <2>3 DEF InputStays
  <2> QED
    BY <1>0, <1>5, <1>7, <1>9, <1>10, <2>1, <2>2, <2>4
<1> QED
  BY <1>4, <1>8, <1>9

(* What a pause changes.                                                   *)
LEMMA PauseDirDoes ==
  ASSUME InputOk, PauseDir
  PROVE  /\ InputStays /\ in # <<>> /\ pc = "read" /\ Current.step = "open" /\ Current.kind = "fs"
         /\ tree' = tree /\ Len(in') = Len(in) /\ in'[1].kind = "fs" /\ in'[1].step = "notread"
         /\ in'[1].dir = Current.dir /\ Pends(in'[1]) = Pends(Current)
         /\ pc' = "write" /\ count' = 0
<1>0. /\ in # <<>> /\ pc = "read" /\ Current.step = "open" /\ Current.kind = "fs"
      /\ tree' = tree /\ sorted' = sorted /\ pc' = "write" /\ count' = 0
  BY DEF PauseDir, Is
<1>1. Current \in Opens /\ SourceOk(Current) /\ Current = in[1]
  BY <1>0, CurrentIs
<1> DEFINE u == [Current EXCEPT !.step = "notread"]
<1>2. in' = [in EXCEPT ![1] = u]
  BY DEF PauseDir, Current
<1>3. /\ u \in Opens /\ u.kind = "fs" /\ u.step = "notread" /\ u.dir = Current.dir
      /\ u.pending = Current.pending /\ u.lines = Current.lines
  BY <1>0, <1>1 DEF Opens
<1> HIDE DEF u
<1>4. SourceOk(u) /\ Pends(u) = Pends(Current)
  BY <1>0, <1>1, <1>3, SourceStays
<1>5. SourcesOk(in') /\ in'[1] = u /\ Len(in') = Len(in)
  BY <1>0, <1>2, <1>3, <1>4, SourcesKept
<1>6. InputStays
  BY <1>0, <1>5 DEF InputStays, InputOk
<1> QED
  BY <1>0, <1>3, <1>4, <1>5, <1>6

(* What the end of a directory changes.                                    *)
LEMMA EndDirDoes ==
  ASSUME InputOk, EndDir
  PROVE  /\ InputStays /\ in # <<>> /\ pc = "read" /\ Current.step = "open" /\ Current.kind = "fs"
         /\ tree' = tree /\ Len(in') = Len(in) /\ in'[1].kind = "fs" /\ in'[1].step = "read"
         /\ in'[1].dir = Current.dir /\ Pends(in'[1]) = Pends(Current)
         /\ pc' = "read" /\ count' = count
<1>0. /\ in # <<>> /\ pc = "read" /\ Current.step = "open" /\ Current.kind = "fs"
      /\ tree' = tree /\ sorted' = sorted /\ pc' = "read" /\ count' = count
  BY DEF EndDir, Is
<1>1. Current \in Opens /\ SourceOk(Current) /\ Current = in[1]
  BY <1>0, CurrentIs
<1> DEFINE u == [Current EXCEPT !.step = "read"]
<1>2. in' = [in EXCEPT ![1] = u]
  BY DEF EndDir, Current
<1>3. /\ u \in Opens /\ u.kind = "fs" /\ u.step = "read" /\ u.dir = Current.dir
      /\ u.pending = Current.pending /\ u.lines = Current.lines
  BY <1>0, <1>1 DEF Opens
<1> HIDE DEF u
<1>4. SourceOk(u) /\ Pends(u) = Pends(Current)
  BY <1>0, <1>1, <1>3, SourceStays
<1>5. SourcesOk(in') /\ in'[1] = u /\ Len(in') = Len(in)
  BY <1>0, <1>2, <1>3, <1>4, SourcesKept
<1>6. InputStays
  BY <1>0, <1>5 DEF InputStays, InputOk
<1> QED
  BY <1>0, <1>3, <1>4, <1>5, <1>6

(* What going to the next directory changes.                               *)
LEMMA NextDirDoes ==
  ASSUME InputOk, NextDir
  PROVE  /\ InputStays /\ in # <<>> /\ pc = "read" /\ Current.step = "read"
         /\ Current \in Opens /\ SourceOk(Current) /\ Current.dir \in Paths
         /\ tree' = Unset(Set(Get(tree, Current.dir), "changed", <<>>), "sorting", Current.dir)
         /\ Len(in') = Len(in) /\ in'[1].kind = Current.kind
         /\ \/ /\ in'[1].step = "notread"
               /\ in'[1].dir \in Pends(Current)
               /\ Pends(in'[1]) \subseteq Pends(Current) \ {in'[1].dir}
               /\ Prefixes(in'[1].dir) \subseteq Prefixes(Current.dir) \cup {in'[1].dir}
            \/ /\ in'[1].step = "read"
               /\ Pends(in'[1]) \subseteq Pends(Current)
               /\ in'[1].dir \in Prefixes(Current.dir)
         /\ pc' = "read" /\ count' = count
<1>0. /\ in # <<>> /\ pc = "read" /\ Current.step = "read" /\ Current.pending # <<>>
      /\ tree' = Unset(Set(Get(tree, Current.dir), "changed", <<>>), "sorting", Current.dir)
      /\ sorted' = sorted /\ pc' = "read" /\ count' = count
  BY DEF NextDir
<1>1. Current \in Opens /\ SourceOk(Current) /\ Current = in[1] /\ Current.dir \in Paths
  BY <1>0, CurrentIs
<1>2. TreeOk(tree) /\ count \in Nat
  BY DEF InputOk
<1>3. TreeOk(tree')
  BY <1>0, <1>1, <1>2, DirUnmarked DEF Grown
<1>4. CASE Head(Current.pending) # {}
  <2>1. in' = [in EXCEPT ![1] = Down(Current)]
    BY <1>4 DEF NextDir
  <2>2. /\ Down(Current) \in Opens /\ Down(Current).kind = Current.kind
        /\ Down(Current).step = "notread"
    BY <1>0, <1>1, <1>4, DownIs
  <2>3. /\ SourceOk(Down(Current))
        /\ Down(Current).dir \in Pends(Current)
        /\ Pends(Down(Current)) \subseteq Pends(Current) \ {Down(Current).dir}
        /\ Prefixes(Down(Current).dir) \subseteq Prefixes(Current.dir) \cup {Down(Current).dir}
    BY <1>0, <1>1, <1>4, DownOk
  <2>4. SourcesOk(in') /\ in'[1] = Down(Current) /\ Len(in') = Len(in)
    BY <1>0, <2>1, <2>2, <2>3, SourcesKept
  <2>5. InputStays
    BY <1>0, <1>2, <1>3, <2>4 DEF InputStays
  <2> QED
    BY <1>0, <1>1, <2>2, <2>3, <2>4, <2>5
<1>5. CASE Head(Current.pending) = {}
  <2>1. in' = [in EXCEPT ![1] = Climb(Current)]
    BY <1>5 DEF NextDir
  <2>2. /\ Climb(Current) \in Opens /\ SourceOk(Climb(Current))
        /\ Climb(Current).kind = Current.kind /\ Climb(Current).step = "read"
        /\ Pends(Climb(Current)) \subseteq Pends(Current)
        /\ Climb(Current).dir \in Prefixes(Current.dir)
    BY <1>0, <1>1, ClimbOk
  <2>4. SourcesOk(in') /\ in'[1] = Climb(Current) /\ Len(in') = Len(in)
    BY <1>0, <2>1, <2>2, SourcesKept
  <2>5. InputStays
    BY <1>0, <1>2, <1>3, <2>4 DEF InputStays
  <2> QED
    BY <1>0, <1>1, <2>2, <2>4, <2>5
<1> QED
  BY <1>4, <1>5

(* What the return of a source changes.                                    *)
LEMMA ReturnDoes ==
  ASSUME InputOk, in # <<>>, Return, UNCHANGED <<tree, sorted>>
  PROVE  /\ InputStays /\ count' = 0
         /\ \/ count > 0 /\ pc' = "write" /\ in' = in
            \/ in' = Tail(in) /\ pc' = IF Len(in) = 1 THEN "last" ELSE "read"
<1>1. SourcesOk(Tail(in)) /\ SourcesOk(in)
  BY SourcesLeft DEF InputOk, SourcesOk
<1>2. /\ count' = 0
      /\ \/ count > 0 /\ pc' = "write" /\ in' = in
         \/ in' = Tail(in) /\ pc' = IF Len(in) = 1 THEN "last" ELSE "read"
  BY DEF Return
<1>3. SourcesOk(in')
  BY <1>1, <1>2
<1> QED
  BY <1>2, <1>3 DEF InputStays, InputOk

(* What the end of a source changes.                                       *)
LEMMA EndSourceDoes ==
  ASSUME InputOk, EndSource
  PROVE  /\ InputStays /\ in # <<>> /\ pc = "read" /\ Current.step = "read"
         /\ tree' = tree /\ count' = 0
         /\ \/ count > 0 /\ pc' = "write" /\ in' = in
            \/ in' = Tail(in) /\ pc' = IF Len(in) = 1 THEN "last" ELSE "read"
<1>1. in # <<>> /\ pc = "read" /\ Current.step = "read" /\ Return /\ UNCHANGED <<tree, sorted>>
  BY DEF EndSource
<1> QED
  BY <1>1, ReturnDoes

(* What a list that has given enough changes.                              *)
LEMMA EnoughDoes ==
  ASSUME InputOk, Enough
  PROVE  InputStays /\ pc' \in {"read", "last", "write"} /\ in # <<>> /\ Current.kind # "fs"
<1>1. in # <<>> /\ Return /\ UNCHANGED <<tree, sorted>> /\ Current.kind # "fs"
  BY DEF Enough
<1> QED
  BY <1>1, ReturnDoes

(* What reading lines changes.                                             *)
LEMMA ReadLinesDoes ==
  ASSUME InputOk, ReadLines
  PROVE  /\ InputStays /\ pc' = "read" /\ in # <<>> /\ Current.kind # "fs"
         /\ Len(in') = Len(in) /\ in'[1].kind = Current.kind
         /\ tree.changed \subseteq tree'.changed /\ tree'.sorting = tree.sorting
         /\ <<>> \in tree'.changed
         /\ MarksOk(tree) => MarksOk(tree')
         /\ \E T \in SUBSET (Paths \ {<<>>}) :
               tree'.filled = tree.filled \cup T /\ arrived' = arrived \cup T
         /\ \E n \in 0 .. Len(Current.fd) :
               /\ tree'.filled = tree.filled \cup {Current.fd[i] : i \in 1 .. n}
               /\ count' = count + n
               /\ in'[1].fd = SubSeq(Current.fd, n + 1, Len(Current.fd))
         /\ in'[1].dir = Current.dir /\ in'[1].pending = Current.pending
         /\ in'[1].step \in {"open", "read"}
<1>0. /\ in # <<>> /\ pc = "read" /\ Current.kind # "fs" /\ Current.step = "open"
      /\ sorted' = sorted /\ pc' = "read"
  BY DEF ReadLines
<1>1. /\ Current \in Opens /\ SourceOk(Current) /\ Current = in[1] /\ Current.dir \in Paths
  BY <1>0, CurrentIs
<1>2. TreeOk(tree) /\ count \in Nat /\ MaxCount \in Nat /\ Current.fd \in Seq(Paths \ {<<>>})
  BY <1>1, CountAssumption DEF InputOk, Opens
<1> DEFINE n == IF Len(Current.fd) < MaxCount THEN Len(Current.fd) ELSE MaxCount
           begun == Set(Set(Get(tree, Current.dir), "changed", <<>>), "reading", Current.dir)
           done == Lines([tree |-> begun, at |-> Current.dir], Current.fd, n)
           texts == SubSeq(Current.fd, n + 1, Len(Current.fd))
           step == IF n < MaxCount THEN "read" ELSE Current.step
           u == [Current EXCEPT !.fd = texts, !.step = step]
<1>3. n \in Nat /\ n <= Len(Current.fd) /\ Len(Current.fd) \in Nat
  BY <1>2
<1>4. /\ tree' = done.tree
      /\ in' = [in EXCEPT ![1] = u]
      /\ count' = count + n
      /\ arrived' = arrived \cup ToSet(SubSeq(Current.fd, 1, n))
  BY DEF ReadLines, Current
<1> HIDE DEF n
<1>5. \A i \in 1 .. n : Current.fd[i] \in Paths \ {<<>>}
  BY <1>2, <1>3
<1>6. /\ TreeOk(begun) /\ begun.filled = tree.filled /\ begun.sorting = tree.sorting
      /\ tree.changed \subseteq begun.changed /\ <<>> \in begun.changed
      /\ MarksOk(tree) => MarksOk(begun)
  <2> DEFINE g == Get(tree, Current.dir)
             r == Set(g, "changed", <<>>)
  <2>1. /\ TreeOk(g) /\ g.filled = tree.filled /\ g.sorting = tree.sorting
        /\ g.changed = tree.changed
    BY <1>1, <1>2, GetOk
  <2>4. MarksOk(tree) => MarksOk(g)
    BY <2>1 DEF MarksOk
  <2> HIDE DEF g
  <2>2. /\ TreeOk(r) /\ r.filled = g.filled /\ r.sorting = g.sorting
        /\ r.changed = g.changed \cup {<<>>}
        /\ MarksOk(g) => MarksOk(r)
    BY <2>1, RootChanged
  <2> HIDE DEF r
  <2> DEFINE e == Set(r, "reading", Current.dir)
  <2>5. e.filled = r.filled /\ e.sorting = r.sorting /\ e.changed = r.changed
    BY <2>2 DEF Set, TreeOk, Trees
  <2>6. MarksOk(r) => MarksOk(e)
    BY <2>5 DEF MarksOk
  <2>3. /\ TreeOk(e) /\ e.filled = tree.filled /\ e.sorting = tree.sorting
        /\ tree.changed \subseteq e.changed /\ <<>> \in e.changed
        /\ MarksOk(tree) => MarksOk(e)
    BY <1>1, <2>1, <2>2, <2>4, <2>5, <2>6, ReadingSet
  <2> QED
    BY <2>3 DEF r, g
<1> HIDE DEF begun
<1> DEFINE T == {Current.fd[i] : i \in 1 .. n}
<1>7. /\ TreeOk(done.tree) /\ done.tree.filled = begun.filled \cup T
      /\ begun.changed \subseteq done.tree.changed /\ done.tree.sorting = begun.sorting
      /\ MarksOk(begun) => MarksOk(done.tree)
  BY <1>1, <1>3, <1>5, <1>6, LinesOk
<1>14. ToSet(SubSeq(Current.fd, 1, n)) = T /\ T \in SUBSET (Paths \ {<<>>})
  <2>1. Len(SubSeq(Current.fd, 1, n)) = n /\ \A i \in 1 .. n : SubSeq(Current.fd, 1, n)[i] = Current.fd[i]
    BY <1>2, <1>3
  <2>2. DOMAIN SubSeq(Current.fd, 1, n) = 1 .. n
    BY <1>2, <1>3
  <2> QED
    BY <1>5, <2>1, <2>2 DEF ToSet
<1>8. texts \in Seq(Paths \ {<<>>})
  BY <1>2, <1>3
<1>9. step \in {"open", "read"}
  BY <1>0
<1>15. n \in 0 .. Len(Current.fd)
  BY <1>3
<1>16. T = {Current.fd[i] : i \in 1 .. n} /\ texts = SubSeq(Current.fd, n + 1, Len(Current.fd))
  OBVIOUS
<1> HIDE DEF done, texts, step, T
<1>10. /\ u \in Opens /\ u.fd = texts /\ u.kind = Current.kind /\ u.step = step /\ u.dir = Current.dir
       /\ u.pending = Current.pending /\ u.lines = Current.lines
  BY <1>1, <1>8, <1>9 DEF Opens
<1> HIDE DEF u
<1>11. SourceOk(u)
  BY <1>0, <1>1, <1>9, <1>10, SourceStays
<1>12. SourcesOk(in') /\ Len(in') = Len(in) /\ in'[1] = u
  BY <1>0, <1>4, <1>10, <1>11, SourcesKept
<1>13. count' \in Nat
  BY <1>2, <1>3, <1>4
<1> QED
  BY <1>0, <1>4, <1>6, <1>7, <1>10, <1>9, <1>12, <1>13, <1>14, <1>15, <1>16 DEF InputStays

(* The directories in a directory of lists have lists.                     *)
LEMMA FoldedIs ==
  ASSUME NEW s \in Opens, s.kind = "lists", SourceOk(s)
  PROVE  /\ Folded(s) \in SUBSET Names
         /\ InDir(s.dir, Folded(s)) \subseteq DOMAIN s.lines
<1>1. ASSUME NEW p \in DOMAIN s.lines \ {<<>>}, Parent(p) = s.dir
      PROVE  Last(p) \in Names /\ Append(s.dir, Last(p)) = p
  <2>1. p \in Paths
    BY ListingsAre DEF Opens
  <2> QED
    BY <1>1, <2>1, ParentIs DEF Names
<1> QED
  BY <1>1 DEF Folded, InDir

(* What going to the next list changes.                                    *)
LEMMA NextListDoes ==
  ASSUME InputOk, NextList
  PROVE  /\ InputStays /\ pc' = "read" /\ in # <<>> /\ Current.kind = "lists"
         /\ Len(in') = Len(in) /\ in'[1].kind = Current.kind
<1>0. /\ in # <<>> /\ pc = "read" /\ Current.kind = "lists" /\ Current.step = "notread"
      /\ sorted' = sorted /\ pc' = "read" /\ count' = count
  BY DEF NextList, Is
<1>1. /\ Current \in Opens /\ SourceOk(Current) /\ Current = in[1] /\ Current.dir \in Paths
      /\ Current.pending \in Seq(SUBSET Names) /\ Current.lines \in Listings
  BY <1>0, CurrentIs DEF Opens
<1>2. TreeOk(tree) /\ count \in Nat
  BY DEF InputOk
<1>3. Current.dir \in DOMAIN Current.lines /\ Current.pending # <<>>
  BY <1>0, <1>1 DEF SourceOk
<1> DEFINE B == InDir(Current.dir, Folded(Current))
           r == Set(tree, "changed", <<>>)
           g == Get(r, Current.dir)
           N == Folded(Current)
<1>4. N \in SUBSET Names /\ B \subseteq DOMAIN Current.lines
  BY <1>0, <1>1, FoldedIs
<1>5. B \subseteq Paths /\ IsFiniteSet(B)
  BY <1>1, <1>4, ListingsAre, FS_Subset
<1>6. tree' = [g EXCEPT !.node = @ \cup B, !.sorting = @ \cup B \cup {Current.dir}]
  BY DEF NextList, InDir
<1>7. TreeOk(tree')
  <2>1. TreeOk(r)
    BY <1>2, RootChanged
  <2> HIDE DEF r
  <2>2. TreeOk(g) /\ Current.dir \in g.node
    BY <1>1, <2>1, GetOk
  <2> HIDE DEF g, B
  <2>3. g \in Trees
    BY <2>2 DEF TreeOk
  <2>4. /\ tree' \in Trees /\ tree'.node = g.node \cup B
        /\ tree'.sorting = g.sorting \cup B \cup {Current.dir}
        /\ tree'.filled = g.filled /\ tree'.changed = g.changed
    BY <1>1, <1>5, <1>6, <2>3 DEF Trees
  <2>5. IsFiniteSet(g.node \cup B)
    BY <1>5, <2>2, FS_Union DEF TreeOk
  <2> QED
    BY <2>2, <2>4, <2>5 DEF TreeOk
<1> HIDE DEF N
<1>8. PICK texts \in Seq(Paths \ {<<>>}), step \in {"open", "read"} :
        in' = [in EXCEPT ![1].pending[1] = N, ![1].fd = texts, ![1].step = step]
  <2>1. PICK opens \in BOOLEAN :
          in' = [in EXCEPT ![1].pending[1] = N,
                           ![1].fd = IF opens THEN Current.lines[Current.dir] ELSE <<>>,
                           ![1].step = IF opens THEN "open" ELSE "read"]
    BY DEF NextList, N
  <2>2. Current.lines[Current.dir] \in Seq(Paths \ {<<>>}) /\ <<>> \in Seq(Paths \ {<<>>})
    BY <1>1, <1>3, ListingsAre, EmptySeq
  <2> QED
    BY <2>1, <2>2
<1> DEFINE P == [Current.pending EXCEPT ![1] = N]
           u == [Current EXCEPT !.pending = P, !.fd = texts, !.step = step]
<1>9. in' = [in EXCEPT ![1] = u]
  BY <1>8 DEF Current
<1>10. P \in Seq(SUBSET Names)
  BY <1>1, <1>3, <1>4, SourceSet DEF N
<1> HIDE DEF P
<1>11. /\ u \in Opens /\ u.kind = "lists" /\ u.step = step /\ u.dir = Current.dir
       /\ u.pending = P /\ u.lines = Current.lines
  BY <1>0, <1>1, <1>8, <1>10 DEF Opens
<1> HIDE DEF u
<1>12. FirstSet(Current.pending, u.pending, N)
  BY <1>11 DEF P, FirstSet
<1>13. /\ Pends(u) \subseteq Pends(Current) \cup InDir(Current.dir, N)
       /\ Len(u.pending) = Len(Current.pending) /\ u.pending # <<>>
  <2> N \in SUBSET Names
    BY <1>4 DEF N
  <2> QED
    BY <1>1, <1>3, <1>11, <1>12, OnePends
<1>14. SourceOk(u)
  BY <1>0, <1>1, <1>3, <1>4, <1>8, <1>11, <1>13 DEF SourceOk, N
<1>15. SourcesOk(in') /\ Len(in') = Len(in) /\ in'[1] = u
  BY <1>0, <1>9, <1>11, <1>14, SourcesKept
<1> QED
  BY <1>0, <1>2, <1>7, <1>11, <1>15 DEF InputStays

(* Every step of the reading keeps the tree and the sources.               *)
LEMMA ReadDoes ==
  ASSUME InputOk, Read
  PROVE  InputStays /\ pc' \in {"read", "last", "write"}
<1>1. CASE ReadBase
  BY <1>1, ReadBaseDoes
<1>2. CASE OpenDir
  BY <1>2, OpenDirDoes
<1>3. CASE ReadEntry
  BY <1>3, ReadEntryDoes
<1>4. CASE PauseDir
  BY <1>4, PauseDirDoes
<1>5. CASE EndDir
  BY <1>5, EndDirDoes
<1>6. CASE NextDir
  BY <1>6, NextDirDoes
<1>7. CASE EndSource
  BY <1>7, EndSourceDoes
<1>8. CASE ReadLines
  BY <1>8, ReadLinesDoes
<1>9. CASE NextList
  BY <1>9, NextListDoes
<1>10. CASE Enough
  BY <1>10, EnoughDoes
<1> QED
  BY <1>1, <1>2, <1>3, <1>4, <1>5, <1>6, <1>7, <1>8, <1>9, <1>10 DEF Read

-----------------------------------------------------------------------------
(* What is written, and where the output is.                               *)

(* The entry that comes is the first of those that follow.                 *)
LEMMA EntryIs ==
  ASSUME TreeOk(tree), cpath \in Paths, after \in Nat, Following # {}
  PROVE  /\ Entry \in Paths \ {<<>>} /\ Entry \in tree.changed /\ Entry \in Following
         /\ Last(Entry) \in Names /\ Last(Entry) > after /\ Entry = Append(cpath, Last(Entry))
         /\ \A q \in Following : q = Entry \/ Before(Entry, q)
         /\ Pos \in Paths /\ ~Before(Entry, Pos) /\ IsPrefix(cpath, Entry)
         /\ \A q \in Paths : Before(q, Pos) => Before(q, Entry)
<1>1. tree.changed \subseteq Paths /\ IsFiniteSet(tree.changed)
  <2>1. tree.changed \subseteq tree.node /\ IsFiniteSet(tree.node) /\ tree.changed \subseteq Paths
    BY DEF TreeOk, Trees
  <2> QED
    BY <2>1, FS_Subset
<1>2. Following \subseteq tree.changed
  BY DEF Following
<1>3. Following \in SUBSET Paths /\ IsFiniteSet(Following)
  BY <1>1, <1>2, FS_Subset
<1>4. Entry \in Following /\ \A q \in Following \ {Entry} : Before(Entry, q)
  BY <1>3, LeastIs DEF Entry
<1>5. Entry \in tree.changed /\ Entry # <<>> /\ Parent(Entry) = cpath /\ Last(Entry) > after
  BY <1>4 DEF Following
<1>6. Entry \in Paths \ {<<>>} /\ Last(Entry) \in Names /\ Entry = Append(cpath, Last(Entry))
  BY <1>1, <1>5, ParentIs DEF Names
<1> DEFINE m == Last(Entry)
<1>7. m \in Nat \ {0} /\ m > after /\ Entry = Append(cpath, m) /\ after + 1 \in Nat \ {0}
  BY <1>5, <1>6 DEF Names
<1> HIDE DEF m
<1>8. Pos \in Paths /\ IsPrefix(cpath, Entry)
  BY <1>7, AppendIs DEF Pos
<1>9. ~(m < after + 1)
  BY <1>7
<1>10. ~Before(Entry, Pos)
  BY <1>7, <1>9, Brothers DEF Pos
<1>11. \A q \in Paths : Before(q, Pos) => Before(q, Entry)
  <2> TAKE q \in Paths
  <2>1. Pos = Entry \/ Before(Pos, Entry)
    BY <1>6, <1>8, <1>10, Comparable
  <2> QED
    BY <1>6, <1>8, <2>1, Transitive
<1> QED
  BY <1>4, <1>5, <1>6, <1>8, <1>10, <1>11

(* The lines of a new log are those of the old one, or that of an entry.   *)
LogFrom(new, p) ==
  \A i \in 1 .. Len(new) : new[i].path = p \/ \E j \in 1 .. Len(log) : new[i] = log[j]

(* A line that is later than all others keeps the order.                   *)
LEMMA LoggedIs ==
  ASSUME log \in Seq(Written1), Ordered(log), fd \in Paths, NEW p \in Paths \ {<<>>},
         p \in tree.filled => Later(p)
  PROVE  Logged(p) \in Seq(Written1) /\ Ordered(Logged(p)) /\ LogFrom(Logged(p), p)
<1>1. CASE Logged(p) = log
  BY <1>1 DEF LogFrom
<1>2. CASE p \in tree.filled /\ Logged(p) = Append(log, [path |-> p, dump |-> fd])
  <2> DEFINE w == [path |-> p, dump |-> fd]
             n == Len(log)
             new == Append(log, w)
  <2>1. w \in Written1 /\ w.path = p
    BY DEF Written1
  <2> HIDE DEF w
  <2>2. /\ n \in Nat /\ new \in Seq(Written1) /\ Len(new) = n + 1 /\ new[n + 1] = w
        /\ \A i \in 1 .. n : new[i] = log[i]
    BY <2>1
  <2>3. \A i \in 1 .. n : Before(log[i].path, p)
    BY <1>2 DEF Later
  <2> HIDE DEF new
  <2>4. LogFrom(new, p)
    <3>1. ASSUME NEW i \in 1 .. n + 1 PROVE new[i].path = p \/ \E j \in 1 .. n : new[i] = log[j]
      <4>1. CASE i = n + 1
        BY <2>1, <2>2, <4>1
      <4>2. CASE i \in 1 .. n
        BY <2>2, <4>2
      <4> QED
        BY <2>2, <4>1, <4>2
    <3> QED
      BY <2>2, <3>1 DEF LogFrom
  <2>5. Ordered(new)
    <3>1. ASSUME NEW i \in 1 .. n + 1, NEW j \in 1 .. n + 1, i < j
          PROVE  Before(new[i].path, new[j].path)
      <4>1. i \in 1 .. n
        BY <2>2, <3>1
      <4>2. CASE j = n + 1
        BY <2>1, <2>2, <2>3, <4>1, <4>2
      <4>3. CASE j \in 1 .. n
        BY <2>2, <3>1, <4>1, <4>3 DEF Ordered
      <4> QED
        BY <2>2, <4>2, <4>3
    <3> QED
      BY <2>2, <3>1 DEF Ordered
  <2>6. Logged(p) = new
    BY <1>2 DEF new, w
  <2> QED
    BY <2>2, <2>4, <2>5, <2>6
<1> QED
  BY <1>1, <1>2 DEF Logged

(* What is left of a dump has no line that was not there.                  *)
LEMMA TruncatedFrom ==
  ASSUME NEW p, NEW lines \in Seq(Written1), Ordered(lines), LogFrom(lines, p), NEW dump
  PROVE  /\ Truncated(lines, dump) \in Seq(Written1) /\ Ordered(Truncated(lines, dump))
         /\ LogFrom(Truncated(lines, dump), p)
BY TruncatedKeeps DEF LogFrom, From

(* What is later than a new line and all others before it stays so.        *)
LEMMA LaterStays ==
  ASSUME NEW p, LogFrom(log', p), NEW q, Later(q), Before(p, q)
  PROVE  Later(q)'
BY DEF Later, LogFrom

(* A directory that is not passed by a new line is not passed.             *)
LEMMA NotPastStays ==
  ASSUME NEW p, LogFrom(log', p), NEW S, NotPast(S), p = S \/ Before(p, S)
  PROVE  NotPast(S)'
BY DEF NotPast, LogFrom

(* Where the output is, and what it has written.                           *)
Placed ==
  /\ cpath \in Paths /\ after \in Nat /\ bpath \in Paths /\ fd \in Paths
  /\ fdstack \in Seq(Paths)
  /\ log \in Seq(Written1) /\ Ordered(log)

(* Part of what is known of the output needs no more than places.          *)
LEMMA OutputPlaced == ASSUME OutputOk PROVE Placed
BY DEF OutputOk, Placed

(* The entry that comes, if it has something to write, is after all that   *)
(* was written.                                                            *)
LEMMA EntryIsLater ==
  ASSUME TreeOk(tree), Placed, OrderOk, pc = "visit", Following # {}, Entry \in tree.filled
  PROVE  Later(Entry)
<1>1. Entry \in Paths \ {<<>>} /\ ~Before(Entry, Pos)
  BY EntryIs DEF Placed
<1> QED
  BY <1>1 DEF OrderOk, Filled

(* Stop, Pass and Enter write the line of the entry.                        *)
LEMMA LineWritten ==
  ASSUME TreeOk(tree), Placed, OrderOk, pc = "visit", Following # {},
         log' = Logged(Entry) \/ \E dump : log' = Truncated(Logged(Entry), dump)
  PROVE  log' \in Seq(Written1) /\ Ordered(log') /\ LogFrom(log', Entry)
<1>1. Entry \in Paths \ {<<>>}
  BY EntryIs DEF Placed
<1>2. Entry \in tree.filled => Later(Entry)
  BY EntryIsLater
<1>3. Logged(Entry) \in Seq(Written1) /\ Ordered(Logged(Entry)) /\ LogFrom(Logged(Entry), Entry)
  BY <1>1, <1>2, LoggedIs DEF Placed
<1> QED
  BY <1>3, TruncatedFrom

(* And the output goes on behind it.                                       *)
LEMMA OrderGoesOn ==
  ASSUME TreeOk(tree), Placed, OrderOk, pc = "visit", Following # {},
         LogFrom(log', Entry), tree' = tree, pc' = "visit", Pos' \in Paths, Before(Entry, Pos')
  PROVE  OrderOk'
<1>1. /\ Entry \in Paths \ {<<>>} /\ Pos \in Paths
      /\ \A q \in Paths : Before(q, Pos) => Before(q, Entry)
  BY EntryIs DEF Placed
<1>2. ASSUME NEW q \in Filled PROVE Before(q, Pos') \/ Later(q)'
  <2>1. q \in Paths
    BY DEF Filled, TreeOk, Trees
  <2>2. CASE q = Entry
    BY <2>2
  <2>3. CASE Before(q, Entry)
    BY <1>1, <2>1, <2>3, Transitive
  <2>4. CASE Before(Entry, q)
    <3>1. ~Before(q, Entry)
      BY <1>1, <2>1, <2>4, Transitive, Irreflexive
    <3>2. Later(q)
      BY <1>1, <2>1, <3>1 DEF OrderOk
    <3> QED
      BY <2>4, <3>2, LaterStays
  <2> QED
    BY <1>1, <2>1, <2>2, <2>3, <2>4, Comparable
<1>3. Filled' = Filled
  BY DEF Filled
<1> QED
  BY <1>2, <1>3 DEF OrderOk, Reading

(* Up from a directory, the output is behind all of it.                    *)
LEMMA UpIsBehind ==
  ASSUME NEW c \in Paths, c # <<>>, NEW a \in Nat
  PROVE  /\ Append(Parent(c), Last(c) + 1) \in Paths
         /\ Append(c, a + 1) \in Paths
         /\ Before(Append(c, a + 1), Append(Parent(c), Last(c) + 1))
<1> DEFINE b == Parent(c)
           m == Last(c)
           e == Append(c, a + 1)
           f == Append(b, m + 1)
<1>1. b \in Paths /\ m \in Nat \ {0} /\ c = Append(b, m)
  BY ParentIs
<1> HIDE DEF b, m
<1>2. m + 1 \in Nat \ {0} /\ a + 1 \in Nat \ {0} /\ m < m + 1 /\ Len(b) \in Nat
  <2>1. Len(b) \in Nat
    BY <1>1, AtIs
  <2>2. m \in Nat \ {0} /\ a \in Nat
    BY <1>1
  <2> QED
    BY ONLY <2>1, <2>2
<1>3. /\ e \in Paths /\ IsPrefix(c, e) /\ f \in Paths /\ Len(f) = Len(b) + 1 /\ Len(c) = Len(b) + 1
      /\ Last(f) = m + 1 /\ Last(c) = m
  BY <1>1, <1>2, AppendIs
<1>4. Before(c, f)
  BY <1>1, <1>2, Brothers
<1>5. ~IsPrefix(c, f)
  <2>1. c # f
    BY <1>1, <1>3
  <2> HIDE DEF f
  <2> QED
    BY <1>3, <2>1, PrefixLen
<1> HIDE DEF e, f
<1>6. Before(e, f)
  BY <1>3, <1>4, <1>5, BelowBefore
<1> QED
  BY <1>3, <1>6 DEF e, f, b, m

(* The output goes on where it stopped: that directory is still changed.   *)
LEMMA ClimbedIs ==
  ASSUME OutputOk, TreeOk(tree), cpath # <<>> => cpath \in tree.changed
  PROVE  Climbed(cpath) = cpath
<1>1. cpath \in Paths /\ Len(cpath) \in Nat
  BY AtIs DEF OutputOk
<1>2. CASE Len(fdstack) > 1
  <2>1. cpath # <<>>
    <3>1. CASE cpath = <<>>
      <4>1. Len(fdstack) = 0 + 1 \/ fdstack = <<>>
        BY <3>1 DEF OutputOk
      <4> QED
        BY <1>2, <4>1
    <3> QED
      BY <3>1
  <2>2. cpath \in Prefixes(cpath) \cap tree.changed
    BY <1>1, <2>1, PrefixesAre
  <2>3. \A r \in Prefixes(cpath) \cap tree.changed : IsPrefix(r, cpath)
    BY <1>1, PrefixesAre
  <2>4. ASSUME NEW q \in Prefixes(cpath) \cap tree.changed,
               \A r \in Prefixes(cpath) \cap tree.changed : IsPrefix(r, q)
        PROVE  q = cpath
    <3>1. q \in Paths /\ IsPrefix(q, cpath) /\ IsPrefix(cpath, q)
      BY <1>1, <2>2, <2>4, PrefixesAre
    <3>2. Len(q) \in Nat
      BY <3>1, AtIs
    <3> QED
      BY <1>1, <3>1, <3>2, PrefixLen
  <2> QED
    BY <1>2, <2>2, <2>3, <2>4 DEF Climbed
<1>3. CASE ~(Len(fdstack) > 1)
  BY <1>3 DEF Climbed
<1> QED
  BY <1>2, <1>3

-----------------------------------------------------------------------------
(* The steps of the output.                                                *)

(* At the beginning of a call the directory where the last one stopped is  *)
(* changed.                                                                *)
LEMMA MayStart ==
  ASSUME IInv, pc = "write"
  PROVE  cpath # <<>> => cpath \in tree.changed
BY DEF IInv, UnsortedOk, RoundOk, Reading, InputOk

(* What the beginning of a call changes.                                   *)
LEMMA StartWriteDoes ==
  ASSUME IInv, StartWrite
  PROVE  /\ cpath' = cpath /\ after' = 0 /\ tree' = Get(tree, cpath) /\ bpath' \in Paths
         /\ pc = "write" /\ pc' \in {"free", "visit"}
         /\ pc' = "visit" => /\ HasSub(tree, cpath) /\ fdstack # <<>>
                             /\ cpath \in tree.changed \ tree.sorting
         /\ pc' = "free" /\ fdstack # <<>> =>
              ~HasSub(tree, cpath) \/ cpath \notin tree.changed \ tree.sorting
         /\ UNCHANGED <<level, refused, sorted, number, fd, fdstack, closed, log>>
<1>1. OutputOk /\ TreeOk(tree) /\ cpath \in Paths /\ bpath \in Paths
  BY DEF IInv, OutputOk, InputOk
<1>2. pc = "write"
  BY DEF StartWrite
<1>3. Climbed(cpath) = cpath
  BY <1>1, <1>2, MayStart, ClimbedIs
<1>4. Len(cpath) \in Nat /\ Len(bpath) \in Nat
  BY <1>1, AtIs
<1>5. Len(cpath) - Len(cpath) = 0 /\ Len(bpath) - 0 = Len(bpath)
  BY <1>4
<1>6. SubSeq(bpath, 1, Len(bpath)) = bpath
  BY <1>1, SubSeqFull DEF Paths
<1>7. bpath' = bpath
  BY <1>3, <1>5, <1>6 DEF StartWrite
<1>8. /\ cpath' = cpath /\ after' = 0 /\ tree' = Get(tree, cpath)
      /\ pc' = IF \/ ~HasSub(tree, cpath)
                  \/ cpath \notin tree.changed \ tree.sorting
                  \/ fdstack = <<>> THEN "free" ELSE "visit"
      /\ UNCHANGED <<level, refused, sorted, number, fd, fdstack, closed, log>>
  BY <1>3 DEF StartWrite
<1> QED
  BY <1>1, <1>2, <1>7, <1>8

(* A call that writes nothing keeps the order.                             *)
LEMMA PostponeKeeps ==
  ASSUME IInv, Postpone PROVE OutputOk' /\ OrderOk'
<1>1. pc' = "free" /\ UNCHANGED <<tree, sorted, number, output>>
  BY DEF Postpone
<1> QED
  BY <1>1 DEF IInv, OutputOk, OrderOk, Reading, output

(* Waiting for the rest of a list keeps the order.                         *)
LEMMA WaitKeeps ==
  ASSUME IInv, Wait PROVE OutputOk' /\ OrderOk'
<1>1. pc' = "free" /\ UNCHANGED <<tree, sorted, number, output>>
  BY DEF Wait
<1> QED
  BY <1>1 DEF IInv, OutputOk, OrderOk, Reading, output

(* The beginning of a call keeps the order.                                *)
LEMMA StartWriteKeeps ==
  ASSUME IInv, StartWrite PROVE OutputOk' /\ OrderOk'
<1>1. /\ cpath' = cpath /\ after' = 0 /\ tree' = Get(tree, cpath) /\ bpath' \in Paths
      /\ pc = "write" /\ pc' \in {"free", "visit"}
      /\ pc' = "visit" => fdstack # <<>>
      /\ number' = number /\ fd' = fd /\ fdstack' = fdstack /\ log' = log
  BY StartWriteDoes
<1>2. OutputOk /\ TreeOk(tree) /\ cpath \in Paths /\ \A q \in Filled : Later(q)
  BY <1>1 DEF IInv, OutputOk, InputOk, OrderOk, Reading
<1>3. OutputOk'
  BY <1>1, <1>2 DEF OutputOk
<1>4. Filled' = Filled
  BY <1>1, <1>2, GetOk DEF Filled
<1>5. \A q \in Filled : Later(q)'
  BY <1>1, <1>2 DEF Later
<1>6. OrderOk'
  BY <1>1, <1>4, <1>5 DEF OrderOk, Reading
<1> QED
  BY <1>3, <1>6

(* Stopping keeps the order, wherever the output is.                       *)
LEMMA StopGoes ==
  ASSUME TreeOk(tree), Placed, OrderOk, Stop
  PROVE  Placed' /\ OrderOk' /\ LogFrom(log', Entry)
<1>1. /\ pc = "visit" /\ Following # {} /\ log' = Logged(Entry) /\ pc' = "free"
      /\ UNCHANGED <<tree, number, cpath, after, bpath, fd, fdstack>>
  BY DEF Stop
<1>2. log' \in Seq(Written1) /\ Ordered(log') /\ LogFrom(log', Entry)
  BY <1>1, LineWritten
<1>3. Placed'
  BY <1>1, <1>2 DEF Placed
<1> QED
  BY <1>1, <1>2, <1>3 DEF OrderOk, Reading

(* Stopping at a directory that is being read keeps the order.             *)
LEMMA StopKeeps ==
  ASSUME IInv, Stop PROVE OutputOk' /\ OrderOk' /\ LogFrom(log', Entry)
<1>1. OutputOk /\ OrderOk /\ TreeOk(tree)
  BY DEF IInv, InputOk
<1>2. Placed' /\ OrderOk' /\ LogFrom(log', Entry)
  BY <1>1, OutputPlaced, StopGoes
<1>3. pc' = "free" /\ UNCHANGED <<number, cpath, fdstack>>
  BY DEF Stop
<1> QED
  BY <1>1, <1>2, <1>3 DEF OutputOk, Placed

(* Passing an entry keeps the order, wherever the output is.               *)
LEMMA PassGoes ==
  ASSUME TreeOk(tree), Placed, OrderOk, Pass
  PROVE  Placed' /\ OrderOk' /\ LogFrom(log', Entry)
<1>1. /\ pc = "visit" /\ Following # {} /\ log' = Logged(Entry) /\ pc' = "visit"
      /\ after' = Last(Entry)
      /\ UNCHANGED <<tree, number, cpath, bpath, fd, fdstack>>
  BY DEF Pass
<1>2. cpath \in Paths /\ after \in Nat
  BY DEF Placed
<1>3. log' \in Seq(Written1) /\ Ordered(log') /\ LogFrom(log', Entry)
  BY <1>1, LineWritten
<1>4. Last(Entry) \in Names /\ Entry = Append(cpath, Last(Entry))
  BY <1>1, <1>2, EntryIs
<1> DEFINE m == Last(Entry)
<1>5. m \in Nat \ {0} /\ Entry = Append(cpath, m) /\ m + 1 \in Nat \ {0} /\ m < m + 1
  BY <1>4 DEF Names
<1>6. Pos' = Append(cpath, m + 1)
  BY <1>1 DEF Pos
<1> HIDE DEF m
<1>7. Pos' \in Paths /\ Before(Entry, Pos')
  BY <1>2, <1>5, <1>6, AppendIs, Brothers
<1>8. Placed'
  BY <1>1, <1>3, <1>4 DEF Placed, Names
<1>9. OrderOk'
  BY <1>1, <1>3, <1>7, OrderGoesOn
<1> QED
  BY <1>3, <1>8, <1>9

(* Passing an entry keeps the order.                                       *)
LEMMA PassKeeps ==
  ASSUME IInv, Pass PROVE OutputOk' /\ OrderOk' /\ LogFrom(log', Entry)
<1>1. OutputOk /\ OrderOk /\ TreeOk(tree)
  BY DEF IInv, InputOk
<1>2. Placed' /\ OrderOk' /\ LogFrom(log', Entry)
  BY <1>1, OutputPlaced, PassGoes
<1>3. UNCHANGED <<pc, number, cpath, fdstack>>
  BY DEF Pass
<1> QED
  BY <1>1, <1>2, <1>3 DEF OutputOk, Placed

(* A sequence with an element put in front.                                *)
LEMMA Pushed ==
  ASSUME NEW S, NEW x \in S, NEW l \in Seq(S)
  PROVE  <<x>> \o l \in Seq(S) /\ Len(<<x>> \o l) = 1 + Len(l)
<1> DEFINE one == <<x>>
<1>1. one \in Seq(S) /\ Len(one) = 1
  OBVIOUS
<1> HIDE DEF one
<1>2. one \o l \in Seq(S) /\ Len(one \o l) = Len(one) + Len(l)
  BY <1>1, ConcatProperties
<1> QED
  BY <1>1, <1>2 DEF one

(* Going into a directory keeps the order, wherever the output is.         *)
LEMMA EnterGoes ==
  ASSUME TreeOk(tree), Placed, OrderOk, Enter
  PROVE  /\ Placed' /\ OrderOk' /\ LogFrom(log', Entry)
         /\ Len(fdstack') = 1 + Len(fdstack) /\ Len(cpath') = Len(cpath) + 1
<1> DEFINE dump == Append(bpath, Last(Entry))
           opens == recursion > 0 /\ dump \notin refused
<1>1. /\ pc = "visit" /\ Following # {} /\ pc' = "visit"
      /\ log' = IF opens THEN Truncated(Logged(Entry), dump) ELSE Logged(Entry)
      /\ fd' = (IF opens THEN dump ELSE fd)
      /\ bpath' = (IF recursion > 0 THEN dump ELSE bpath)
      /\ fdstack' = <<fd>> \o fdstack /\ cpath' = Entry /\ after' = 0
      /\ UNCHANGED <<tree, number>>
  BY DEF Enter
<1>2. /\ cpath \in Paths /\ after \in Nat
      /\ bpath \in Paths /\ fd \in Paths /\ fdstack \in Seq(Paths)
  BY DEF Placed
<1>3. log' \in Seq(Written1) /\ Ordered(log') /\ LogFrom(log', Entry)
  <2>1. log' = Logged(Entry) \/ \E d : log' = Truncated(Logged(Entry), d)
    BY <1>1
  <2> QED
    BY <1>1, <2>1, LineWritten
<1>4. Last(Entry) \in Names /\ Entry = Append(cpath, Last(Entry)) /\ Entry \in Paths
  BY <1>1, <1>2, EntryIs
<1>5. dump \in Paths /\ Len(Entry) = Len(cpath) + 1
  <2> DEFINE m == Last(Entry)
  <2>1. m \in Nat \ {0} /\ Entry = Append(cpath, m)
    BY <1>4 DEF Names
  <2> HIDE DEF m
  <2>2. Append(bpath, m) \in Paths /\ Len(Entry) = Len(cpath) + 1
    BY <1>2, <2>1, AppendIs
  <2> QED
    BY <2>2 DEF m
<1> HIDE DEF dump, opens
<1>6. /\ fdstack' \in Seq(Paths) /\ Len(fdstack') = 1 + Len(fdstack)
  BY <1>1, <1>2, Pushed
<1>7. fd' \in Paths /\ bpath' \in Paths
  BY <1>1, <1>2, <1>5
<1>8. Placed'
  BY <1>1, <1>3, <1>4, <1>6, <1>7 DEF Placed
<1>9. Pos' \in Paths /\ Before(Entry, Pos')
  <2>1. Pos' = Append(Entry, 1)
    BY <1>1 DEF Pos
  <2> QED
    BY <1>4, <2>1, AppendIs
<1>10. OrderOk'
  BY <1>1, <1>3, <1>9, OrderGoesOn
<1> QED
  BY <1>1, <1>3, <1>5, <1>6, <1>8, <1>10

(* Going into a directory keeps the order.                                 *)
LEMMA EnterKeeps ==
  ASSUME IInv, Enter PROVE OutputOk' /\ OrderOk' /\ LogFrom(log', Entry)
<1>1. pc = "visit" /\ pc' = "visit" /\ number' = number
  BY DEF Enter
<1>2. OutputOk /\ OrderOk /\ TreeOk(tree) /\ cpath \in Paths /\ Len(fdstack) = Len(cpath) + 1
  BY <1>1 DEF IInv, InputOk, OutputOk
<1>3. /\ Placed' /\ OrderOk' /\ LogFrom(log', Entry)
      /\ Len(fdstack') = 1 + Len(fdstack) /\ Len(cpath') = Len(cpath) + 1
  BY <1>2, OutputPlaced, EnterGoes
<1>4. Len(fdstack') = Len(cpath') + 1
  <2>1. Len(cpath) \in Nat
    BY <1>2, AtIs
  <2> QED
    BY <1>2, <1>3, <2>1
<1> QED
  BY <1>1, <1>2, <1>3, <1>4 DEF OutputOk, Placed

(* What leaving a directory changes.                                       *)
LEMMA LeaveDoes ==
  ASSUME IInv, Leave
  PROVE  /\ pc = "visit" /\ Following = {} /\ Len(fdstack) = Len(cpath) + 1
         /\ UNCHANGED <<tree, number, log, sorted>>
         /\ \/ /\ cpath = <<>> /\ cpath' = <<>> /\ fdstack' = <<>> /\ pc' = "free"
               /\ after' = after
            \/ /\ cpath # <<>> /\ cpath' = Parent(cpath) /\ pc' = "visit"
               /\ after' = Last(cpath) /\ Len(fdstack') = Len(cpath') + 1
         /\ fdstack' \in Seq(Paths) /\ fd' \in Paths /\ bpath' \in Paths
<1>1. /\ pc = "visit" /\ Following = {} /\ UNCHANGED <<tree, number, log, sorted>>
      /\ bpath' = (IF recursion + 1 > 0 /\ bpath # <<>> THEN Front(bpath) ELSE bpath)
      /\ fd' = Head(fdstack) /\ fdstack' = Tail(fdstack)
      /\ after' = (IF cpath = <<>> THEN after ELSE Last(cpath))
      /\ cpath' = (IF cpath = <<>> THEN <<>> ELSE Parent(cpath))
      /\ pc' = (IF Len(fdstack) = 1 THEN "free" ELSE pc)
  BY DEF Leave
<1>2. /\ cpath \in Paths /\ bpath \in Paths /\ fdstack \in Seq(Paths)
      /\ Len(fdstack) = Len(cpath) + 1
  BY <1>1 DEF IInv, OutputOk
<1>3. Len(cpath) \in Nat
  BY <1>2, AtIs
<1>4. /\ fdstack # <<>> /\ Head(fdstack) \in Paths /\ Tail(fdstack) \in Seq(Paths)
      /\ Len(Tail(fdstack)) = Len(cpath)
  BY <1>2, <1>3
<1>5. bpath # <<>> => Front(bpath) \in Paths
  BY <1>2, ParentIs DEF Parent
<1>6. bpath' \in Paths
  BY <1>1, <1>2, <1>5
<1>7. CASE cpath = <<>>
  <2>1. Len(fdstack) = 1 /\ Len(Tail(fdstack)) = 0
    BY <1>2, <1>4, <1>7
  <2>2. Tail(fdstack) = <<>>
    BY <1>4, <2>1
  <2> QED
    BY <1>1, <1>2, <1>4, <1>6, <1>7, <2>1, <2>2
<1>8. CASE cpath # <<>>
  <2>1. Len(Parent(cpath)) = Len(cpath) - 1 /\ Len(cpath) # 0
    <3> DEFINE b == Parent(cpath)
               m == Last(cpath)
    <3>1. b \in Paths /\ m \in Nat \ {0} /\ cpath = Append(b, m)
      BY <1>2, <1>8, ParentIs
    <3> HIDE DEF b, m
    <3>2. Len(cpath) = Len(b) + 1 /\ Len(b) \in Nat
      BY <3>1, AppendIs, AtIs
    <3>3. Len(b) = Len(cpath) - 1 /\ Len(cpath) # 0
      BY <3>2
    <3> QED
      BY <3>3 DEF b
  <2>2. Len(fdstack) # 1
    BY <1>2, <1>3, <2>1
  <2>3. cpath' = Parent(cpath) /\ fdstack' = Tail(fdstack) /\ pc' = "visit" /\ after' = Last(cpath)
    BY <1>1, <1>8, <2>2
  <2>4. Len(fdstack') = Len(cpath') + 1
    BY <1>3, <1>4, <2>1, <2>3
  <2> QED
    BY <1>1, <1>2, <1>4, <1>6, <1>8, <2>3, <2>4
<1> QED
  BY <1>7, <1>8

(* Leaving a directory keeps the order, from wherever there is something   *)
(* on the stack.                                                           *)
LEMMA LeaveGoes ==
  ASSUME TreeOk(tree), Placed, OrderOk, fdstack # <<>>, Leave
  PROVE  /\ Placed' /\ OrderOk' /\ pc' \in {"visit", "free"}
         /\ pc' = "visit" => fdstack' # <<>>
         /\ UNCHANGED <<tree, number, log, sorted>>
<1>1. /\ pc = "visit" /\ UNCHANGED <<tree, number, log, sorted>>
      /\ bpath' = (IF recursion + 1 > 0 /\ bpath # <<>> THEN Front(bpath) ELSE bpath)
      /\ fd' = Head(fdstack) /\ fdstack' = Tail(fdstack)
      /\ after' = (IF cpath = <<>> THEN after ELSE Last(cpath))
      /\ cpath' = (IF cpath = <<>> THEN <<>> ELSE Parent(cpath))
      /\ pc' = (IF Len(fdstack) = 1 THEN "free" ELSE pc)
  BY DEF Leave
<1>2. /\ cpath \in Paths /\ after \in Nat /\ bpath \in Paths /\ fdstack \in Seq(Paths)
      /\ log \in Seq(Written1) /\ Ordered(log)
  BY DEF Placed
<1>3. fd' \in Paths /\ fdstack' \in Seq(Paths) /\ (Len(fdstack) # 1 => fdstack' # <<>>)
  <2> DEFINE t == Tail(fdstack)
  <2>1. /\ Head(fdstack) \in Paths /\ t \in Seq(Paths)
        /\ Len(t) = Len(fdstack) - 1 /\ Len(fdstack) \in Nat
    BY <1>2
  <2>2. fd' = Head(fdstack) /\ fdstack' = t
    BY <1>1
  <2> HIDE DEF t
  <2>3. t = <<>> => Len(fdstack) = 1
    BY <2>1
  <2> QED
    BY <2>1, <2>2, <2>3
<1>4. bpath' \in Paths
  BY <1>1, <1>2, ParentIs DEF Parent
<1>5. cpath' \in Paths /\ after' \in Nat
  BY <1>1, <1>2, ParentIs
<1>6. Placed'
  BY <1>1, <1>2, <1>3, <1>4, <1>5 DEF Placed
<1>7. Pos \in Paths /\ Pos' \in Paths /\ (Pos' = Pos \/ Before(Pos, Pos'))
  <2>1. CASE cpath = <<>>
    <3>1. Pos' = Pos
      BY <1>1, <2>1 DEF Pos
    <3>2. after + 1 \in Nat \ {0}
      BY <1>2
    <3> QED
      BY <1>2, <3>1, <3>2, AppendIs DEF Pos
  <2>2. CASE cpath # <<>>
    <3>1. Pos' = Append(Parent(cpath), Last(cpath) + 1) /\ Pos = Append(cpath, after + 1)
      BY <1>1, <2>2 DEF Pos
    <3> QED
      BY <1>2, <2>2, <3>1, UpIsBehind
  <2> QED
    BY <2>1, <2>2
<1>8. ASSUME NEW q \in Filled PROVE Before(q, Pos') \/ Later(q)'
  <2>1. q \in Paths
    BY DEF Filled, TreeOk, Trees
  <2>2. Before(q, Pos) \/ Later(q)
    BY <1>1 DEF OrderOk
  <2>3. Later(q)' = Later(q)
    BY <1>1 DEF Later
  <2> QED
    BY <1>7, <2>1, <2>2, <2>3, Transitive
<1>9. Filled' = Filled
  BY <1>1 DEF Filled
<1>10. OrderOk'
  BY <1>1, <1>8, <1>9 DEF OrderOk, Reading
<1> QED
  BY <1>1, <1>3, <1>6, <1>10

(* Leaving a directory keeps the order.                                    *)
LEMMA LeaveKeeps ==
  ASSUME IInv, Leave PROVE OutputOk' /\ OrderOk'
<1>1. OutputOk /\ OrderOk /\ TreeOk(tree)
  BY DEF IInv, InputOk
<1>2. Len(fdstack) = Len(cpath) + 1 /\ cpath \in Paths /\ fdstack \in Seq(Paths)
  BY <1>1, LeaveDoes DEF OutputOk
<1>3. fdstack # <<>>
  <2>1. Len(cpath) \in Nat
    BY <1>2, AtIs
  <2> QED
    BY <1>2, <2>1
<1>4. Placed' /\ OrderOk' /\ UNCHANGED <<number, log>>
  BY <1>1, <1>3, OutputPlaced, LeaveGoes
<1>5. \/ cpath' = <<>> /\ fdstack' = <<>> /\ pc' = "free"
      \/ pc' = "visit" /\ Len(fdstack') = Len(cpath') + 1
  BY LeaveDoes
<1> QED
  BY <1>1, <1>4, <1>5 DEF OutputOk, Placed

(* Every step of the output keeps the order.                               *)
LEMMA WriteKeeps ==
  ASSUME IInv, Write PROVE OutputOk' /\ OrderOk'
BY PostponeKeeps, StartWriteKeeps, StopKeeps, PassKeeps, EnterKeeps, WaitKeeps, LeaveKeeps DEF Write

-----------------------------------------------------------------------------
(* Reading a sorted file system.                                           *)

(* What is new in the tree comes after what was written.                    *)
NewIsLater ==
  /\ Grown(tree, tree')
  /\ \A S \in tree'.sorting \ tree.sorting : Ahead(S) /\ NotPast(S)
  /\ \A q \in tree'.filled \ tree.filled : q = <<>> \/ (Before(cpath, q) /\ Later(q))

(* If all that is new is later, the reading keeps the invariant of a       *)
(* round.                                                                  *)
LEMMA ReadRound ==
  ASSUME IInv, sorted, pc = "read", UNCHANGED output, pc' \in {"read", "last", "write"},
         NewIsLater, pc' = "write" => <<>> \in tree'.changed
  PROVE  RoundOk' /\ OrderOk'
<1>1. RoundOk /\ OrderOk /\ Reading
  BY DEF IInv, Reading
<1>2. cpath' = cpath /\ log' = log
  BY DEF output
<1>3. ASSUME NEW S \in tree'.sorting PROVE Ahead(S)' /\ NotPast(S)'
  <2>1. Ahead(S) /\ NotPast(S)
    BY <1>1 DEF RoundOk, NewIsLater
  <2> QED
    BY <1>2, <2>1 DEF Ahead, NotPast
<1>4. ASSUME NEW q \in Filled' PROVE Before(cpath, q) /\ Later(q) /\ Later(q)'
  <2>1. Before(cpath, q) /\ Later(q)
    BY <1>1 DEF RoundOk, OrderOk, NewIsLater, Filled
  <2> QED
    BY <1>2, <2>1 DEF Later
<1>5. cpath # <<>> => cpath \in tree'.changed /\ HasSub(tree', cpath)
  BY <1>1, SubStays DEF RoundOk, NewIsLater, Grown
<1> QED
  BY <1>2, <1>3, <1>4, <1>5 DEF RoundOk, OrderOk, Reading

(* A step that adds nothing adds nothing too early.                        *)
LEMMA NothingNew ==
  ASSUME Grown(tree, tree'), tree'.sorting \subseteq tree.sorting,
         tree'.filled \subseteq tree.filled
  PROVE  NewIsLater
BY DEF NewIsLater

(* At the beginning everything is still to come.                           *)
LEMMA FirstIsLater ==
  ASSUME log = <<>>, cpath = <<>>, NEW p \in Paths
  PROVE  /\ Ahead(p) /\ NotPast(p) /\ Later(p)
         /\ p = <<>> \/ Before(cpath, p)
<1>1. 1 .. Len(log) = {}
  BY Len(<<>>) = 0
<1>2. p = <<>> \/ Before(<<>>, p)
  BY EmptyPrefix, PrefixBefore
<1> QED
  BY <1>1, <1>2 DEF Ahead, NotPast, Later

(* A tree that stays has grown.                                            *)
LEMMA TreeSame == ASSUME TreeOk(tree), tree' = tree PROVE Grown(tree, tree')
BY DEF Grown

(* What is known when a sorted file system is read.                        *)
LEMMA FsStart ==
  ASSUME IInv, sorted, pc = "read"
  PROVE  /\ InputOk /\ TreeOk(tree) /\ count \in Nat /\ FsOk /\ MarksOk(tree) /\ tree.reading = {}
         /\ cpath \in Paths /\ log \in Seq(Written1)
         /\ \A S \in tree.sorting : S \in Paths /\ Ahead(S) /\ NotPast(S)
         /\ in # <<>> => Current.dir \in Paths /\ Len(in) = 1 /\ Current.kind = "fs"
<1>1. IInv /\ InputOk /\ OutputOk /\ FsOk /\ RoundOk /\ Reading
  BY DEF IInv, Reading
<1>2. TreeOk(tree) /\ count \in Nat /\ tree.sorting \subseteq Paths
  BY <1>1 DEF InputOk, TreeOk, Trees
<1>3. in # <<>> => Current.dir \in Paths /\ Len(in) = 1 /\ Current.kind = "fs"
  <2> SUFFICES ASSUME in # <<>> PROVE Current.dir \in Paths /\ Len(in) = 1 /\ Current.kind = "fs"
    OBVIOUS
  <2>1. Len(in) \in Nat \ {0} /\ Current.dir \in Paths
    BY <1>1, SourcesLeft, CurrentIs
  <2>2. Len(in) <= 1 /\ Current.kind = "fs"
    BY <1>1 DEF FsOk
  <2>3. Len(in) = 1
    <3>1. \A n \in Nat \ {0} : n <= 1 => n = 1
      OBVIOUS
    <3> QED
      BY ONLY <2>1, <2>2, <3>1
  <2> QED
    BY <2>1, <2>2, <2>3
<1> QED
  BY <1>1, <1>2, <1>3 DEF FsOk, RoundOk, OutputOk

(* Reading the base of a sorted file system.                               *)
LEMMA FsReadBase ==
  ASSUME IInv, sorted, ReadBase, UNCHANGED output
  PROVE  FsOk' /\ RoundOk' /\ OrderOk'
<1>0. /\ in # <<>> /\ pc = "read" /\ Current.step = "init" /\ Current.kind = "fs"
  BY DEF ReadBase, Is
<1>1. /\ InputOk /\ TreeOk(tree) /\ FsOk /\ MarksOk(tree) /\ tree.reading = {}
      /\ Current.dir \in Paths /\ Current.base \in Paths /\ Len(in) = 1
      /\ cpath \in Paths /\ log \in Seq(Written1)
  BY <1>0, FsStart, CurrentIs
<1>2. log = <<>> /\ cpath = <<>> /\ count = 0 /\ cpath' = <<>> /\ log' = <<>>
  BY <1>0, <1>1 DEF FsOk, output
<1>3. /\ Pends(Current) \subseteq tree.sorting
      /\ Pends(Current) \cap Prefixes(Current.dir) = {}
  BY <1>0, <1>1 DEF FsOk
<1>4. CASE /\ tree' = Fill(Set(tree, "changed", <<>>), Current.base)
           /\ Len(in') = Len(in) /\ in'[1].kind = "fs"
           /\ \/ /\ in'[1].step = "read" /\ Pends(in'[1]) = {}
                 /\ pc' = "write" /\ count' = 0
              \/ /\ in'[1].step = "notread" /\ in'[1].dir = Current.base
                 /\ Current.dir = Current.base /\ Pends(in'[1]) = Pends(Current)
                 /\ pc' = "read" /\ count' = 1
  <2>1. /\ Grown(tree, tree') /\ tree'.filled = tree.filled \cup {Current.base}
        /\ tree'.sorting = tree.sorting /\ <<>> \in tree'.changed
        /\ MarksOk(tree') /\ Current.base \in tree'.changed \cup {<<>>}
    BY <1>1, <1>4, BaseFilled
  <2>2. NewIsLater
    BY <1>1, <1>2, <2>1, FirstIsLater DEF NewIsLater
  <2>3. tree'.reading = {}
    BY <1>1, <2>1 DEF Grown
  <2>4. FsOk'
    BY <1>1, <1>2, <1>3, <1>4, <2>1, <2>3 DEF FsOk, Current
  <2> QED
    BY <1>0, <1>4, <2>1, <2>2, <2>4, ReadRound
<1>5. CASE /\ tree' = Get(Set(tree, "changed", <<>>), Current.base)
           /\ in' = Tail(in) /\ count' = count
           /\ pc' = IF Len(in) = 1 THEN "last" ELSE "read"
  <2>1. /\ Grown(tree, tree') /\ tree'.filled = tree.filled
        /\ tree'.sorting = tree.sorting /\ MarksOk(tree')
    BY <1>1, <1>5, BaseMade
  <2>2. NewIsLater
    BY <2>1, NothingNew
  <2>3. tree'.reading = {}
    BY <1>1, <2>1 DEF Grown
  <2>4. Len(in') = 0 /\ in' = <<>> /\ pc' = "last"
    <3>1. SourcesOk(Tail(in)) /\ Len(Tail(in)) = Len(in) - 1
      BY <1>0, <1>1, SourcesLeft
    <3>2. Tail(in) \in Seq(Opens) /\ Len(Tail(in)) = 0
      BY <1>1, <3>1 DEF SourcesOk
    <3>3. Tail(in) = <<>>
      BY <3>2, EmptySeq
    <3> QED
      BY <1>1, <1>5, <3>2, <3>3
  <2>5. FsOk'
    <3>1. count' = 0
      BY <1>2, <1>5
    <3>2. ~(count' > 0)
      BY ONLY <3>1
    <3>3. Len(in') <= 1
      BY ONLY <2>4
    <3> QED
      BY <2>1, <2>3, <2>4, <3>2, <3>3 DEF FsOk
  <2> QED
    BY <1>0, <2>2, <2>4, <2>5, ReadRound
<1> QED
  BY <1>1, <1>4, <1>5, ReadBaseDoes

(* Opening a directory of it.                                              *)
LEMMA FsOpenDir ==
  ASSUME IInv, sorted, OpenDir, UNCHANGED output
  PROVE  FsOk' /\ RoundOk' /\ OrderOk'
<1>0. /\ in # <<>> /\ pc = "read" /\ Current.step = "notread"
  BY DEF OpenDir, Is
<1>1. /\ InputOk /\ TreeOk(tree) /\ FsOk /\ MarksOk(tree) /\ tree.reading = {}
      /\ Current.dir \in Paths /\ Len(in) = 1 /\ count \in Nat
  BY <1>0, FsStart
<1>2. /\ tree' = Set(Set(Get(tree, Current.dir), "sorting", Current.dir), "changed", <<>>)
      /\ Len(in') = Len(in) /\ in'[1].kind = "fs" /\ in'[1].step \in {"open", "read"}
      /\ in'[1].dir = Current.dir /\ Pends(in'[1]) = Pends(Current)
      /\ pc' = "read" /\ count' = count
  BY <1>1, OpenDirDoes
<1>3. /\ Pends(Current) \subseteq tree.sorting
      /\ Pends(Current) \cap Prefixes(Current.dir) = {}
      /\ \/ Current.dir \in tree.sorting
         \/ log = <<>> /\ cpath = <<>> /\ Current.dir \in tree.changed \cup {<<>>}
  BY <1>0, <1>1 DEF FsOk
<1>4. Current.dir \in tree.changed \cup {<<>>}
  BY <1>1, <1>3 DEF MarksOk
<1>5. /\ Grown(tree, tree') /\ tree'.filled = tree.filled
      /\ tree'.sorting = tree.sorting \cup {Current.dir}
      /\ <<>> \in tree'.changed /\ MarksOk(tree')
  BY <1>1, <1>2, <1>4, DirMarked
<1>6. NewIsLater
  BY <1>1, <1>3, <1>5, FirstIsLater DEF NewIsLater
<1>7. tree'.reading = {}
  BY <1>1, <1>5 DEF Grown
<1>8. FsOk'
  BY <1>1, <1>2, <1>3, <1>5, <1>7 DEF FsOk, Current
<1> QED
  BY <1>0, <1>2, <1>5, <1>6, <1>8, ReadRound

(* An entry of a directory that is marked is after all that was written.   *)
LEMMA EntryAhead ==
  ASSUME cpath \in Paths, log \in Seq(Written1), NEW d \in Paths, Ahead(d), NotPast(d), NEW n \in Names
  PROVE  /\ Append(d, n) \in Paths /\ Append(d, n) # <<>>
         /\ Before(cpath, Append(d, n)) /\ Ahead(Append(d, n))
         /\ Later(Append(d, n)) /\ NotPast(Append(d, n))
         /\ Append(d, n) \notin Prefixes(d)
<1> DEFINE p == Append(d, n)
<1>1. p \in Paths /\ p # <<>> /\ Before(d, p)
  BY AppendIs DEF Names
<1> HIDE DEF p
<1>2. Before(cpath, p)
  BY <1>1, Transitive DEF Ahead
<1>3. Later(p)
  <2> SUFFICES ASSUME NEW i \in 1 .. Len(log) PROVE Before(log[i].path, p)
    BY DEF Later
  <2>1. log[i] \in Written1
    OBVIOUS
  <2>2. log[i].path \in Paths
    BY <2>1 DEF Written1
  <2> QED
    BY <1>1, <2>2, Transitive DEF NotPast
<1>4. p \notin Prefixes(d)
  <2>1. ASSUME IsPrefix(p, d) PROVE FALSE
    <3>1. p = d \/ Before(p, d)
      BY <1>1, <2>1, PrefixBefore
    <3> QED
      BY <1>1, <3>1, Transitive, Irreflexive
  <2> QED
    BY <1>1, <2>1, PrefixesAre
<1> QED
  BY <1>1, <1>2, <1>3, <1>4 DEF p, Ahead, NotPast, Later

(* Reading an entry.                                                       *)
LEMMA FsReadEntry ==
  ASSUME IInv, sorted, ReadEntry, UNCHANGED output
  PROVE  FsOk' /\ RoundOk' /\ OrderOk'
<1>0. /\ in # <<>> /\ pc = "read" /\ Current.step = "open"
  BY DEF ReadEntry, Is
<1>1. /\ InputOk /\ TreeOk(tree) /\ FsOk /\ MarksOk(tree) /\ tree.reading = {}
      /\ Current.dir \in Paths /\ Len(in) = 1 /\ cpath \in Paths /\ log \in Seq(Written1)
  BY <1>0, FsStart
<1>2. /\ Len(in') = Len(in) /\ in'[1].kind = "fs" /\ in'[1].step = "open"
      /\ in'[1].dir = Current.dir
      /\ pc' = "read" /\ count' > 0
  BY <1>1, ReadEntryDoes
<1>3. PICK n \in Names :
        \/ /\ tree' = Set(Fill(tree, Append(Current.dir, n)), "sorting", Append(Current.dir, n))
           /\ Pends(in'[1]) \subseteq Pends(Current) \cup {Append(Current.dir, n)}
        \/ /\ tree' = Fill(tree, Append(Current.dir, n))
           /\ Pends(in'[1]) = Pends(Current)
  BY <1>1, ReadEntryDoes
<1> DEFINE p == Append(Current.dir, n)
<1>4. /\ Pends(Current) \subseteq tree.sorting
      /\ Pends(Current) \cap Prefixes(Current.dir) = {}
      /\ Current.dir \in tree.sorting /\ <<>> \in tree.changed
  BY <1>0, <1>1 DEF FsOk
<1>5. Ahead(Current.dir) /\ NotPast(Current.dir)
  BY <1>0, <1>4, FsStart
<1>6. /\ p \in Paths /\ p # <<>> /\ Before(cpath, p) /\ Ahead(p) /\ Later(p) /\ NotPast(p)
      /\ p \notin Prefixes(Current.dir)
  BY <1>1, <1>5, EntryAhead
<1> HIDE DEF p
<1>7. /\ Grown(tree, tree') /\ tree'.filled = tree.filled \cup {p}
      /\ MarksOk(tree')
      /\ \/ tree'.sorting = tree.sorting \cup {p} /\ Pends(in'[1]) \subseteq Pends(Current) \cup {p}
         \/ tree'.sorting = tree.sorting /\ Pends(in'[1]) = Pends(Current)
  <2>1. CASE /\ tree' = Set(Fill(tree, p), "sorting", p)
             /\ Pends(in'[1]) \subseteq Pends(Current) \cup {p}
    BY <1>1, <1>6, <2>1, DirFilled
  <2>2. CASE tree' = Fill(tree, p) /\ Pends(in'[1]) = Pends(Current)
    BY <1>1, <1>6, <2>2, FillOk, FillGrows, FillMarks
  <2> QED
    BY <1>3, <2>1, <2>2 DEF p
<1>8. NewIsLater
  BY <1>6, <1>7 DEF NewIsLater
<1>9. tree'.reading = {} /\ <<>> \in tree'.changed
  BY <1>1, <1>4, <1>7 DEF Grown
<1>10. /\ Pends(in'[1]) \subseteq tree'.sorting
       /\ Pends(in'[1]) \cap Prefixes(Current.dir) = {}
       /\ Current.dir \in tree'.sorting
  BY <1>4, <1>6, <1>7
<1>11. FsOk'
  BY <1>1, <1>2, <1>7, <1>9, <1>10 DEF FsOk, Current
<1> QED
  BY <1>0, <1>2, <1>8, <1>11, ReadRound

(* A pause: the directory keeps its mark.                                  *)
LEMMA FsPauseDir ==
  ASSUME IInv, sorted, PauseDir, UNCHANGED output
  PROVE  FsOk' /\ RoundOk' /\ OrderOk'
<1>0. /\ in # <<>> /\ pc = "read" /\ Current.step = "open"
  BY DEF PauseDir, Is
<1>1. /\ InputOk /\ TreeOk(tree) /\ FsOk /\ MarksOk(tree) /\ tree.reading = {} /\ Len(in) = 1
  BY <1>0, FsStart
<1>2. /\ tree' = tree /\ Len(in') = Len(in) /\ in'[1].kind = "fs" /\ in'[1].step = "notread"
      /\ in'[1].dir = Current.dir /\ Pends(in'[1]) = Pends(Current)
      /\ pc' = "write" /\ count' = 0
  BY <1>1, PauseDirDoes
<1>3. /\ Pends(Current) \subseteq tree.sorting
      /\ Pends(Current) \cap Prefixes(Current.dir) = {}
      /\ Current.dir \in tree.sorting /\ <<>> \in tree.changed
  BY <1>0, <1>1 DEF FsOk
<1>4. NewIsLater
  BY <1>1, <1>2, TreeSame, NothingNew
<1>5. FsOk'
  BY <1>1, <1>2, <1>3 DEF FsOk, Current
<1> QED
  BY <1>0, <1>2, <1>3, <1>4, <1>5, ReadRound

(* The end of a directory.                                                 *)
LEMMA FsEndDir ==
  ASSUME IInv, sorted, EndDir, UNCHANGED output
  PROVE  FsOk' /\ RoundOk' /\ OrderOk'
<1>0. /\ in # <<>> /\ pc = "read" /\ Current.step = "open"
  BY DEF EndDir, Is
<1>1. /\ InputOk /\ TreeOk(tree) /\ FsOk /\ MarksOk(tree) /\ tree.reading = {} /\ Len(in) = 1
  BY <1>0, FsStart
<1>2. /\ tree' = tree /\ Len(in') = Len(in) /\ in'[1].kind = "fs" /\ in'[1].step = "read"
      /\ in'[1].dir = Current.dir /\ Pends(in'[1]) = Pends(Current)
      /\ pc' = "read" /\ count' = count
  BY <1>1, EndDirDoes
<1>3. /\ Pends(Current) \subseteq tree.sorting
      /\ Pends(Current) \cap Prefixes(Current.dir) = {}
      /\ <<>> \in tree.changed
  BY <1>0, <1>1 DEF FsOk
<1>4. NewIsLater
  BY <1>1, <1>2, TreeSame, NothingNew
<1>5. FsOk'
  BY <1>1, <1>2, <1>3 DEF FsOk, Current
<1> QED
  BY <1>0, <1>2, <1>4, <1>5, ReadRound

(* The next directory is marked, and the mark of the one read goes.        *)
LEMMA FsNextDir ==
  ASSUME IInv, sorted, NextDir, UNCHANGED output
  PROVE  FsOk' /\ RoundOk' /\ OrderOk'
<1>0. /\ in # <<>> /\ pc = "read" /\ Current.step = "read"
  BY DEF NextDir
<1>1. /\ InputOk /\ TreeOk(tree) /\ FsOk /\ MarksOk(tree) /\ tree.reading = {} /\ Len(in) = 1
      /\ Current.dir \in Paths /\ Current.kind = "fs" /\ count \in Nat
  BY <1>0, FsStart
<1> DEFINE d == Current.dir
           e == in'[1].dir
           P == Pends(Current)
           Q == Pends(in'[1])
<1>2. /\ tree' = Unset(Set(Get(tree, d), "changed", <<>>), "sorting", d)
      /\ Len(in') = Len(in) /\ in'[1].kind = Current.kind
      /\ \/ /\ in'[1].step = "notread" /\ e \in P /\ Q \subseteq P \ {e}
            /\ Prefixes(e) \subseteq Prefixes(d) \cup {e}
         \/ in'[1].step = "read" /\ Q \subseteq P /\ e \in Prefixes(d)
      /\ pc' = "read" /\ count' = count
  BY <1>1, NextDirDoes
<1>3. P \subseteq tree.sorting /\ P \cap Prefixes(d) = {}
  BY <1>0, <1>1 DEF FsOk
<1>4. d \in Prefixes(d) /\ d \in Paths
  BY <1>1, PrefixesAre
<1>5. /\ Grown(tree, tree') /\ tree'.filled = tree.filled /\ tree'.sorting = tree.sorting \ {d}
      /\ <<>> \in tree'.changed /\ MarksOk(tree')
  BY <1>1, <1>2, DirUnmarked
<1>6. ASSUME NEW f \in Prefixes(d) PROVE Prefixes(f) \subseteq Prefixes(d)
  <2>1. f \in Paths /\ IsPrefix(f, d)
    BY <1>4, PrefixesAre
  <2>2. ASSUME NEW g \in Prefixes(f) PROVE g \in Prefixes(d)
    <3>1. g \in Paths /\ IsPrefix(g, f)
      BY <2>1, PrefixesAre
    <3> QED
      BY <1>4, <2>1, <3>1, PrefixTrans, PrefixesAre
  <2> QED
    BY <2>2
<1> HIDE DEF d, e, P, Q
<1>7. P \subseteq tree'.sorting
  BY <1>3, <1>4, <1>5
<1>8. Q \subseteq tree'.sorting /\ Q \cap Prefixes(e) = {}
  <2>1. CASE in'[1].step = "notread" /\ e \in P /\ Q \subseteq P \ {e}
             /\ Prefixes(e) \subseteq Prefixes(d) \cup {e}
    BY <1>3, <1>7, <2>1
  <2>2. CASE in'[1].step = "read" /\ Q \subseteq P /\ e \in Prefixes(d)
    BY <1>3, <1>6, <1>7, <2>2
  <2> QED
    BY <1>2, <2>1, <2>2
<1>9. in'[1].step = "read" \/ (in'[1].step = "notread" /\ e \in tree'.sorting)
  BY <1>2, <1>7
<1>10. NewIsLater
  BY <1>5, NothingNew
<1>11. tree'.reading = {}
  BY <1>1, <1>5 DEF Grown
<1>12. FsOk'
  BY <1>1, <1>2, <1>5, <1>8, <1>9, <1>11 DEF FsOk, Current, d, e, P, Q
<1> QED
  BY <1>0, <1>2, <1>10, <1>12, ReadRound

(* The end of the file system.                                             *)
LEMMA FsEndSource ==
  ASSUME IInv, sorted, EndSource, UNCHANGED output
  PROVE  FsOk' /\ RoundOk' /\ OrderOk'
<1>0. /\ in # <<>> /\ pc = "read" /\ Current.step = "read"
  BY DEF EndSource
<1>1. /\ InputOk /\ TreeOk(tree) /\ FsOk /\ MarksOk(tree) /\ tree.reading = {} /\ Len(in) = 1
  BY <1>0, FsStart
<1>2. /\ tree' = tree /\ count' = 0
      /\ \/ count > 0 /\ pc' = "write" /\ in' = in
         \/ in' = Tail(in) /\ pc' = IF Len(in) = 1 THEN "last" ELSE "read"
  BY <1>1, EndSourceDoes
<1>3. /\ Pends(Current) \subseteq tree.sorting
      /\ Pends(Current) \cap Prefixes(Current.dir) = {}
      /\ Current.kind = "fs"
      /\ count > 0 => <<>> \in tree.changed
  BY <1>0, <1>1 DEF FsOk
<1>4. NewIsLater
  BY <1>1, <1>2, TreeSame, NothingNew
<1>5. Tail(in) = <<>> /\ Len(Tail(in)) = 0
  <2>1. SourcesOk(Tail(in)) /\ Len(Tail(in)) = Len(in) - 1
    BY <1>0, <1>1, SourcesLeft
  <2>2. Tail(in) \in Seq(Opens) /\ Len(Tail(in)) = 0
    BY <1>1, <2>1 DEF SourcesOk
  <2> QED
    BY <2>2, EmptySeq
<1>6. FsOk'
  BY <1>0, <1>1, <1>2, <1>3, <1>5 DEF FsOk, Current
<1>7. pc' \in {"read", "last", "write"} /\ (pc' = "write" => <<>> \in tree'.changed)
  BY <1>1, <1>2, <1>3
<1> QED
  BY <1>0, <1>4, <1>6, <1>7, ReadRound

(* Every step of the reading of a sorted file system.                      *)
LEMMA FsRead ==
  ASSUME IInv, sorted, Read, UNCHANGED output
  PROVE  FsOk' /\ RoundOk' /\ OrderOk'
<1>1. ASSUME ReadLines \/ NextList \/ Enough PROVE FALSE
  <2>1. pc = "read" /\ in # <<>> /\ Current.kind # "fs"
    BY <1>1 DEF ReadLines, NextList, Enough, Is
  <2> QED
    BY <2>1, FsStart
<1> QED
  BY <1>1, FsReadBase, FsOpenDir, FsReadEntry, FsPauseDir, FsEndDir, FsNextDir, FsEndSource
  DEF Read

-----------------------------------------------------------------------------
(* Writing what was read of a sorted file system.                          *)

(* The output leaves the source as it is.                                  *)
LEMMA FsWrites ==
  ASSUME IInv, sorted, pc # "read", pc' # "read", UNCHANGED <<in, count>>,
         tree' = tree \/ tree' = Get(tree, cpath)
  PROVE  FsOk'
<1>1. FsOk /\ TreeOk(tree) /\ cpath \in Paths /\ count \in Nat
  BY DEF IInv, InputOk, OutputOk
<1>2. /\ tree'.filled = tree.filled /\ tree'.changed = tree.changed
      /\ tree'.sorting = tree.sorting /\ tree'.reading = tree.reading
  <2>1. tree' = Get(tree, cpath) => Grown(tree, tree')
    BY <1>1, GetGrows
  <2> QED
    BY <1>1, <2>1, GetOk DEF Grown
<1>3. Current' = Current /\ Pends(Current)' = Pends(Current)
  BY DEF Current
<1>4. MarksOk(tree') /\ tree'.reading = {}
  BY <1>1, <1>2 DEF FsOk, MarksOk
<1>5. count = 0 /\ ~(count' > 0)
  BY <1>1 DEF FsOk
<1>6. in # <<>> =>
       /\ Current.kind = "fs"
       /\ Pends(Current) \subseteq tree.sorting
       /\ Pends(Current) \cap Prefixes(Current.dir) = {}
       /\ Current.step = "read" \/ (Current.step = "notread" /\ Current.dir \in tree.sorting)
  BY <1>1 DEF FsOk
<1>7. Len(in) <= 1
  BY <1>1 DEF FsOk
<1> QED
  BY <1>2, <1>3, <1>4, <1>5, <1>6, <1>7 DEF FsOk

(* The nodes above a marked one are changed.                               *)
LEMMA MarkedPrefixes ==
  ASSUME TreeOk(tree), MarksOk(tree), NEW q \in tree.filled \cup tree.sorting
  PROVE  q \in Paths /\ Prefixes(q) \subseteq tree.changed \cup {<<>>}
<1>1. q \in Paths /\ q \in tree.changed \cup {<<>>}
  BY DEF TreeOk, Trees, MarksOk
<1> QED
  BY <1>1, RootPrefixes DEF MarksOk

(* What is not behind the place reached is not before the entry that comes. *)
LEMMA NothingBetween ==
  ASSUME TreeOk(tree), cpath \in Paths, after \in Nat, Following # {},
         NEW q \in Paths, Prefixes(q) \subseteq tree.changed \cup {<<>>}, ~Before(q, Pos)
  PROVE  q = Entry \/ Before(Entry, q)
<1>1. /\ Entry \in Paths /\ IsPrefix(cpath, Entry)
      /\ \A r \in Following : r = Entry \/ Before(Entry, r)
  BY EntryIs
<1>2. ASSUME Before(q, Entry) PROVE FALSE
  <2>1. PICK x \in Nat \ {0} : x > after /\ IsPrefix(Append(cpath, x), q)
    BY <1>1, <1>2, Between DEF Pos
  <2>2. /\ Append(cpath, x) \in Paths /\ Append(cpath, x) # <<>>
        /\ Parent(Append(cpath, x)) = cpath /\ Last(Append(cpath, x)) = x
    BY AppendIs
  <2> DEFINE r == Append(cpath, x)
  <2>3. r \in Paths /\ r # <<>> /\ Parent(r) = cpath /\ Last(r) > after /\ IsPrefix(r, q)
    BY <2>1, <2>2
  <2> HIDE DEF r
  <2>4. r \in tree.changed
    BY <2>3, PrefixesAre
  <2>5. r \in Following
    BY <2>3, <2>4 DEF Following
  <2>6. (r = Entry \/ Before(Entry, r)) /\ (r = q \/ Before(r, q))
    BY <1>1, <2>3, <2>5, PrefixBefore
  <2>7. q = Entry \/ Before(Entry, q)
    BY <1>1, <2>3, <2>6, Transitive
  <2> QED
    BY <1>1, <1>2, <2>7, Transitive, Irreflexive
<1> QED
  BY <1>1, <1>2, Comparable

(* At the end of a directory everything below it is behind.                *)
LEMMA NothingLeft ==
  ASSUME cpath \in Paths, after \in Nat, Following = {},
         NEW q \in Paths, Prefixes(q) \subseteq tree.changed \cup {<<>>}, IsPrefix(cpath, q)
  PROVE  Before(q, Pos)
<1> SUFFICES ASSUME ~Before(q, Pos) PROVE FALSE
  OBVIOUS
<1>1. PICK x \in Nat \ {0} : x > after /\ IsPrefix(Append(cpath, x), q)
  BY BelowAfter DEF Pos
<1>2. /\ Append(cpath, x) \in Paths /\ Append(cpath, x) # <<>>
      /\ Parent(Append(cpath, x)) = cpath /\ Last(Append(cpath, x)) = x
  BY AppendIs
<1> DEFINE r == Append(cpath, x)
<1>3. r \in Paths /\ r # <<>> /\ Parent(r) = cpath /\ Last(r) > after /\ IsPrefix(r, q)
  BY <1>1, <1>2
<1> HIDE DEF r
<1>4. r \in tree.changed
  BY <1>3, PrefixesAre
<1> QED
  BY <1>3, <1>4 DEF Following

(* Above an entry are its directory and those above it.                    *)
LEMMA PrefixesOfAppend ==
  ASSUME NEW c \in Paths, NEW n \in Names
  PROVE  Prefixes(Append(c, n)) \subseteq Prefixes(c) \cup {Append(c, n)}
<1> DEFINE e == Append(c, n)
<1>1. e \in Paths /\ Len(e) = Len(c) + 1 /\ IsPrefix(c, e)
  BY AppendIs DEF Names
<1> HIDE DEF e
<1>2. ASSUME NEW r \in Prefixes(e), r # e PROVE r \in Prefixes(c)
  <2>1. r \in Paths /\ IsPrefix(r, e)
    BY <1>1, PrefixesAre
  <2>2. Len(r) <= Len(e) /\ Len(r) # Len(e) /\ Len(r) \in Nat /\ Len(c) \in Nat /\ Len(e) \in Nat
    BY <1>1, <1>2, <2>1, PrefixLen, AtIs
  <2>3. Len(r) <= Len(c)
    BY ONLY <1>1, <2>2
  <2>4. IsPrefix(r, c) \/ IsPrefix(c, r)
    BY <1>1, <2>1, PrefixesCompare
  <2>5. ASSUME IsPrefix(c, r) PROVE r = c
    <3>1. Len(c) <= Len(r) /\ (Len(c) = Len(r) => c = r)
      BY <2>1, <2>5, PrefixLen
    <3>2. Len(c) = Len(r)
      BY ONLY <2>2, <2>3, <3>1
    <3> QED
      BY <3>1, <3>2
  <2> QED
    BY <2>1, <2>4, <2>5, PrefixesAre
<1> QED
  BY <1>2 DEF e

(* The state in the middle of writing a round of a sorted file system.      *)
LEMMA RoundStart ==
  ASSUME IInv, sorted, pc = "visit", number # 0
  PROVE  /\ TreeOk(tree) /\ MarksOk(tree) /\ tree.reading = {}
         /\ OutputOk /\ OrderOk /\ number = 1
         /\ cpath \in Paths /\ after \in Nat /\ log \in Seq(Written1) /\ Ordered(log)
         /\ \A q \in Filled : /\ q \in Paths \ {<<>>} /\ q \in tree.node
                              /\ Prefixes(q) \subseteq tree.changed \cup {<<>>}
                              /\ Before(q, Pos) => q \in Reached(tree)
                              /\ Before(q, Pos) \/ Later(q)
         /\ Prefixes(cpath) \subseteq tree.changed \ tree.sorting
         /\ \A S \in tree.sorting : /\ S \in Paths /\ S \in tree.node
                                    /\ Prefixes(S) \subseteq tree.changed \cup {<<>>}
                                    /\ ~Before(S, Pos) /\ NotPast(S)
<1>1. InputOk /\ OutputOk /\ OrderOk /\ FsOk /\ RoundOk /\ TreeOk(tree) /\ MarksOk(tree)
  BY DEF IInv, InputOk, FsOk
<1>2. tree.reading = {} /\ number = 1
  BY <1>1 DEF FsOk, OutputOk
<1>3. ASSUME NEW q \in tree.filled \cup tree.sorting
      PROVE  q \in Paths /\ q \in tree.node /\ Prefixes(q) \subseteq tree.changed \cup {<<>>}
  BY <1>1, MarkedPrefixes DEF TreeOk
<1> QED
  BY <1>1, <1>2, <1>3 DEF RoundOk, OrderOk, OutputOk, Filled

(* The entry that comes is reached, and what is marked comes with it or     *)
(* after it.                                                               *)
LEMMA EntryReached ==
  ASSUME IInv, sorted, pc = "visit", number # 0, Following # {}
  PROVE  /\ Entry \in Paths \ {<<>>} /\ Entry \in Reached(tree)
         /\ Prefixes(Entry) \subseteq (tree.changed \ tree.sorting) \cup {Entry}
         /\ \A S \in tree.sorting : S = Entry \/ Before(Entry, S)
         /\ \A q \in Filled : ~Before(q, Pos) => q = Entry \/ Before(Entry, q)
<1>1. /\ TreeOk(tree) /\ cpath \in Paths /\ after \in Nat
      /\ Prefixes(cpath) \subseteq tree.changed \ tree.sorting
  BY RoundStart
<1>2. /\ Entry \in Paths \ {<<>>} /\ Entry \in tree.changed /\ Last(Entry) \in Names
      /\ Entry = Append(cpath, Last(Entry))
  BY <1>1, EntryIs
<1>3. Prefixes(Entry) \subseteq Prefixes(cpath) \cup {Entry}
  BY <1>1, <1>2, PrefixesOfAppend
<1>4. Entry \in Reached(tree)
  <2>1. Entry \in tree.node
    BY <1>1, <1>2 DEF TreeOk
  <2> QED
    BY <1>1, <1>2, <1>3, <2>1 DEF Reached, Above
<1>5. ASSUME NEW S \in tree.sorting PROVE S = Entry \/ Before(Entry, S)
  <2>1. S \in Paths /\ Prefixes(S) \subseteq tree.changed \cup {<<>>} /\ ~Before(S, Pos)
    BY RoundStart
  <2> QED
    BY <1>1, <2>1, NothingBetween
<1>6. ASSUME NEW q \in Filled, ~Before(q, Pos) PROVE q = Entry \/ Before(Entry, q)
  <2>1. q \in Paths /\ Prefixes(q) \subseteq tree.changed \cup {<<>>}
    BY RoundStart
  <2> QED
    BY <1>1, <1>6, <2>1, NothingBetween
<1> QED
  BY <1>1, <1>2, <1>3, <1>4, <1>5, <1>6

(* Nothing is asked of the last call, which writes all that is left.        *)
LEMMA LastRound ==
  ASSUME number' = 0, pc' \in {"free", "visit"}
  PROVE  RoundOk'
BY DEF RoundOk, Reading

(* The beginning of a round: nothing complete is behind, nothing           *)
(* unfinished passed.                                                      *)
LEMMA FsStartWrite ==
  ASSUME IInv, sorted, StartWrite, number # 0
  PROVE  RoundOk'
<1>1. /\ cpath' = cpath /\ after' = 0 /\ tree' = Get(tree, cpath)
      /\ pc = "write" /\ pc' \in {"free", "visit"}
      /\ pc' = "visit" => /\ HasSub(tree, cpath) /\ cpath \in tree.changed \ tree.sorting
      /\ pc' = "free" /\ fdstack # <<>> =>
              ~HasSub(tree, cpath) \/ cpath \notin tree.changed \ tree.sorting
      /\ number' = number /\ log' = log
  BY StartWriteDoes
<1>2. /\ InputOk /\ OutputOk /\ TreeOk(tree) /\ MarksOk(tree) /\ OrderOk /\ RoundOk
      /\ number = 1 /\ cpath \in Paths
  BY DEF IInv, InputOk, OutputOk, FsOk
<1>3. /\ tree'.filled = tree.filled /\ tree'.changed = tree.changed
      /\ tree'.sorting = tree.sorting /\ tree.node \subseteq tree'.node
  BY <1>1, <1>2, GetOk
<1>4. /\ \A S \in tree.sorting : S \in Paths /\ Ahead(S) /\ NotPast(S)
      /\ \A q \in Filled : q \in Paths /\ Before(cpath, q) /\ Later(q)
      /\ cpath # <<>> => cpath \in tree.changed /\ HasSub(tree, cpath)
      /\ <<>> \in tree.changed
  BY <1>1, <1>2, MarkedPrefixes DEF RoundOk, OrderOk, Reading, Filled
<1>5. Filled' = Filled
  BY <1>3 DEF Filled
<1>6. ASSUME NEW S PROVE (Ahead(S)' <=> Ahead(S)) /\ (NotPast(S)' <=> NotPast(S)) /\ (Later(S)' <=> Later(S))
  BY <1>1 DEF Ahead, NotPast, Later
<1>7. CASE pc' = "free"
  <2>1. ASSUME cpath # <<>> PROVE FALSE
    <3>1. cpath \in tree.sorting
      <4>1. fdstack # <<>>
        BY <1>1, <1>2, <2>1 DEF OutputOk
      <4> QED
        BY <1>1, <1>4, <1>7, <2>1, <4>1
    <3>2. Before(cpath, cpath)
      BY <1>4, <2>1, <3>1 DEF Ahead
    <3> QED
      BY <1>2, <3>2, Irreflexive
  <2>2. \A S \in tree'.sorting : Ahead(S)' /\ NotPast(S)'
    BY <1>3, <1>4, <1>6
  <2>3. \A q \in Filled' : Later(q)' /\ Before(cpath', q)
    BY <1>1, <1>4, <1>5, <1>6
  <2> QED
    BY <1>1, <1>7, <2>1, <2>2, <2>3 DEF RoundOk, Reading
<1>8. CASE pc' = "visit"
  <2>1. Pos' = Append(cpath, 1)
    BY <1>1 DEF Pos
  <2>2. cpath \in tree.changed \ tree.sorting
    BY <1>1, <1>8
  <2>3. ASSUME NEW q \in Filled', Before(q, Pos') PROVE FALSE
    <3>1. q \in Paths /\ Before(cpath, q)
      BY <1>4, <1>5
    <3>2. q = cpath \/ Before(q, cpath)
      BY <1>2, <2>1, <2>3, <3>1, FirstBelow
    <3> QED
      BY <1>2, <3>1, <3>2, Transitive, Irreflexive
  <2>4. ASSUME NEW S \in tree.sorting PROVE S \in Paths /\ S # cpath /\ ~Before(S, cpath)
    <3>1. S \in Paths /\ S # cpath
      BY <1>4, <2>2
    <3>2. Before(cpath, S)
      BY <1>4, <3>1 DEF Ahead
    <3> QED
      BY <1>2, <3>1, <3>2, Transitive, Irreflexive
  <2>5. Prefixes(cpath) \subseteq tree.changed \ tree.sorting
    <3>1. ASSUME NEW r \in Prefixes(cpath) PROVE r \in tree.changed \ tree.sorting
      <4>1. r \in Paths /\ IsPrefix(r, cpath) /\ r \in tree.changed
        BY <1>2, <1>4, <2>2, PrefixesAre DEF MarksOk
      <4>2. r = cpath \/ Before(r, cpath)
        BY <1>2, <4>1, PrefixBefore
      <4> QED
        BY <2>4, <4>1, <4>2
    <3> QED
      BY <3>1
  <2>6. \A S \in tree'.sorting : ~Before(S, Pos') /\ NotPast(S)'
    <3> TAKE S \in tree'.sorting
    <3>1. S \in tree.sorting /\ NotPast(S)'
      BY <1>3, <1>4, <1>6
    <3>2. S \in Paths /\ S # cpath /\ ~Before(S, cpath)
      BY <2>4, <3>1
    <3> QED
      BY <1>2, <2>1, <3>1, <3>2, FirstBelow
  <2> QED
    BY <1>1, <1>3, <1>8, <2>3, <2>5, <2>6 DEF RoundOk, Reading
<1> QED
  BY <1>1, <1>7, <1>8

(* The round ends at the first directory that is marked.                   *)
LEMMA FsStop ==
  ASSUME IInv, sorted, Stop, number # 0
  PROVE  RoundOk'
<1>1. /\ pc = "visit" /\ Following # {} /\ Entry \in tree.sorting /\ pc' = "free"
      /\ tree' = tree /\ number' = number /\ cpath' = cpath
  BY DEF Stop, Unfinished
<1>2. /\ TreeOk(tree) /\ MarksOk(tree) /\ OrderOk /\ cpath \in Paths /\ after \in Nat
      /\ log \in Seq(Written1) /\ Prefixes(cpath) \subseteq tree.changed \ tree.sorting
  BY <1>1, RoundStart
<1>3. LogFrom(log', Entry)
  BY StopKeeps
<1>4. /\ Entry \in Paths \ {<<>>} /\ Entry \in Reached(tree)
      /\ \A S \in tree.sorting : S = Entry \/ Before(Entry, S)
      /\ \A q \in Filled : ~Before(q, Pos) => q = Entry \/ Before(Entry, q)
  BY <1>1, EntryReached
<1>5. /\ Last(Entry) \in Names /\ Entry = Append(cpath, Last(Entry))
      /\ \A q \in Paths : Before(q, Pos) => Before(q, Entry)
  BY <1>1, <1>2, EntryIs
<1>6. Before(cpath, Entry) /\ IsPrefix(cpath, Entry) /\ cpath # Entry
  <2>1. Before(cpath, Append(cpath, Last(Entry))) /\ IsPrefix(cpath, Append(cpath, Last(Entry)))
    BY <1>2, <1>5, AppendIs DEF Names
  <2>2. Before(cpath, Entry) /\ IsPrefix(cpath, Entry)
    BY <1>5, <2>1
  <2> QED
    BY <1>2, <2>2, Irreflexive
<1>7. ASSUME NEW S \in tree.sorting PROVE Ahead(S)' /\ NotPast(S)'
  <2>1. S \in Paths /\ NotPast(S) /\ (Entry = S \/ Before(Entry, S))
    BY <1>1, <1>4, RoundStart
  <2>2. Before(cpath, S)
    BY <1>2, <1>4, <1>6, <2>1, Transitive
  <2>3. NotPast(S)'
    BY <1>3, <2>1, NotPastStays
  <2> QED
    BY <1>1, <2>2, <2>3 DEF Ahead
<1>8. Stops(tree) # {} /\ Least(Stops(tree)) = Entry
  <2>1. Entry \in Stops(tree)
    BY <1>1, <1>4 DEF Stops
  <2>2. IsFiniteSet(Stops(tree)) /\ Stops(tree) \in SUBSET Paths
    BY <1>2, ReachedIs
  <2>3. /\ Least(Stops(tree)) \in Stops(tree)
        /\ \A q \in Stops(tree) \ {Least(Stops(tree))} : Before(Least(Stops(tree)), q)
    BY <2>1, <2>2, LeastIs
  <2> DEFINE l == Least(Stops(tree))
  <2>4. l \in Paths /\ l \in tree.sorting /\ (l = Entry \/ Before(l, Entry))
    BY <2>1, <2>2, <2>3 DEF Stops
  <2> HIDE DEF l
  <2>5. l = Entry \/ Before(Entry, l)
    BY <1>4, <2>4
  <2>6. l = Entry
    BY <1>4, <2>4, <2>5, Transitive, Irreflexive
  <2> QED
    BY <2>1, <2>6 DEF l
<1>9. ASSUME NEW q \in Filled
      PROVE  q \in Visited(tree) \/ (Later(q)' /\ Before(cpath, q))
  <2>1. q \in Paths \ {<<>>} /\ (Before(q, Pos) => q \in Reached(tree)) /\ (Before(q, Pos) \/ Later(q))
    BY <1>1, RoundStart
  <2>2. ASSUME q \in Reached(tree), ~Before(Entry, q) PROVE q \in Visited(tree)
    BY <1>8, <2>2 DEF Visited
  <2>3. CASE Before(q, Pos)
    <3>1. q \in Reached(tree) /\ Before(q, Entry)
      BY <1>5, <2>1, <2>3
    <3>2. ~Before(Entry, q)
      BY <1>4, <2>1, <3>1, Transitive, Irreflexive
    <3> QED
      BY <2>2, <3>1, <3>2
  <2>4. CASE q = Entry
    <3>1. ~Before(Entry, q)
      BY <1>4, <2>4, Irreflexive
    <3> QED
      BY <1>4, <2>2, <2>4, <3>1
  <2>5. CASE ~Before(q, Pos) /\ Before(Entry, q)
    <3>1. Later(q)
      BY <2>1, <2>5
    <3>2. Later(q)'
      BY <1>3, <2>5, <3>1, LaterStays
    <3>3. Before(cpath, q)
      BY <1>2, <1>4, <1>6, <2>1, <2>5, Transitive
    <3> QED
      BY <3>2, <3>3
  <2> QED
    BY <1>4, <2>3, <2>4, <2>5
<1>10. cpath \in tree.changed /\ \E S \in tree.sorting : IsStrictPrefix(cpath, S)
  <2>1. cpath \in tree.changed
    BY <1>2, PrefixesAre
  <2> QED
    BY <1>1, <1>6, <2>1 DEF IsStrictPrefix
<1>11. Filled' = Filled
  BY <1>1 DEF Filled
<1> QED
  BY <1>1, <1>7, <1>9, <1>10, <1>11 DEF RoundOk, Reading

(* Behind an entry that was passed or entered.                             *)
LEMMA MarkedAhead ==
  ASSUME IInv, sorted, pc = "visit", number # 0, Following # {}, Entry \notin tree.sorting,
         LogFrom(log', Entry), NEW S \in tree.sorting
  PROVE  S \in Paths /\ Before(Entry, S) /\ ~Before(S, Entry) /\ S # Entry /\ NotPast(S)'
<1>1. /\ Entry \in Paths /\ (S = Entry \/ Before(Entry, S))
  BY EntryReached
<1>2. S \in Paths /\ NotPast(S)
  BY RoundStart
<1>3. Before(Entry, S)
  BY <1>1
<1> QED
  BY <1>1, <1>2, <1>3, Transitive, Irreflexive, NotPastStays

(* An entry that is passed is complete.                                    *)
LEMMA FsPass ==
  ASSUME IInv, sorted, Pass, number # 0
  PROVE  RoundOk'
<1>1. /\ pc = "visit" /\ Following # {} /\ Entry \notin tree.sorting /\ ~HasSub(tree, Entry)
      /\ pc' = "visit" /\ tree' = tree /\ number' = number /\ cpath' = cpath /\ after' = Last(Entry)
  <2>1. number = 1
    BY DEF IInv, OutputOk, Pass
  <2> QED
    BY <2>1 DEF Pass, Unfinished
<1>2. /\ TreeOk(tree) /\ cpath \in Paths /\ after \in Nat
      /\ Prefixes(cpath) \subseteq tree.changed \ tree.sorting
  BY <1>1, RoundStart
<1>3. LogFrom(log', Entry)
  BY PassKeeps
<1>4. /\ Entry \in Paths /\ Entry \in Reached(tree)
      /\ \A q \in Filled : ~Before(q, Pos) => q = Entry \/ Before(Entry, q)
  BY <1>1, EntryReached
<1>5. Last(Entry) \in Nat \ {0} /\ Entry = Append(cpath, Last(Entry))
  BY <1>1, <1>2, EntryIs DEF Names
<1>6. ASSUME NEW q \in Paths, q \in tree.node, Before(q, Pos')
      PROVE  Before(q, Entry) \/ q = Entry
  <2>1. Pos' = Append(cpath, Last(Entry) + 1)
    BY <1>1 DEF Pos
  <2>2. Before(q, Entry) \/ IsPrefix(Entry, q)
    BY <1>2, <1>5, <1>6, <2>1, NextAfter
  <2>3. ASSUME IsPrefix(Entry, q) PROVE q = Entry
    BY <1>1, <1>6, <2>3 DEF HasSub, IsStrictPrefix
  <2> QED
    BY <2>2, <2>3
<1>7. ASSUME NEW q \in Filled, Before(q, Pos') PROVE q \in Reached(tree)
  <2>1. q \in Paths /\ q \in tree.node /\ (Before(q, Pos) => q \in Reached(tree))
    BY <1>1, RoundStart
  <2>2. Before(q, Entry) \/ q = Entry
    BY <1>6, <1>7, <2>1
  <2>3. ~Before(q, Pos) => q = Entry
    BY <1>4, <2>1, <2>2, Transitive, Irreflexive
  <2> QED
    BY <1>4, <2>1, <2>3
<1>8. ASSUME NEW S \in tree.sorting PROVE ~Before(S, Pos') /\ NotPast(S)'
  <2>1. S \in Paths /\ ~Before(S, Entry) /\ S # Entry /\ NotPast(S)'
    BY <1>1, <1>3, MarkedAhead
  <2>2. S \in tree.node
    BY <1>1, RoundStart
  <2> QED
    BY <1>6, <2>1, <2>2
<1>9. Filled' = Filled
  BY <1>1 DEF Filled
<1> QED
  BY <1>1, <1>2, <1>7, <1>8, <1>9 DEF RoundOk, Reading

(* So is one that is entered.                                              *)
LEMMA FsEnter ==
  ASSUME IInv, sorted, Enter, number # 0
  PROVE  RoundOk'
<1>1. /\ pc = "visit" /\ Following # {} /\ Entry \notin tree.sorting
      /\ pc' = "visit" /\ tree' = tree /\ number' = number /\ cpath' = Entry /\ after' = 0
  <2>1. number = 1
    BY DEF IInv, OutputOk, Enter
  <2> QED
    BY <2>1 DEF Enter, Unfinished
<1>2. LogFrom(log', Entry)
  BY EnterKeeps
<1>3. /\ Entry \in Paths /\ Entry \in Reached(tree)
      /\ Prefixes(Entry) \subseteq (tree.changed \ tree.sorting) \cup {Entry}
      /\ \A q \in Filled : ~Before(q, Pos) => q = Entry \/ Before(Entry, q)
  BY <1>1, EntryReached
<1>4. Pos' = Append(Entry, 1)
  BY <1>1 DEF Pos
<1>5. ASSUME NEW q \in Filled, Before(q, Pos') PROVE q \in Reached(tree)
  <2>1. q \in Paths /\ (Before(q, Pos) => q \in Reached(tree))
    BY <1>1, RoundStart
  <2>2. q = Entry \/ Before(q, Entry)
    BY <1>3, <1>4, <1>5, <2>1, FirstBelow
  <2>3. ~Before(q, Pos) => q = Entry
    BY <1>3, <2>1, <2>2, Transitive, Irreflexive
  <2> QED
    BY <1>3, <2>1, <2>3
<1>6. ASSUME NEW S \in tree.sorting PROVE ~Before(S, Pos') /\ NotPast(S)'
  <2>1. S \in Paths /\ ~Before(S, Entry) /\ S # Entry /\ NotPast(S)'
    BY <1>1, <1>2, MarkedAhead
  <2> QED
    BY <1>3, <1>4, <2>1, FirstBelow
<1>7. Prefixes(Entry) \subseteq tree.changed \ tree.sorting
  BY <1>1, <1>3 DEF Reached
<1>8. Filled' = Filled
  BY <1>1 DEF Filled
<1> QED
  BY <1>1, <1>5, <1>6, <1>7, <1>8 DEF RoundOk, Reading

(* A directory is left when all it holds is behind; the root only when     *)
(* nothing is marked.                                                      *)
LEMMA FsLeave ==
  ASSUME IInv, sorted, Leave, number # 0
  PROVE  RoundOk'
<1>1. /\ pc = "visit" /\ Following = {} /\ tree' = tree /\ number' = number /\ log' = log
      /\ \/ cpath = <<>> /\ cpath' = <<>> /\ pc' = "free"
         \/ cpath # <<>> /\ cpath' = Parent(cpath) /\ pc' = "visit" /\ after' = Last(cpath)
  BY LeaveDoes
<1>2. /\ TreeOk(tree) /\ cpath \in Paths /\ after \in Nat
      /\ Prefixes(cpath) \subseteq tree.changed \ tree.sorting
  BY <1>1, RoundStart
<1>3. ASSUME NEW q \in Filled, IsPrefix(cpath, q) PROVE q \in Reached(tree)
  <2>1. /\ q \in Paths /\ Prefixes(q) \subseteq tree.changed \cup {<<>>}
        /\ Before(q, Pos) => q \in Reached(tree)
    BY <1>1, RoundStart
  <2> QED
    BY <1>1, <1>2, <1>3, <2>1, NothingLeft
<1>4. ASSUME NEW S \in tree.sorting
      PROVE  S \in Paths /\ ~IsPrefix(cpath, S) /\ ~Before(S, Pos) /\ NotPast(S)'
  <2>1. /\ S \in Paths /\ Prefixes(S) \subseteq tree.changed \cup {<<>>}
        /\ ~Before(S, Pos) /\ NotPast(S)
    BY <1>1, RoundStart
  <2>2. ~IsPrefix(cpath, S)
    BY <1>1, <1>2, <2>1, NothingLeft
  <2> QED
    BY <1>1, <2>1, <2>2 DEF NotPast
<1>5. Filled' = Filled
  BY <1>1 DEF Filled
<1>6. CASE cpath = <<>> /\ cpath' = <<>> /\ pc' = "free"
  <2>1. tree.sorting = {}
    BY <1>4, <1>6, EmptyPrefix
  <2>2. ASSUME NEW q \in Filled PROVE q \in Visited(tree)
    <3>1. q \in Paths
      BY <1>1, RoundStart
    <3>2. q \in Reached(tree) /\ Stops(tree) = {}
      BY <1>3, <1>6, <2>1, <3>1, EmptyPrefix DEF Stops
    <3> QED
      BY <3>2 DEF Visited
  <2> QED
    BY <1>1, <1>5, <1>6, <2>1, <2>2 DEF RoundOk, Reading
<1>7. CASE cpath # <<>> /\ cpath' = Parent(cpath) /\ pc' = "visit" /\ after' = Last(cpath)
  <2>1. /\ Parent(cpath) \in Paths /\ Last(cpath) \in Nat \ {0}
        /\ cpath = Append(Parent(cpath), Last(cpath))
    BY <1>2, <1>7, ParentIs
  <2>2. Pos' = Append(Parent(cpath), Last(cpath) + 1)
    BY <1>7 DEF Pos
  <2>3. ASSUME NEW q \in Paths, Before(q, Pos') PROVE Before(q, cpath) \/ IsPrefix(cpath, q)
    BY <2>1, <2>2, <2>3, NextAfter
  <2>4. Before(cpath, Pos) /\ Pos \in Paths
    <3>1. after + 1 \in Nat \ {0}
      BY <1>2
    <3> QED
      BY <1>2, <3>1, AppendIs DEF Pos
  <2>5. ASSUME NEW q \in Filled, Before(q, Pos') PROVE q \in Reached(tree)
    <3>1. q \in Paths /\ (Before(q, Pos) => q \in Reached(tree))
      BY <1>1, RoundStart
    <3>2. Before(q, cpath) => Before(q, Pos)
      BY <1>2, <2>4, <3>1, Transitive
    <3> QED
      BY <1>3, <2>3, <2>5, <3>1, <3>2
  <2>6. ASSUME NEW S \in tree.sorting PROVE ~Before(S, Pos') /\ NotPast(S)'
    <3>1. S \in Paths /\ ~IsPrefix(cpath, S) /\ ~Before(S, Pos) /\ NotPast(S)'
      BY <1>4
    <3>2. Before(S, cpath) => Before(S, Pos)
      BY <1>2, <2>4, <3>1, Transitive
    <3> QED
      BY <2>3, <3>1, <3>2
  <2>7. Prefixes(Parent(cpath)) \subseteq Prefixes(cpath)
    <3>1. IsPrefix(Parent(cpath), cpath)
      <4>1. IsPrefix(Parent(cpath), Append(Parent(cpath), Last(cpath)))
        BY <2>1, AppendIs
      <4> QED
        BY <2>1, <4>1
    <3>2. ASSUME NEW r \in Prefixes(Parent(cpath)) PROVE r \in Prefixes(cpath)
      <4>1. r \in Paths /\ IsPrefix(r, Parent(cpath))
        BY <2>1, PrefixesAre
      <4> QED
        BY <1>2, <2>1, <3>1, <4>1, PrefixTrans, PrefixesAre
    <3> QED
      BY <3>2
  <2> QED
    BY <1>1, <1>2, <1>5, <1>7, <2>5, <2>6, <2>7 DEF RoundOk, Reading
<1> QED
  BY <1>1, <1>6, <1>7

(* Every step of the output of a sorted file system.                       *)
LEMMA FsWrite ==
  ASSUME IInv, sorted, Write, UNCHANGED <<in, count>>
  PROVE  FsOk' /\ RoundOk'
<1>1. /\ pc # "read" /\ pc' \in {"free", "visit"} /\ number' = number
      /\ tree' = tree \/ tree' = Get(tree, cpath)
  <2>1. CASE StartWrite
    BY <2>1, StartWriteDoes
  <2>2. CASE Leave
    BY <2>2, LeaveDoes
  <2> QED
    BY <2>1, <2>2 DEF Write, Postpone, Stop, Pass, Enter, Wait
<1>2. FsOk'
  BY <1>1, FsWrites
<1>3. CASE number = 0
  BY <1>1, <1>2, <1>3, LastRound
<1>4. CASE number # 0
  <2>1. ~Postpone
    BY DEF Postpone
  <2>2. ~Wait
    BY DEF Wait, IInv, FsOk
  <2> QED
    BY <1>2, <1>4, <2>1, <2>2, FsStartWrite, FsStop, FsPass, FsEnter, FsLeave DEF Write
<1> QED
  BY <1>2, <1>3, <1>4

-----------------------------------------------------------------------------
(* Every step.                                                             *)

(* The output leaves a tree.                                               *)
LEMMA WriteStays == ASSUME IInv, Write, UNCHANGED <<in, count>> PROVE InputOk' /\ sorted' = sorted
<1>1. InputOk /\ OutputOk /\ TreeOk(tree) /\ cpath \in Paths
  BY DEF IInv, InputOk, OutputOk
<1>2. sorted' = sorted /\ (tree' = tree \/ tree' = Get(tree, cpath))
  <2>1. CASE StartWrite
    BY <2>1, StartWriteDoes
  <2>2. CASE Leave
    BY <2>2, LeaveDoes
  <2> QED
    BY <2>1, <2>2 DEF Write, Postpone, Stop, Pass, Enter, Wait
<1>3. TreeOk(tree')
  BY <1>1, <1>2, GetOk
<1> QED
  BY <1>1, <1>2, <1>3 DEF InputOk

(* From unsorted sources nothing is written before the last call.           *)
LEMMA WriteUnsorted == ASSUME IInv, ~sorted, Write PROVE UnsortedOk'
<1>1. OutputOk /\ UnsortedOk
  BY DEF IInv
<1>2. CASE Postpone
  <2>1. log = <<>> /\ cpath = <<>> /\ log' = log /\ cpath' = cpath /\ pc' = "free"
    BY <1>1, <1>2 DEF Postpone, UnsortedOk, Reading, output
  <2> QED
    BY <2>1 DEF UnsortedOk, Reading
<1>3. CASE ~Postpone
  <2>1. number = 0 /\ number' = number /\ pc' \in {"free", "visit"}
    <3>1. CASE StartWrite
      BY <3>1, StartWriteDoes DEF StartWrite
    <3>2. CASE Leave
      BY <1>1, <3>2, LeaveDoes DEF UnsortedOk
    <3>3. CASE Stop \/ Pass \/ Enter \/ Wait
      BY <1>1, <3>3 DEF UnsortedOk, Stop, Pass, Enter, Wait
    <3> QED
      BY <1>3, <3>1, <3>2, <3>3 DEF Write
  <2> QED
    BY <2>1 DEF UnsortedOk, Reading
<1> QED
  BY <1>2, <1>3

(* The output keeps the invariant.                                         *)
LEMMA EmitStep == ASSUME IInv, Emit PROVE IInv' /\ UNCHANGED <<sources, sorted>>
<1>1. Write /\ UNCHANGED <<in, count>> /\ sources' = sources
  BY DEF Emit
<1>2. InputOk' /\ sorted' = sorted /\ OutputOk' /\ OrderOk'
  BY <1>1, WriteStays, WriteKeeps
<1>3. ~sorted => UnsortedOk'
  BY <1>1, WriteUnsorted
<1>4. sorted => FsOk' /\ RoundOk'
  BY <1>1, FsWrite
<1> QED
  BY <1>1, <1>2, <1>3, <1>4 DEF IInv

(* So does the reading.                                                    *)
LEMMA FetchStep == ASSUME IInv, Fetch PROVE IInv' /\ UNCHANGED <<sources, sorted>>
<1>1. /\ Read /\ number' = (IF pc' = "last" THEN 0 ELSE 1) /\ UNCHANGED output
      /\ sources' = sources /\ pc = "read" /\ InputOk /\ OutputOk /\ OrderOk
  BY DEF Fetch, Read, IInv, Is, ReadBase, OpenDir, ReadEntry, PauseDir, EndDir, NextDir,
         EndSource, ReadLines, NextList, Enough
<1>2. InputStays /\ pc' \in {"read", "last", "write"}
  BY <1>1, ReadDoes
<1>3. InputOk' /\ sorted' = sorted
  BY <1>1, <1>2, InputIsKept DEF InputStays
<1>4. /\ cpath' = cpath /\ after' = after /\ bpath' = bpath /\ fd' = fd
      /\ fdstack' = fdstack /\ log' = log
  BY <1>1 DEF output
<1>5. OutputOk'
  BY <1>1, <1>2, <1>4 DEF OutputOk
<1>6. CASE ~sorted
  <2>1. log = <<>> /\ cpath = <<>>
    BY <1>1, <1>6 DEF IInv, UnsortedOk, Reading
  <2>2. UnsortedOk'
    BY <1>2, <1>4, <2>1 DEF UnsortedOk
  <2>3. \A q : Later(q)'
    BY <1>4, <2>1, Len(<<>>) = 0 DEF Later
  <2>4. OrderOk'
    BY <1>2, <2>3 DEF OrderOk
  <2> QED
    BY <1>1, <1>3, <1>5, <1>6, <2>2, <2>4 DEF IInv
<1>7. CASE sorted
  <2>1. FsOk' /\ RoundOk' /\ OrderOk'
    BY <1>1, <1>7, FsRead
  <2> QED
    BY <1>1, <1>3, <1>5, <1>7, <2>1 DEF IInv
<1> QED
  BY <1>6, <1>7

(* So does the last call.                                                  *)
LEMMA LastStep == ASSUME IInv, LastWrite PROVE IInv' /\ UNCHANGED <<sources, sorted>>
<1>1. /\ pc = "last" /\ pc' = "write" /\ number' = number
      /\ sources' = sources /\ tree' = tree /\ in' = in /\ sorted' = sorted /\ count' = count
      /\ cpath' = cpath /\ after' = after /\ bpath' = bpath /\ fd' = fd
      /\ fdstack' = fdstack /\ log' = log
  BY DEF LastWrite, input, output
<1>2. InputOk /\ OutputOk /\ OrderOk /\ number = 0
  BY <1>1 DEF IInv, OutputOk
<1>3. InputOk'
  BY <1>1, <1>2 DEF InputOk
<1>4. OutputOk'
  BY <1>1, <1>2 DEF OutputOk
<1>5. OrderOk'
  BY <1>1, <1>2 DEF OrderOk, Reading, Filled, Later
<1>6. ~sorted => UnsortedOk'
  BY <1>1 DEF IInv, UnsortedOk, Reading
<1>7. ASSUME sorted PROVE FsOk' /\ RoundOk'
  <2>1. FsOk'
    BY <1>1, <1>7, FsWrites
  <2>2. RoundOk
    BY <1>7 DEF IInv
  <2>3. RoundOk'
    BY <1>1, <1>2, <2>2 DEF RoundOk, Reading, Filled, Ahead, NotPast
  <2> QED
    BY <2>1, <2>3
<1> QED
  BY <1>1, <1>3, <1>4, <1>5, <1>6, <1>7 DEF IInv

(* Freeing marks nothing.                                                  *)
LEMMA FreedReading == ASSUME NEW t, TreeOk(t), t.reading = {} PROVE Freed(t).reading = {}
<1> DEFINE root == [t EXCEPT !.filled = @ \ {<<>>}]
<1>1. t \in Trees
  BY DEF TreeOk
<1>2. root \in Trees /\ root.reading = {}
  BY <1>1 DEF Trees
<1>3. Unset(root, "changed", <<>>).reading = {}
  BY <1>2 DEF Unset, Trees
<1>4. Without([root EXCEPT !.filled = @ \ Visited(t)], Removed(t)).reading = {}
  BY <1>2 DEF Without, Trees
<1> QED
  BY <1>3, <1>4 DEF Freed

(* The freed tree: what is left is after all that was written.              *)
LEMMA FreedRound ==
  ASSUME IInv, sorted, pc = "free", tree' = Freed(tree), pc' \in {"read", "done"},
         pc' = "read" => number = 1, UNCHANGED <<in, count, number, output>>
  PROVE  FsOk' /\ RoundOk' /\ OrderOk'
<1>1. InputOk /\ OutputOk /\ FsOk /\ RoundOk /\ TreeOk(tree) /\ MarksOk(tree) /\ tree.reading = {}
  BY DEF IInv, InputOk, FsOk
<1>2. /\ MarksOk(tree') /\ tree'.sorting = tree.sorting /\ tree'.reading = {}
      /\ \A q \in tree'.filled : q \in tree.filled /\ q \notin Visited(tree) /\ q # <<>>
      /\ \A s \in tree.sorting : \A p \in Paths : IsPrefix(p, s) =>
              /\ p \in tree.node => p \in tree'.node
              /\ p \in tree.changed \cup {<<>>} => p \in tree'.changed \cup {<<>>}
  BY <1>1, FreedMarks, FreedReading
<1>3. cpath' = cpath /\ log' = log /\ number' = number /\ in' = in /\ count' = count
  BY DEF output
<1>4. FsOk'
  <2>1. Current' = Current /\ Pends(Current)' = Pends(Current)
    BY <1>3 DEF Current
  <2>2. in # <<>> =>
          /\ Current.kind = "fs"
          /\ Pends(Current) \subseteq tree.sorting
          /\ Pends(Current) \cap Prefixes(Current.dir) = {}
          /\ Current.step = "read" \/ (Current.step = "notread" /\ Current.dir \in tree.sorting)
    BY <1>1 DEF FsOk
  <2>3. ~(count' > 0) /\ Len(in') <= 1
    BY <1>1, <1>3 DEF FsOk
  <2> QED
    BY <1>2, <1>3, <2>1, <2>2, <2>3 DEF FsOk
<1>5. CASE pc' = "done"
  BY <1>4, <1>5 DEF RoundOk, OrderOk, Reading
<1>6. CASE pc' = "read"
  <2>1. number = 1 /\ cpath \in Paths
    BY <1>1, <1>6 DEF OutputOk
  <2>2. /\ \A S \in tree.sorting : Ahead(S) /\ NotPast(S)
        /\ \A q \in Filled : q \in Visited(tree) \/ (Later(q) /\ Before(cpath, q))
        /\ cpath # <<>> => /\ cpath \in tree.changed
                           /\ \E S \in tree.sorting : IsStrictPrefix(cpath, S)
    BY <1>1, <2>1 DEF RoundOk
  <2>3. \A S \in tree'.sorting : Ahead(S)' /\ NotPast(S)'
    BY <1>2, <1>3, <2>2 DEF Ahead, NotPast
  <2>4. \A q \in Filled' : Later(q)' /\ Before(cpath', q)
    <3> TAKE q \in Filled'
    <3>1. q \in Filled /\ q \notin Visited(tree)
      BY <1>2 DEF Filled
    <3> QED
      BY <1>3, <2>2, <3>1 DEF Later
  <2>5. cpath # <<>> => cpath \in tree'.changed /\ HasSub(tree', cpath)
    <3> SUFFICES ASSUME cpath # <<>> PROVE cpath \in tree'.changed /\ HasSub(tree', cpath)
      OBVIOUS
    <3>1. PICK S \in tree.sorting : IsStrictPrefix(cpath, S)
      BY <2>2
    <3>2. S \in tree.node /\ IsPrefix(cpath, S)
      BY <1>1, <3>1 DEF TreeOk, IsStrictPrefix
    <3>3. S \in Paths
      BY <1>1, MarkedPrefixes
    <3>4. S \in tree'.node
      BY <1>2, <3>2, <3>3, PrefixRefl
    <3>5. cpath \in tree'.changed
      BY <1>2, <2>1, <2>2, <3>2
    <3> QED
      BY <3>1, <3>4, <3>5 DEF HasSub
  <2> QED
    BY <1>3, <1>4, <1>6, <2>3, <2>4, <2>5 DEF RoundOk, OrderOk, Reading
<1> QED
  BY <1>5, <1>6

(* Freeing keeps the invariant.                                            *)
LEMMA FreeStep == ASSUME IInv, Free PROVE IInv' /\ UNCHANGED <<sources, sorted>>
<1>1. /\ pc = "free" /\ pc' = (IF number = 0 THEN "done" ELSE "read") /\ number' = number
      /\ sources' = sources /\ in' = in /\ sorted' = sorted /\ count' = count
      /\ UNCHANGED output
      /\ cpath' = cpath /\ after' = after /\ bpath' = bpath /\ fd' = fd
      /\ fdstack' = fdstack /\ log' = log
      /\ tree' = IF sorted THEN Freed(tree) ELSE tree
  BY DEF Free, output
<1>2. InputOk /\ OutputOk /\ OrderOk /\ TreeOk(tree)
  BY DEF IInv, InputOk
<1>3. InputOk'
  <2>1. TreeOk(tree')
    BY <1>1, <1>2, FreedOk
  <2> QED
    BY <1>1, <1>2, <2>1 DEF InputOk
<1>4. pc' \in {"read", "done"} /\ (pc' = "read" => number = 1)
  BY <1>1, <1>2 DEF OutputOk
<1>5. OutputOk'
  BY <1>1, <1>2, <1>4 DEF OutputOk
<1>6. CASE ~sorted
  <2>1. pc' = "read" => log = <<>> /\ cpath = <<>>
    BY <1>1, <1>4, <1>6 DEF IInv, UnsortedOk
  <2>2. UnsortedOk'
    BY <1>1, <1>4, <2>1 DEF UnsortedOk, Reading
  <2>3. pc' = "read" => \A q : Later(q)'
    BY <1>1, <2>1, Len(<<>>) = 0 DEF Later
  <2>4. OrderOk'
    BY <1>4, <2>3 DEF OrderOk, Reading
  <2> QED
    BY <1>1, <1>3, <1>5, <1>6, <2>2, <2>4 DEF IInv
<1>7. CASE sorted
  <2>1. FsOk' /\ RoundOk' /\ OrderOk'
    BY <1>1, <1>4, <1>7, FreedRound
  <2> QED
    BY <1>1, <1>3, <1>5, <1>7, <2>1 DEF IInv
<1> QED
  BY <1>6, <1>7

(* Every step keeps the invariant, and no step changes what is read and    *)
(* how.                                                                    *)
LEMMA IInvStep ==
  ASSUME IInv, [Next]_vars PROVE IInv' /\ UNCHANGED <<sources, sorted>>
<1>1. ASSUME UNCHANGED vars PROVE IInv' /\ UNCHANGED <<sources, sorted>>
  <2>1. /\ sources' = sources /\ tree' = tree /\ in' = in /\ sorted' = sorted /\ count' = count
        /\ pc' = pc /\ number' = number
        /\ cpath' = cpath /\ after' = after /\ bpath' = bpath /\ fd' = fd
        /\ fdstack' = fdstack /\ log' = log
    BY <1>1 DEF vars, input, output
  <2>2. InputOk' = InputOk /\ OutputOk' = OutputOk /\ OrderOk' = OrderOk
        /\ UnsortedOk' = UnsortedOk /\ FsOk' = FsOk /\ RoundOk' = RoundOk
    BY <2>1 DEF InputOk, OutputOk, OrderOk, UnsortedOk, FsOk, RoundOk, Current, Reading,
                Filled, Later, NotPast, Ahead, Pos
  <2> QED
    BY <2>1, <2>2 DEF IInv
<1> QED
  BY <1>1, EmitStep, FetchStep, LastStep, FreeStep DEF Next, Done

-----------------------------------------------------------------------------
(* The beginning.                                                          *)

(* A source at the beginning.                                              *)
LEMMA SourceOpened ==
  ASSUME NEW cmd \in Commands, NEW i \in DOMAIN cmd
  PROVE  /\ Opened(cmd[i]) \in Opens /\ SourceOk(Opened(cmd[i]))
         /\ Opened(cmd[i]).kind = cmd[i].kind
         /\ Opened(cmd[i]).kind = "fs" => Opened(cmd[i]).step = "init"
         /\ Pends(Opened(cmd[i])) = {}
<1> DEFINE s == cmd[i]
           o == Opened(s)
<1>1. cmd \in Seq(ToSet(cmd)) /\ s \in ToSet(cmd)
  BY CommandsAssumption DEF ToSet
<1>2. /\ s.kind \in {"fs", "list", "lists"}
      /\ s.base \in Paths /\ s.depth \in Nat
      /\ s.lines \in [DOMAIN s.lines -> Seq(Paths \ {<<>>})]
      /\ s.kind # "fs" => s.base = <<>> /\ <<>> \in DOMAIN s.lines
  BY <1>1, CommandsAssumption
<1>3. s.lines \in Listings
  BY <1>1 DEF Listings
<1> HIDE DEF s
<1>4. /\ o.kind = s.kind /\ o.base = s.base /\ o.depth = s.depth /\ o.lines = s.lines
      /\ o.dir = s.base /\ o.pending = (IF s.kind = "list" THEN <<>> ELSE <<{}>>)
      /\ o.step = (CASE s.kind = "fs" -> "init" [] s.kind = "list" -> "open"
                     [] s.kind = "lists" -> "notread")
      /\ o.left = {} /\ o.fd = (IF s.kind = "list" THEN s.lines[<<>>] ELSE <<>>)
  BY DEF Opened
<1>5. o.pending \in Seq(SUBSET Names)
  <2>1. <<>> \in Seq(SUBSET Names)
    OBVIOUS
  <2>2. <<{}>> \in Seq(SUBSET Names)
    OBVIOUS
  <2> QED
    BY <1>4, <2>1, <2>2
<1>6. o.fd \in Seq(Paths \ {<<>>})
  <2>1. <<>> \in Seq(Paths \ {<<>>})
    OBVIOUS
  <2>2. s.kind = "list" => s.lines[<<>>] \in Seq(Paths \ {<<>>})
    BY <1>2
  <2> QED
    BY <1>4, <2>1, <2>2
<1>7. o.step \in {"init", "notread", "open", "read"}
  BY <1>2, <1>4
<1>8. o \in Opens
  <2>1. o = [kind |-> o.kind, base |-> o.base, depth |-> o.depth, lines |-> o.lines,
             dir |-> o.dir, pending |-> o.pending, step |-> o.step,
             left |-> o.left, fd |-> o.fd]
    BY <1>4 DEF Opened
  <2>2. /\ o.kind \in {"fs", "list", "lists"} /\ o.base \in Paths /\ o.depth \in Int
        /\ o.lines \in Listings /\ o.dir \in Paths /\ o.left \in SUBSET Names
    BY <1>2, <1>3, <1>4
  <2> HIDE DEF o
  <2>3. o = [kind |-> o.kind, base |-> o.base, depth |-> o.depth, lines |-> o.lines,
             dir |-> o.dir, pending |-> o.pending, step |-> o.step,
             left |-> o.left, fd |-> o.fd]
        => o \in Opens
    BY <1>5, <1>6, <1>7, <2>2 DEF Opens
  <2> QED
    BY <2>1, <2>3
<1> HIDE DEF o
<1>9. Pends(o) = {}
  <2>1. CASE s.kind = "list"
    BY <1>4, <2>1, NoPends
  <2>2. CASE s.kind # "list"
    <3>1. o.pending = <<{}>>
      BY <1>4, <2>2
    <3>2. Len(o.pending) = 1 /\ o.pending[1] = {}
      BY <3>1
    <3>3. \A k \in 1 .. Len(o.pending) : o.pending[k] = {}
      BY <3>2
    <3> QED
      BY <3>3 DEF Pends, PendsAt
  <2> QED
    BY <2>1, <2>2
<1>10. SourceOk(o)
  <2>1. Len(o.pending) <= Len(o.dir) + 1 /\ (s.kind # "list" => o.pending # <<>>)
    <3>1. Len(o.dir) \in Nat
      BY <1>2, <1>4, AtIs
    <3>2. Len(<<>>) = 0 /\ Len(<<{}>>) = 1 /\ <<{}>> # <<>>
      OBVIOUS
    <3>3. Len(o.pending) \in {0, 1} /\ (s.kind # "list" => o.pending # <<>>)
      BY <1>4, <3>2
    <3>4. \A m \in {0, 1}, n \in Nat : m <= n + 1
      OBVIOUS
    <3> QED
      BY ONLY <3>1, <3>3, <3>4
  <2>2. o.step = "init" => o.kind = "fs" /\ o.dir = o.base
    BY <1>2, <1>4
  <2>3. o.kind = "lists" => o.dir \in DOMAIN o.lines
    BY <1>2, <1>4
  <2> QED
    BY <1>4, <1>9, <2>1, <2>2, <2>3 DEF SourceOk
<1>11. o.kind = "fs" => o.step = "init"
  BY <1>4
<1> QED
  BY <1>4, <1>8, <1>9, <1>10, <1>11 DEF o, s

(* What holds at the beginning.                                            *)
LEMMA Begins ==
  ASSUME Init
  PROVE  /\ InputOk /\ OutputOk /\ OrderOk /\ UnsortedOk /\ MarksOk(tree)
         /\ Filled = {} /\ tree = NewTree /\ count = 0 /\ number = 0 /\ pc = "read"
         /\ log = <<>> /\ cpath = <<>> /\ fdstack # <<>>
         /\ sorted => \E cmd \in Commands :
              /\ sources = cmd /\ Len(in) = 1 /\ 1 \in DOMAIN cmd
              /\ Current = Opened(cmd[1])
<1>1. PICK cmd \in Commands :
        /\ sources = cmd /\ tree = NewTree
        /\ in = [i \in DOMAIN cmd |-> Opened(cmd[i])]
        /\ sorted = (Len(cmd) = 1 /\ cmd[1].sort)
        /\ count = 0
  BY DEF Init, InputInit
<1>2. /\ pc = "read" /\ number = 0 /\ cpath = <<>> /\ after = 0 /\ bpath = <<>>
      /\ fd = <<>> /\ fdstack = <<<<>>>> /\ log = <<>>
  BY DEF Init, OutputInit
<1>3. cmd \in Seq(ToSet(cmd))
  BY CommandsAssumption
<1>4. DOMAIN cmd = 1 .. Len(cmd) /\ Len(cmd) \in Nat
  BY <1>3
<1>5. in \in Seq(Opens) /\ Len(in) = Len(cmd) /\ \A i \in 1 .. Len(in) : in[i] = Opened(cmd[i])
  <2>1. \A i \in 1 .. Len(cmd) : Opened(cmd[i]) \in Opens
    BY <1>4, SourceOpened
  <2>2. in = [i \in 1 .. Len(cmd) |-> Opened(cmd[i])]
    BY <1>1, <1>4
  <2> QED
    BY <1>4, <2>1, <2>2
<1>6. TreeOk(tree) /\ MarksOk(tree) /\ tree.filled = {} /\ tree.sorting = {} /\ tree.reading = {}
  BY <1>1, NewOk DEF NewTree
<1>7. sorted \in BOOLEAN /\ (sorted => Len(cmd) = 1)
  BY <1>1
<1>8. InputOk
  <2>1. \A i \in 1 .. Len(in) : SourceOk(in[i])
    BY <1>4, <1>5, SourceOpened
  <2> QED
    BY <1>1, <1>5, <1>6, <1>7, <2>1 DEF InputOk
<1>9. OutputOk
  <2>1. <<>> \in Paths /\ <<<<>>>> \in Seq(Paths) /\ Len(<<<<>>>>) = 1 /\ Len(<<>>) = 0
    BY EmptyPrefix, RootPrefixes
  <2>2. log \in Seq(Written1) /\ Ordered(log)
    BY <1>2, <2>1 DEF Ordered
  <2> QED
    BY <1>2, <2>1, <2>2 DEF OutputOk
<1>10. Filled = {}
  BY <1>6 DEF Filled
<1>11. OrderOk /\ UnsortedOk
  BY <1>2, <1>10 DEF OrderOk, UnsortedOk
<1>12. ASSUME sorted PROVE Len(in) = 1 /\ 1 \in DOMAIN cmd /\ Current = Opened(cmd[1])
  BY <1>4, <1>5, <1>7, <1>12 DEF Current
<1> QED
  BY <1>1, <1>2, <1>6, <1>8, <1>9, <1>10, <1>11, <1>12

(* The invariant holds at the beginning.                                   *)
LEMMA IInvBegins == ASSUME Init, Plain PROVE IInv
<1>1. /\ InputOk /\ OutputOk /\ OrderOk /\ UnsortedOk /\ MarksOk(tree)
      /\ Filled = {} /\ tree = NewTree /\ count = 0 /\ number = 0 /\ pc = "read"
      /\ log = <<>> /\ cpath = <<>>
  BY Begins
<1>2. tree.sorting = {} /\ tree.reading = {}
  BY <1>1 DEF NewTree
<1>3. ASSUME sorted PROVE FsOk /\ RoundOk
  <2>1. PICK cmd \in Commands :
          sources = cmd /\ Len(in) = 1 /\ 1 \in DOMAIN cmd /\ Current = Opened(cmd[1])
    BY <1>3, Begins
  <2>2. cmd[1].kind = "fs"
    BY <1>3, <2>1 DEF Plain
  <2>3. Current.kind = "fs" /\ Current.step = "init" /\ Pends(Current) = {}
    BY <2>1, <2>2, SourceOpened
  <2>4. FsOk
    BY <1>1, <1>2, <2>1, <2>3 DEF FsOk
  <2>5. RoundOk
    BY <1>1, <1>2 DEF RoundOk
  <2> QED
    BY <2>4, <2>5
<1> QED
  BY <1>1, <1>3 DEF IInv

-----------------------------------------------------------------------------
(* The inductive invariant says what the runs check.                       *)

(* A log that is ordered has neighbours in order.                          *)
LEMMA LogInOrder == ASSUME log \in Seq(Written1), Ordered(log) PROVE InOrder
<1>1. Len(log) \in Nat
  OBVIOUS
<1>2. ASSUME NEW i \in 1 .. Len(log) - 1 PROVE Before(log[i].path, log[i + 1].path)
  <2>1. i \in 1 .. Len(log) /\ i + 1 \in 1 .. Len(log) /\ i < i + 1
    BY <1>1
  <2> QED
    BY <2>1 DEF Ordered
<1> QED
  BY <1>2 DEF InOrder

(* The invariant says that the lines are in order.                         *)
LEMMA IInvInOrder == ASSUME IInv PROVE InOrder
BY LogInOrder DEF IInv, OutputOk

(* What is after all that was written is not written.                      *)
LEMMA LaterIsFreed == ASSUME log \in Seq(Written1), OrderOk PROVE WrittenIsFreed
<1> SUFFICES ASSUME pc = "read", NEW q \in tree.filled, NEW i \in DOMAIN log, q = log[i].path
             PROVE  FALSE
  BY DEF WrittenIsFreed, Written
<1>1. i \in 1 .. Len(log) /\ log[i] \in Written1
  OBVIOUS
<1>2. q \in Paths /\ q # <<>>
  BY <1>1 DEF Written1
<1>3. Later(q)
  BY <1>2 DEF OrderOk, Reading, Filled
<1>4. Before(q, q)
  BY <1>1, <1>3 DEF Later
<1> QED
  BY <1>2, <1>4, Irreflexive

(* The invariant says that what was written is not in the tree.            *)
LEMMA IInvFreed == ASSUME IInv PROVE WrittenIsFreed
BY LaterIsFreed DEF IInv, OutputOk

(* The invariant always holds.                                             *)
LEMMA IInvAlways == Spec => [](Plain => IInv)
<1>1. Init => (Plain => IInv)
  BY IInvBegins
<1>2. (Plain => IInv) /\ [Next]_vars => (Plain => IInv)'
  <2> SUFFICES ASSUME Plain => IInv, [Next]_vars, Plain' PROVE IInv'
    OBVIOUS
  <2>1. UNCHANGED <<sources, sorted>>
    BY DEF Next, vars, input, output, Fetch, Emit, LastWrite, Free, Done, Read, Write,
           ReadBase, OpenDir, ReadEntry, PauseDir, EndDir, NextDir, EndSource, ReadLines,
           NextList, Enough, Postpone, StartWrite, Stop, Pass, Enter, Wait, Leave
  <2>2. Plain
    BY <2>1 DEF Plain
  <2> QED
    BY <2>2, IInvStep
<1> QED
  BY <1>1, <1>2, PTL DEF Spec

(* What flx sign writes is in the order of the tree and nothing in it      *)
(* twice, however the reading is cut into pieces and whatever vanishes     *)
(* meanwhile: for any entries, any base, depth and order of reading of a   *)
(* file system that is sorted, and for any sequence of file systems and    *)
(* lists that is not.                                                      *)
THEOREM LinesInOrder == Spec => [](Plain => InOrder)
<1>1. (Plain => IInv) => (Plain => InOrder)
  BY IInvInOrder
<1> QED
  BY <1>1, IInvAlways, PTL

(* Between two rounds of a sorted file system nothing is left in the tree  *)
(* that was written.                                                       *)
THEOREM NothingWrittenStays == Spec => [](Plain => WrittenIsFreed)
<1>1. (Plain => IInv) => (Plain => WrittenIsFreed)
  BY IInvFreed
<1> QED
  BY <1>1, IInvAlways, PTL

-----------------------------------------------------------------------------
(* Dumps: that of a directory is named by the directories above it, as many *)
(* as the level.                                                           *)
Cut(c, k) == SubSeq(c, 1, IF Len(c) <= k THEN Len(c) ELSE k)

(* Every directory on the way has its dump on the stack, every line is in   *)
(* the dump it belongs to.                                                 *)
StackOk ==
  /\ recursion = level - Len(cpath)
  /\ bpath = Cut(cpath, level) /\ fd = Cut(cpath, level)
  /\ \A k \in 1 .. Len(cpath) : fdstack[k] = Cut(SubSeq(cpath, 1, Len(cpath) - k), level)

DumpOk == \A i \in 1 .. Len(log) : log[i].dump = DumpOf(log[i].path)

DumpsOk ==
  /\ level \in Nat
  /\ refused = {} => DumpOk /\ (fdstack # <<>> => StackOk)

(* No more of a path than there is.                                        *)
LEMMA CutIs ==
  ASSUME NEW c \in Paths, NEW k \in Nat
  PROVE  Cut(c, k) \in Paths /\ (Len(c) <= k => Cut(c, k) = c)
<1>1. Len(c) \in Nat /\ c \in Seq(Nat \ {0})
  BY AtIs DEF Paths
<1>2. ASSUME NEW m \in 0 .. Len(c) PROVE SubSeq(c, 1, m) \in Paths
  <2>1. SubSeq(c, 1, m) \in Seq(Nat \ {0})
    BY <1>1, <1>2
  <2> QED
    BY <2>1 DEF Paths
<1>3. (IF Len(c) <= k THEN Len(c) ELSE k) \in 0 .. Len(c)
  BY <1>1
<1>4. SubSeq(c, 1, Len(c)) = c
  BY <1>1
<1> QED
  BY <1>1, <1>2, <1>3, <1>4 DEF Cut

(* Below the level an entry has the dump of its directory, above it is its  *)
(* own.                                                                    *)
LEMMA CutEntry ==
  ASSUME NEW c \in Paths, NEW n \in Nat \ {0}, NEW k \in Nat
  PROVE  /\ Len(c) < k => Cut(Append(c, n), k) = Append(c, n) /\ Cut(c, k) = c
         /\ ~(Len(c) < k) => Cut(Append(c, n), k) = Cut(c, k)
<1> DEFINE e == Append(c, n)
<1>1. e \in Paths /\ Len(e) = Len(c) + 1 /\ Len(c) \in Nat /\ c \in Seq(Nat \ {0})
  BY AppendIs, AtIs DEF Paths
<1>2. Len(c) < k => Cut(e, k) = e /\ Cut(c, k) = c
  <2> HIDE DEF e
  <2>1. (Len(e) <= k => Cut(e, k) = e) /\ (Len(c) <= k => Cut(c, k) = c)
    BY <1>1, CutIs
  <2> QED
    BY <1>1, <2>1
<1>3. ASSUME ~(Len(c) < k) PROVE Cut(e, k) = Cut(c, k)
  <2>1. Cut(e, k) = SubSeq(e, 1, k) /\ Cut(c, k) = SubSeq(c, 1, k)
    BY <1>1, <1>3 DEF Cut
  <2>2. SubSeq(e, 1, k) = SubSeq(c, 1, k)
    BY <1>1, <1>3
  <2> QED
    BY <2>1, <2>2
<1> QED
  BY <1>2, <1>3

(* What is up to a directory is the same for it and for its entries.        *)
LEMMA UpFrom ==
  ASSUME NEW c \in Paths, NEW n \in Nat \ {0}, NEW m \in 0 .. Len(c)
  PROVE  SubSeq(Append(c, n), 1, m) = SubSeq(c, 1, m)
<1>1. c \in Seq(Nat \ {0}) /\ Len(c) \in Nat
  BY AtIs DEF Paths
<1> QED
  BY <1>1

(* The dump of an entry is named by its directory, cut at the level.       *)
LEMMA DumpOfEntry ==
  ASSUME NEW c \in Paths, NEW n \in Nat \ {0}, level \in Nat
  PROVE  DumpOf(Append(c, n)) = Cut(c, level)
<1> DEFINE e == Append(c, n)
           T == {Len(e) - 1, level}
<1>1. Len(e) = Len(c) + 1 /\ Len(c) \in Nat
  BY AppendIs, AtIs
<1>2. T = {Len(c), level}
  BY <1>1
<1>3. Min(T) = IF Len(c) <= level THEN Len(c) ELSE level
  <2>1. \E m \in T : \A x \in T : m <= x
    BY <1>1, <1>2
  <2>2. Min(T) \in T /\ \A x \in T : Min(T) <= x
    BY <2>1 DEF Min
  <2> QED
    BY <1>1, <1>2, <2>2
<1>4. (IF Len(c) <= level THEN Len(c) ELSE level) \in 0 .. Len(c)
  BY <1>1
<1> HIDE DEF T
<1>5. DumpOf(e) = SubSeq(e, 1, Min(T))
  BY DEF DumpOf, T
<1> QED
  BY <1>3, <1>4, <1>5, UpFrom DEF Cut

(* The line of an entry goes to the dump of its directory.                  *)
LEMMA LoggedDump ==
  ASSUME log \in Seq(Written1), DumpOk, level \in Nat, cpath \in Paths, fd = Cut(cpath, level),
         NEW n \in Nat \ {0}
  PROVE  \A i \in 1 .. Len(Logged(Append(cpath, n))) :
            /\ Logged(Append(cpath, n))[i].dump = DumpOf(Logged(Append(cpath, n))[i].path)
<1> DEFINE e == Append(cpath, n)
<1>1. CASE Logged(e) = log
  BY <1>1 DEF DumpOk
<1>2. CASE Logged(e) = Append(log, [path |-> e, dump |-> fd])
  <2> DEFINE w == [path |-> e, dump |-> fd]
  <2>1. w.path = e /\ w.dump = fd
    OBVIOUS
  <2>2. w.dump = DumpOf(w.path)
    BY <2>1, DumpOfEntry
  <2> HIDE DEF w, e
  <2>3. Len(log) \in Nat /\ Logged(e) = Append(log, w)
    BY <1>2 DEF w
  <2>4. \A i \in 1 .. Len(log) + 1 : Append(log, w)[i] = IF i = Len(log) + 1 THEN w ELSE log[i]
    BY <2>3
  <2>5. Len(Append(log, w)) = Len(log) + 1
    BY <2>3
  <2>6. ASSUME NEW i \in 1 .. Len(log) + 1 PROVE Append(log, w)[i].dump = DumpOf(Append(log, w)[i].path)
    <3>1. CASE i = Len(log) + 1
      BY <2>2, <2>4, <3>1
    <3>2. CASE i # Len(log) + 1
      <4>1. i \in 1 .. Len(log)
        BY <2>3, <3>2
      <4> QED
        BY <2>4, <3>2, <4>1 DEF DumpOk
    <3> QED
      BY <3>1, <3>2
  <2> QED
    BY <2>3, <2>5, <2>6 DEF e
<1> QED
  BY <1>1, <1>2 DEF Logged

(* The line of the entry that is visited.                                  *)
LEMMA EntryDump ==
  ASSUME IInv, pc = "visit", Following # {}, DumpOk, StackOk, level \in Nat
  PROVE  /\ \A i \in 1 .. Len(Logged(Entry)) :
              Logged(Entry)[i].dump = DumpOf(Logged(Entry)[i].path)
         /\ Last(Entry) \in Nat \ {0} /\ Entry = Append(cpath, Last(Entry))
         /\ cpath \in Paths /\ Entry \in Paths
         /\ Logged(Entry) \in Seq(Written1) /\ Ordered(Logged(Entry))
<1>1. /\ TreeOk(tree) /\ cpath \in Paths /\ after \in Nat /\ log \in Seq(Written1)
      /\ OutputOk /\ OrderOk /\ Ordered(log) /\ fd \in Paths
  BY DEF IInv, InputOk, OutputOk
<1>2. /\ Last(Entry) \in Nat \ {0} /\ Entry = Append(cpath, Last(Entry))
      /\ Entry \in Paths \ {<<>>}
  BY <1>1, EntryIs DEF Names
<1>3. Entry \in tree.filled => Later(Entry)
  BY <1>1, OutputPlaced, EntryIsLater
<1>4. Logged(Entry) \in Seq(Written1) /\ Ordered(Logged(Entry))
  BY <1>1, <1>2, <1>3, LoggedIs
<1>5. \A i \in 1 .. Len(Logged(Append(cpath, Last(Entry)))) :
         Logged(Append(cpath, Last(Entry)))[i].dump
           = DumpOf(Logged(Append(cpath, Last(Entry)))[i].path)
  BY <1>1, <1>2, LoggedDump DEF StackOk
<1> QED
  BY <1>1, <1>2, <1>4, <1>5

(* The beginning of a call leaves the dumps as they are.                   *)
LEMMA StartDumps == ASSUME IInv, StartWrite, DumpsOk PROVE DumpsOk'
<1>1. /\ cpath' = cpath /\ level' = level /\ refused' = refused /\ fd' = fd
      /\ fdstack' = fdstack /\ log' = log
  BY StartWriteDoes
<1>2. Climbed(cpath) = cpath
  BY <1>1 DEF StartWrite
<1>3. cpath \in Paths /\ bpath \in Paths
  BY DEF IInv, OutputOk
<1>4. Len(cpath) \in Nat /\ Len(bpath) \in Nat /\ bpath \in Seq(Nat \ {0})
  BY <1>3, AtIs DEF Paths
<1>5. /\ recursion' = recursion - (Len(cpath) - Len(cpath))
      /\ bpath' = SubSeq(bpath, 1, Len(bpath) - (Len(cpath) - Len(cpath)))
  BY <1>2 DEF StartWrite
<1>6. Len(cpath) - Len(cpath) = 0 /\ Len(bpath) - 0 = Len(bpath)
  BY <1>4
<1>7. bpath' = bpath
  BY <1>4, <1>5, <1>6
<1>8. ASSUME recursion = level - Len(cpath), level \in Nat PROVE recursion' = level - Len(cpath)
  BY <1>4, <1>5, <1>6, <1>8
<1> QED
  BY <1>1, <1>7, <1>8 DEF DumpsOk, StackOk, DumpOk, DumpOf

(* Into a directory: its dump is on the stack, its line in that of the one *)
(* above.                                                                  *)
LEMMA EnterDumps ==
  ASSUME IInv, Enter, level \in Nat, refused = {}, DumpOk, fdstack # <<>> => StackOk
  PROVE  DumpOk' /\ StackOk'
<1> DEFINE dump == Append(bpath, Last(Entry))
           opens == recursion > 0 /\ dump \notin refused
<1>1. /\ pc = "visit" /\ Following # {}
      /\ log' = IF opens THEN Truncated(Logged(Entry), dump) ELSE Logged(Entry)
      /\ fd' = (IF opens THEN dump ELSE fd)
      /\ bpath' = (IF recursion > 0 THEN dump ELSE bpath)
      /\ fdstack' = <<fd>> \o fdstack /\ cpath' = Entry
      /\ recursion' = recursion - 1 /\ level' = level
  BY DEF Enter
<1>2. fdstack \in Seq(Paths) /\ fd \in Paths /\ Len(fdstack) = Len(cpath) + 1 /\ cpath \in Paths
  BY <1>1 DEF IInv, OutputOk
<1>3. StackOk
  <2>1. Len(cpath) \in Nat
    BY <1>2, AtIs
  <2>2. fdstack # <<>>
    BY <1>2, <2>1, Len(<<>>) = 0
  <2> QED
    BY <2>2
<1>4. /\ \A i \in 1 .. Len(Logged(Entry)) :
           Logged(Entry)[i].dump = DumpOf(Logged(Entry)[i].path)
      /\ Last(Entry) \in Nat \ {0} /\ Entry = Append(cpath, Last(Entry)) /\ Entry \in Paths
      /\ Logged(Entry) \in Seq(Written1) /\ Ordered(Logged(Entry))
  BY <1>1, <1>3, EntryDump
<1>5. Len(cpath) \in Nat /\ Len(Entry) = Len(cpath) + 1
  <2>1. Len(Append(cpath, Last(Entry))) = Len(cpath) + 1
    BY <1>2, <1>4, AppendIs
  <2> QED
    BY <1>2, <1>4, <2>1, AtIs
<1>6. DumpOk'
  <2>1. DumpOf(<<>>)' = DumpOf(<<>>)
    BY <1>1 DEF DumpOf
  <2>2. ASSUME NEW p PROVE DumpOf(p)' = DumpOf(p)
    BY <1>1 DEF DumpOf
  <2>3. CASE log' = Logged(Entry)
    BY <1>1, <1>4, <2>2, <2>3 DEF DumpOk, DumpOf
  <2>4. CASE log' = Truncated(Logged(Entry), dump)
    <3> HIDE DEF dump
    <3>1. From(log', Logged(Entry), Len(Logged(Entry)))
      BY <1>4, <2>4, TruncatedKeeps
    <3>2. ASSUME NEW i \in 1 .. Len(log') PROVE log'[i].dump = DumpOf(log'[i].path)
      <4>1. PICK j \in 1 .. Len(Logged(Entry)) : log'[i] = Logged(Entry)[j]
        BY <3>1 DEF From
      <4> QED
        BY <1>4, <4>1
    <3> QED
      BY <1>1, <3>2 DEF DumpOk, DumpOf
  <2> QED
    BY <1>1, <2>3, <2>4
<1>7. recursion = level - Len(cpath) /\ bpath = Cut(cpath, level) /\ fd = Cut(cpath, level)
  BY <1>3 DEF StackOk
<1>8. recursion' = level - Len(Entry)
  BY <1>1, <1>5, <1>7
<1>9. bpath' = Cut(Entry, level) /\ fd' = Cut(Entry, level)
  <2>1. CASE Len(cpath) < level
    <3>1. Cut(Append(cpath, Last(Entry)), level) = Append(cpath, Last(Entry)) /\ Cut(cpath, level) = cpath
      BY <1>2, <1>4, <2>1, CutEntry
    <3>2. Cut(Entry, level) = Entry /\ bpath = cpath
      BY <1>4, <1>7, <3>1
    <3>3. dump = Entry
      BY <1>4, <3>2
    <3>4. recursion > 0
      BY <1>5, <1>7, <2>1
    <3> QED
      BY <1>1, <3>2, <3>3, <3>4
  <2>2. CASE ~(Len(cpath) < level)
    <3>1. Cut(Append(cpath, Last(Entry)), level) = Cut(cpath, level)
      BY <1>2, <1>4, <2>2, CutEntry
    <3>2. Cut(Entry, level) = Cut(cpath, level)
      BY <1>4, <3>1
    <3>3. ~(recursion > 0)
      BY <1>5, <1>7, <2>2
    <3> QED
      BY <1>1, <1>7, <3>2, <3>3
  <2> QED
    BY <2>1, <2>2
<1>10. ASSUME NEW k \in 1 .. Len(Entry)
       PROVE  fdstack'[k] = Cut(SubSeq(Entry, 1, Len(Entry) - k), level)
  <2>1. Len(Entry) - k \in 0 .. Len(cpath) /\ Len(Entry) - k = Len(cpath) - (k - 1)
    BY <1>5
  <2>2. SubSeq(Append(cpath, Last(Entry)), 1, Len(Entry) - k) = SubSeq(cpath, 1, Len(Entry) - k)
    BY <1>2, <1>4, <2>1, UpFrom
  <2>3. SubSeq(Entry, 1, Len(Entry) - k) = SubSeq(cpath, 1, Len(Entry) - k)
    BY <1>4, <2>2
  <2>4. CASE k = 1
    <3>1. fdstack'[1] = fd
      BY <1>1, <1>2
    <3>2. SubSeq(cpath, 1, Len(cpath)) = cpath
      BY <1>2 DEF Paths
    <3>3. Len(Entry) - k = Len(cpath)
      BY <1>5, <2>4
    <3> QED
      BY <1>7, <2>3, <2>4, <3>1, <3>2, <3>3
  <2>5. CASE k # 1
    <3>1. k - 1 \in 1 .. Len(cpath) /\ k \in 2 .. Len(fdstack) + 1
      BY <1>2, <1>5, <2>5
    <3>2. fdstack'[k] = fdstack[k - 1]
      BY <1>1, <1>2, <3>1
    <3>3. fdstack[k - 1] = Cut(SubSeq(cpath, 1, Len(cpath) - (k - 1)), level)
      BY <1>3, <3>1 DEF StackOk
    <3> QED
      BY <2>1, <2>3, <3>2, <3>3
  <2> QED
    BY <2>4, <2>5
<1> QED
  BY <1>1, <1>6, <1>8, <1>9, <1>10 DEF StackOk

(* Back from a directory to the dump of the one above.                     *)
LEMMA LeaveDumps ==
  ASSUME IInv, Leave, level \in Nat, StackOk
  PROVE  fdstack' # <<>> => StackOk'
<1> SUFFICES ASSUME fdstack' # <<>> PROVE StackOk'
  OBVIOUS
<1>1. cpath # <<>> /\ cpath' = Parent(cpath)
  BY LeaveDoes
<1>2. /\ recursion' = recursion + 1
      /\ bpath' = (IF recursion + 1 > 0 /\ bpath # <<>> THEN Front(bpath) ELSE bpath)
      /\ fd' = Head(fdstack) /\ fdstack' = Tail(fdstack) /\ level' = level
      /\ pc = "visit"
  BY DEF Leave
<1>3. cpath \in Paths /\ fdstack \in Seq(Paths) /\ Len(fdstack) = Len(cpath) + 1
  BY <1>2 DEF IInv, OutputOk
<1> DEFINE c == Parent(cpath)
           n == Last(cpath)
<1>4. c \in Paths /\ n \in Nat \ {0} /\ cpath = Append(c, n)
  BY <1>1, <1>3, ParentIs
<1> HIDE DEF n
<1>5. Len(c) \in Nat /\ Len(cpath) = Len(c) + 1
  <2> HIDE DEF c
  <2>1. Len(Append(c, n)) = Len(c) + 1
    BY <1>4, AppendIs
  <2> QED
    BY <1>4, <2>1, AtIs
<1>6. recursion = level - Len(cpath) /\ bpath = Cut(cpath, level)
  BY DEF StackOk
<1>7. recursion' = level - Len(c)
  BY <1>2, <1>5, <1>6
<1>8. bpath' = Cut(c, level)
  <2>1. CASE Len(c) < level
    <3> HIDE DEF c
    <3>1. Cut(Append(c, n), level) = Append(c, n) /\ Cut(c, level) = c
      BY <1>4, <2>1, CutEntry
    <3>2. bpath = cpath /\ recursion + 1 > 0
      BY <1>4, <1>5, <1>6, <2>1, <3>1
    <3>3. bpath' = Front(cpath)
      BY <1>1, <1>2, <3>2
    <3> QED
      BY <3>1, <3>3 DEF c, Parent
  <2>2. CASE ~(Len(c) < level)
    <3> HIDE DEF c
    <3>1. Cut(Append(c, n), level) = Cut(c, level)
      BY <1>4, <2>2, CutEntry
    <3>2. ~(recursion + 1 > 0)
      BY <1>5, <1>6, <2>2
    <3> QED
      BY <1>2, <1>4, <1>6, <3>1, <3>2
  <2> QED
    BY <2>1, <2>2
<1>9. \A m \in 0 .. Len(c) : SubSeq(cpath, 1, m) = SubSeq(c, 1, m)
  <2> HIDE DEF c
  <2>1. \A m \in 0 .. Len(c) : SubSeq(Append(c, n), 1, m) = SubSeq(c, 1, m)
    BY <1>4, UpFrom
  <2> QED
    BY <1>4, <2>1
<1>10. \A k \in 1 .. Len(cpath) : fdstack[k] = Cut(SubSeq(cpath, 1, Len(cpath) - k), level)
  BY DEF StackOk
<1>11. fd' = Cut(c, level)
  <2>1. 1 \in 1 .. Len(cpath) /\ Len(cpath) - 1 = Len(c) /\ Len(c) \in 0 .. Len(c)
    BY <1>5
  <2>2. fd' = fdstack[1]
    BY <1>2, <1>3, <1>5
  <2>3. SubSeq(c, 1, Len(c)) = c
    BY <1>4 DEF Paths
  <2> QED
    BY <1>9, <1>10, <2>1, <2>2, <2>3
<1>12. ASSUME NEW k \in 1 .. Len(c)
       PROVE  fdstack'[k] = Cut(SubSeq(c, 1, Len(c) - k), level)
  <2>1. k + 1 \in 1 .. Len(cpath) /\ Len(cpath) - (k + 1) = Len(c) - k /\ Len(c) - k \in 0 .. Len(c)
    BY <1>5
  <2>2. fdstack'[k] = fdstack[k + 1]
    <3>1. k \in 1 .. Len(fdstack) - 1 /\ fdstack # <<>>
      BY <1>3, <1>5
    <3> HIDE DEF c
    <3> QED
      BY <1>2, <1>3, <3>1
  <2> QED
    BY <1>9, <1>10, <2>1, <2>2
<1> QED
  BY <1>1, <1>2, <1>7, <1>8, <1>11, <1>12 DEF StackOk

(* Whatever a step does, the dumps stay in order.                          *)
LEMMA DumpsStep == ASSUME IInv, DumpsOk, [Next]_vars PROVE DumpsOk'
<1>1. level \in Nat
  BY DEF DumpsOk
<1>2. ASSUME UNCHANGED <<level, refused, recursion, cpath, bpath, fd, fdstack, log>>
      PROVE  DumpsOk'
  BY <1>2 DEF DumpsOk, StackOk, DumpOk, DumpOf
<1>3. ASSUME Stop \/ Pass PROVE DumpsOk'
  <2>1. /\ pc = "visit" /\ Following # {} /\ log' = Logged(Entry)
        /\ UNCHANGED <<level, refused, recursion, cpath, bpath, fd, fdstack>>
    BY <1>3 DEF Stop, Pass
  <2>2. fdstack # <<>>
    <3>1. cpath \in Paths /\ Len(fdstack) = Len(cpath) + 1
      BY <2>1 DEF IInv, OutputOk
    <3>2. Len(cpath) \in Nat
      BY <3>1, AtIs
    <3> QED
      BY <3>1, <3>2, Len(<<>>) = 0
  <2>3. ASSUME refused = {} PROVE DumpOk'
    <3>1. DumpOk /\ StackOk
      BY <2>2, <2>3 DEF DumpsOk
    <3>2. \A i \in 1 .. Len(Logged(Entry)) :
              Logged(Entry)[i].dump = DumpOf(Logged(Entry)[i].path)
      BY <1>1, <2>1, <3>1, EntryDump
    <3> QED
      BY <2>1, <3>2 DEF DumpOk, DumpOf
  <2>4. StackOk' = StackOk
    BY <2>1 DEF StackOk
  <2> QED
    BY <1>1, <2>1, <2>3, <2>4 DEF DumpsOk
<1>4. ASSUME Enter PROVE DumpsOk'
  <2>1. UNCHANGED <<level, refused>>
    BY <1>4 DEF Enter
  <2>2. refused = {} => DumpOk' /\ StackOk'
    BY <1>1, <1>4, EnterDumps DEF DumpsOk
  <2> QED
    BY <1>1, <2>1, <2>2 DEF DumpsOk
<1>5. ASSUME Leave PROVE DumpsOk'
  <2>1. UNCHANGED <<level, refused, log>>
    BY <1>5 DEF Leave
  <2>2. fdstack # <<>>
    <3>1. cpath \in Paths /\ Len(fdstack) = Len(cpath) + 1
      BY <1>5 DEF IInv, OutputOk, Leave
    <3>2. Len(cpath) \in Nat
      BY <3>1, AtIs
    <3> QED
      BY <3>1, <3>2, Len(<<>>) = 0
  <2>3. refused = {} => (fdstack' # <<>> => StackOk')
    BY <1>1, <1>5, <2>2, LeaveDumps DEF DumpsOk
  <2>4. DumpOk => DumpOk'
    BY <2>1 DEF DumpOk, DumpOf
  <2> QED
    BY <1>1, <2>1, <2>3, <2>4 DEF DumpsOk
<1>6. ASSUME Write PROVE DumpsOk'
  <2>1. CASE Postpone \/ Wait
    BY <1>2, <2>1 DEF Postpone, Wait, output
  <2> QED
    BY <1>3, <1>4, <1>5, <1>6, <2>1, StartDumps DEF Write
<1> QED
  BY <1>2, <1>6 DEF Next, vars, output, Fetch, Emit, LastWrite, Free, Done

(* At the beginning there is the dump of the root.                         *)
LEMMA DumpsBegin == ASSUME Init PROVE DumpsOk /\ (sorted => 1 \in DOMAIN sources)
<1>1. /\ level \in Nat /\ recursion = level /\ cpath = <<>> /\ bpath = <<>> /\ fd = <<>>
      /\ log = <<>> /\ fdstack = <<<<>>>>
  BY LevelsAssumption DEF Init, OutputInit
<1>2. Len(cpath) = 0 /\ Len(log) = 0
  BY <1>1
<1>3. Cut(<<>>, level) = <<>>
  <2>1. <<>> \in Paths /\ Len(<<>>) = 0
    BY RootPrefixes, EmptyPrefix DEF Paths
  <2>2. Len(<<>>) <= level
    BY <1>1, <2>1
  <2> QED
    BY <1>1, <2>1, <2>2, CutIs
<1>4. DumpsOk
  BY <1>1, <1>2, <1>3 DEF DumpsOk, DumpOk, StackOk
<1>5. PICK cmd \in Commands : sources = cmd /\ sorted = (Len(cmd) = 1 /\ cmd[1].sort)
  BY DEF Init, InputInit
<1>6. cmd \in Seq(ToSet(cmd))
  BY CommandsAssumption
<1>7. sorted => 1 \in DOMAIN sources
  <2>1. DOMAIN cmd = 1 .. Len(cmd)
    BY <1>6
  <2>2. sorted => Len(cmd) = 1
    BY <1>5
  <2> QED
    BY <1>5, <2>1, <2>2
<1> QED
  BY <1>4, <1>7

(* With a level, every line of file systems is in the dump of its          *)
(* directory, or of the last one above it that has one, as long as all     *)
(* dumps could be made: output_file.c comes back to the dump of a          *)
(* directory when it has left one below it, in whatever round that is.     *)
THEOREM EveryLineInItsDump == Spec => []RightDump
<1> DEFINE Inv == (sorted => 1 \in DOMAIN sources) /\ (Plain => IInv /\ DumpsOk)
<1>1. Init => Inv
  BY IInvBegins, DumpsBegin
<1>2. Inv /\ [Next]_vars => Inv'
  <2> SUFFICES ASSUME Inv, [Next]_vars PROVE Inv'
    OBVIOUS
  <2>1. UNCHANGED <<sources, sorted>>
    BY DEF Next, vars, input, output, Fetch, Emit, LastWrite, Free, Done, Read, Write,
           ReadBase, OpenDir, ReadEntry, PauseDir, EndDir, NextDir, EndSource, ReadLines,
           NextList, Enough, Postpone, StartWrite, Stop, Pass, Enter, Wait, Leave
  <2>2. Plain' = Plain
    BY <2>1 DEF Plain
  <2>3. Plain => IInv' /\ DumpsOk'
    BY IInvStep, DumpsStep
  <2> QED
    BY <2>1, <2>2, <2>3
<1>3. Inv => RightDump
  <2> SUFFICES ASSUME Inv, refused = {}, \A s \in ToSet(sources) : s.kind = "fs",
                      NEW i \in DOMAIN log
               PROVE  log[i].dump = DumpOf(log[i].path)
    BY DEF RightDump
  <2>1. Plain
    BY DEF Plain, ToSet
  <2>2. DumpOk /\ log \in Seq(Written1)
    BY <2>1 DEF DumpsOk, IInv, OutputOk
  <2> QED
    BY <2>2 DEF DumpOk
<1> HIDE DEF Inv
<1> QED
  BY <1>1, <1>2, <1>3, PTL DEF Spec

-----------------------------------------------------------------------------
(* All of it is written.  Sources that were not begun: *)
Fresh(s) == s.kind # "fs" \/ (s.step = "init" /\ Pends(s) = {})

KindsOk ==
  /\ \A i \in 1 .. Len(in) : in[i].kind # "lists"
  /\ \A i \in 2 .. Len(in) : Fresh(in[i])
  /\ pc \in {"last", "write"} /\ number = 0 => in = <<>>

(* From unsorted sources nothing is freed, and the marks only grow.         *)
SourceMarks(s, t) ==
  s.kind = "fs" =>
    /\ s.step = "open" => <<>> \in t.changed
    /\ s.step \in {"notread", "open"} => s.dir \in t.changed \cup {<<>>}
    /\ Pends(s) \subseteq t.changed
UnsortedMarks ==
  ~sorted =>
    /\ MarksOk(tree)
    /\ in # <<>> => SourceMarks(Current, tree)
    /\ Reading \/ (pc = "free" /\ number = 1) => fdstack # <<>>

(* The root is marked as long as it is read, and what is in the tree is     *)
(* reached from it.                                                        *)
RootRead(s) == s.kind = "fs" /\ s.dir = <<>> /\ s.step # "init" /\ s.pending # <<>>
RootOk ==
  /\ <<>> \in tree.sorting => in # <<>> /\ RootRead(Current)
  /\ Filled # {} => <<>> \in tree.changed \cup tree.sorting

(* Once the output has left the root nothing comes any more.                *)
EndRead == in = <<>> \/ (Current.step = "read" /\ Pends(Current) = {})

Kept == IF sorted THEN Freed(tree) ELSE tree

(* What has arrived was written or is in the tree, in all of a round; and   *)
(* no directory that is to be entered was entered before.                  *)
ReadingCover ==
  Reading =>
    /\ arrived \subseteq Written \cup Filled \cup {<<>>}
    /\ \A q \in Filled : Before(cpath, q)
    /\ \A p \in tree.changed : IsPrefix(p, cpath) \/ NotPast(p)
    /\ fdstack = <<>> => Filled = {} /\ EndRead
VisitCover ==
  pc = "visit" =>
    /\ arrived \subseteq Written \cup Filled \cup {<<>>}
    /\ \A q \in Filled : Before(q, Pos) => q \in Written
    /\ \A p \in tree.changed : Before(p, Pos) \/ NotPast(p)
FreeCover ==
  pc = "free" /\ number = 1 =>
    /\ arrived \subseteq Written \cup Kept.filled \cup {<<>>}
    /\ \A q \in Kept.filled \ {<<>>} : Before(cpath, q)
    /\ \A p \in Kept.changed : IsPrefix(p, cpath) \/ NotPast(p)
    /\ fdstack = <<>> => Kept.filled \subseteq {<<>>} /\ EndRead
EndCover ==
  (pc = "free" /\ number = 0) \/ pc = "done" => arrived \subseteq Written \cup {<<>>}

(* No dump of a directory on the way was closed.                            *)
ClosedOk ==
  fdstack # <<>> =>
    \A c \in closed : c \in Paths /\ Len(c) <= level /\ ~IsPrefix(c, cpath)

Covered ==
  /\ KindsOk /\ UnsortedMarks /\ RootOk
  /\ ReadingCover /\ VisitCover /\ FreeCover /\ EndCover
  /\ ClosedOk

(* What the invariants say together, as the steps need it.                 *)
LEMMA CoverStart ==
  ASSUME IInv, Covered
  PROVE  /\ InputOk /\ OutputOk /\ TreeOk(tree) /\ MarksOk(tree) /\ cpath \in Paths
         /\ sorted => FsOk /\ RoundOk
         /\ ~sorted => UnsortedOk
         /\ \A p \in tree.changed \cup tree.filled \cup tree.sorting :
               p \in Paths /\ Prefixes(p) \subseteq tree.changed \cup {<<>>}
<1>1. /\ InputOk /\ OutputOk /\ TreeOk(tree) /\ MarksOk(tree) /\ cpath \in Paths
      /\ sorted => FsOk /\ RoundOk
      /\ ~sorted => UnsortedOk
  BY DEF IInv, Covered, UnsortedMarks, InputOk, OutputOk, FsOk
<1>2. tree.changed \subseteq Paths /\ tree.filled \subseteq Paths /\ tree.sorting \subseteq Paths
  BY <1>1 DEF TreeOk, Trees
<1>3. \A p \in tree.changed \cup tree.filled \cup tree.sorting :
         Prefixes(p) \subseteq tree.changed \cup {<<>>}
  <2> TAKE p \in tree.changed \cup tree.filled \cup tree.sorting
  <2>1. CASE p \in tree.changed
    BY <1>1, <2>1 DEF MarksOk
  <2>2. CASE p = <<>>
    BY <2>2, RootPrefixes
  <2> QED
    BY <1>1, <2>1, <2>2 DEF MarksOk
<1> QED
  BY <1>1, <1>2, <1>3

(* The sources behind the current one stay, or move up.                     *)
LEMMA RestSame ==
  ASSUME InputOk, Read
  PROVE  (\A i \in 2 .. Len(in) : in'[i] = in[i]) \/ in' = Tail(in)
<1>1. in \in Seq(Opens)
  BY DEF InputOk
<1>2. CASE ReadBase
  <2>1. CASE in' = [in EXCEPT ![1].pending = <<>>, ![1].step = "read"]
    BY <1>1, <2>1
  <2>2. CASE in' = [in EXCEPT ![1].step = "notread", ![1].left = Children(Current), ![1].depth = @ - 1]
    BY <1>1, <2>2
  <2> QED
    BY <1>2, <2>1, <2>2 DEF ReadBase
<1>3. CASE OpenDir
  <2>1. CASE in' = [in EXCEPT ![1].step = "open"]
    BY <1>1, <2>1
  <2>2. CASE in' = [in EXCEPT ![1].step = "read", ![1].left = {}]
    BY <1>1, <2>2
  <2> QED
    BY <1>3, <2>1, <2>2 DEF OpenDir
<1>4. CASE ReadEntry
  <2>1. PICK n : LET rest == [in EXCEPT ![1].left = @ \ {n}]
                 IN in' = [rest EXCEPT ![1].pending[1] = @ \cup {n}] \/ in' = rest
    BY <1>4 DEF ReadEntry
  <2> DEFINE rest == [in EXCEPT ![1].left = @ \ {n}]
  <2>2. DOMAIN rest = 1 .. Len(in) /\ \A i \in 2 .. Len(in) : rest[i] = in[i]
    BY <1>1
  <2>3. CASE in' = rest
    BY <2>2, <2>3
  <2>4. CASE in' = [rest EXCEPT ![1].pending[1] = @ \cup {n}]
    <3>1. \A i \in 2 .. Len(in) : i \in DOMAIN rest /\ i # 1
      BY <1>1, <2>2
    <3> HIDE DEF rest
    <3>2. \A i \in 2 .. Len(in) : in'[i] = rest[i]
      BY <2>4, <3>1
    <3> QED
      BY <2>2, <3>2
  <2> QED
    BY <2>1, <2>3, <2>4
<1>5. CASE PauseDir \/ EndDir
  <2>1. in' = [in EXCEPT ![1].step = "notread"] \/ in' = [in EXCEPT ![1].step = "read"]
    BY <1>5 DEF PauseDir, EndDir
  <2>2. CASE in' = [in EXCEPT ![1].step = "notread"]
    BY <1>1, <2>2
  <2>3. CASE in' = [in EXCEPT ![1].step = "read"]
    BY <1>1, <2>3
  <2> QED
    BY <2>1, <2>2, <2>3
<1>6. CASE NextDir
  <2>1. PICK v : in' = [in EXCEPT ![1] = v]
    BY <1>6 DEF NextDir
  <2> QED
    BY <1>1, <2>1
<1>7. CASE EndSource \/ Enough
  BY <1>1, <1>7 DEF EndSource, Enough, Return
<1>8. CASE ReadLines
  <2>1. PICK n, step : in' = [in EXCEPT ![1].fd = SubSeq(@, n + 1, Len(@)), ![1].step = step]
    BY <1>8 DEF ReadLines
  <2> QED
    BY <1>1, <2>1
<1>9. CASE NextList
  <2>1. PICK N, texts, step :
          in' = [in EXCEPT ![1].pending[1] = N, ![1].fd = texts, ![1].step = step]
    BY <1>9 DEF NextList
  <2> QED
    BY <1>1, <2>1
<1> QED
  BY <1>2, <1>3, <1>4, <1>5, <1>6, <1>7, <1>8, <1>9 DEF Read

(* A reading step keeps the kind of the current source, or goes on to the  *)
(* next.                                                                   *)
LEMMA RestKept ==
  ASSUME InputOk, Read
  PROVE  /\ in # <<>> /\ pc = "read" /\ in \in Seq(Opens)
         /\ \/ /\ Len(in') = Len(in) /\ in'[1].kind = in[1].kind /\ pc' # "last"
               /\ \A i \in 2 .. Len(in) : in'[i] = in[i]
            \/ in' = Tail(in) /\ pc' = (IF Len(in) = 1 THEN "last" ELSE "read")
<1>1. in \in Seq(Opens)
  BY DEF InputOk
<1>2. in # <<>> /\ pc = "read"
  BY DEF Read, Is, ReadBase, OpenDir, ReadEntry, PauseDir, EndDir, NextDir, EndSource,
         ReadLines, NextList, Enough
<1>3. Len(in) \in Nat \ {0} /\ Current = in[1]
  BY <1>1, <1>2, EmptySeq DEF Current
<1>4. Len(Tail(in)) # Len(in)
  BY <1>1, <1>2, <1>3
<1> DEFINE Same == /\ Len(in') = Len(in) /\ in'[1].kind = in[1].kind /\ pc' # "last"
                   /\ \A i \in 2 .. Len(in) : in'[i] = in[i]
           Moved == in' = Tail(in) /\ pc' = (IF Len(in) = 1 THEN "last" ELSE "read")
<1>5. ASSUME Len(in') = Len(in), in'[1].kind = in[1].kind, pc' # "last" PROVE Same
  BY <1>4, <1>5, RestSame
<1>6. ASSUME Return PROVE Same \/ Moved
  <2>1. CASE count > 0
    BY <1>6, <2>1 DEF Return
  <2>2. CASE ~(count > 0)
    BY <1>6, <2>2 DEF Return
  <2> QED
    BY <2>1, <2>2
<1> HIDE DEF Same
<1>7. Same \/ Moved
  <2>1. CASE ReadBase
    BY <1>3, <1>5, <2>1, ReadBaseDoes
  <2>2. CASE OpenDir
    BY <1>3, <1>5, <2>2, OpenDirDoes
  <2>3. CASE ReadEntry
    BY <1>3, <1>5, <2>3, ReadEntryDoes
  <2>4. CASE PauseDir
    BY <1>3, <1>5, <2>4, PauseDirDoes
  <2>5. CASE EndDir
    BY <1>3, <1>5, <2>5, EndDirDoes
  <2>6. CASE NextDir
    BY <1>3, <1>5, <2>6, NextDirDoes
  <2>7. CASE EndSource \/ Enough
    BY <1>6, <2>7 DEF EndSource, Enough
  <2>8. CASE ReadLines
    BY <1>3, <1>5, <2>8, ReadLinesDoes
  <2>9. CASE NextList
    BY <1>3, <1>5, <2>9, NextListDoes
  <2> QED
    BY <2>1, <2>2, <2>3, <2>4, <2>5, <2>6, <2>7, <2>8, <2>9 DEF Read
<1> QED
  BY <1>1, <1>2, <1>7 DEF Same

(* What a step of the sources adds.                                        *)
NewCovers ==
  /\ tree.filled \subseteq tree'.filled
  /\ arrived' \subseteq arrived \cup tree'.filled
  /\ \A p \in tree'.changed \ tree.changed : p = <<>> \/ NotPast(p)
  /\ \A q \in tree'.filled \ tree.filled : q = <<>> \/ Before(cpath, q)
  /\ fdstack = <<>> => tree'.filled = tree.filled /\ EndRead'

(* If all that is new is counted as arrived and not behind, the reading    *)
(* loses nothing.                                                          *)
LEMMA ReadingStays ==
  ASSUME IInv, Covered, pc = "read", UNCHANGED output, NewCovers
  PROVE  ReadingCover'
<1>1. cpath' = cpath /\ log' = log /\ fdstack' = fdstack
  BY DEF output
<1>2. /\ arrived \subseteq Written \cup Filled \cup {<<>>}
      /\ \A q \in Filled : Before(cpath, q)
      /\ \A p \in tree.changed : IsPrefix(p, cpath) \/ NotPast(p)
      /\ fdstack = <<>> => Filled = {} /\ EndRead
  BY DEF Covered, ReadingCover, Reading
<1>3. cpath \in Paths /\ IsPrefix(<<>>, cpath)
  BY EmptyPrefix DEF IInv, OutputOk
<1>4. Written' = Written /\ \A p : NotPast(p)' <=> NotPast(p)
  BY <1>1 DEF Written, NotPast
<1>5. arrived' \subseteq Written' \cup Filled' \cup {<<>>}
  BY <1>2, <1>4 DEF NewCovers, Filled
<1>6. \A q \in Filled' : Before(cpath', q)
  BY <1>1, <1>2 DEF NewCovers, Filled
<1>7. \A p \in tree'.changed : IsPrefix(p, cpath') \/ NotPast(p)'
  BY <1>1, <1>2, <1>3, <1>4 DEF NewCovers
<1>8. fdstack' = <<>> => Filled' = {} /\ EndRead'
  BY <1>1, <1>2 DEF NewCovers, Filled
<1> QED
  BY <1>5, <1>6, <1>7, <1>8 DEF ReadingCover

(* The sources that were not begun stay so.                                *)
LEMMA KindsStay ==
  ASSUME InputOk, KindsOk, Read, number' = (IF pc' = "last" THEN 0 ELSE 1)
  PROVE  /\ KindsOk'
         /\ in # <<>> /\ Current.kind # "lists"
         /\ in' = Tail(in) /\ in' # <<>> => Fresh(Current')
<1>1. /\ in # <<>> /\ pc = "read" /\ in \in Seq(Opens)
      /\ \/ /\ Len(in') = Len(in) /\ in'[1].kind = in[1].kind /\ pc' # "last"
            /\ \A i \in 2 .. Len(in) : in'[i] = in[i]
         \/ in' = Tail(in) /\ pc' = (IF Len(in) = 1 THEN "last" ELSE "read")
  BY RestKept
<1>2. Len(in) \in Nat \ {0}
  BY <1>1, EmptySeq
<1>3. Current.kind # "lists"
  BY <1>2 DEF KindsOk, Current
<1>4. \A i \in 2 .. Len(in) : Fresh(in[i])
  BY DEF KindsOk
<1>5. CASE /\ Len(in') = Len(in) /\ in'[1].kind = in[1].kind /\ pc' # "last"
           /\ \A i \in 2 .. Len(in) : in'[i] = in[i]
  <2>1. \A i \in 1 .. Len(in) : in'[i].kind = in[i].kind
    BY <1>2, <1>5
  <2>2. \A i \in 2 .. Len(in') : Fresh(in'[i])
    BY <1>4, <1>5
  <2>3. KindsOk'
    <3>1. \A i \in 1 .. Len(in') : in'[i].kind # "lists"
      BY <1>5, <2>1 DEF KindsOk
    <3>2. number' # 0
      BY <1>5
    <3> QED
      BY <2>2, <3>1, <3>2 DEF KindsOk, Fresh, Pends, PendsAt
  <2>4. in' # Tail(in)
    BY <1>1, <1>2, <1>5
  <2> QED
    BY <1>1, <1>3, <2>3, <2>4
<1>6. CASE in' = Tail(in) /\ pc' = (IF Len(in) = 1 THEN "last" ELSE "read")
  <2>1. Len(in') = Len(in) - 1 /\ \A i \in 1 .. Len(in) - 1 : in'[i] = in[i + 1]
    BY <1>1, <1>6
  <2>2. \A i \in 1 .. Len(in') : in'[i].kind # "lists" /\ Fresh(in'[i])
    <3> TAKE i \in 1 .. Len(in')
    <3>1. i + 1 \in 2 .. Len(in) /\ i + 1 \in 1 .. Len(in) /\ in'[i] = in[i + 1]
      BY <1>2, <2>1
    <3> QED
      BY <1>4, <3>1 DEF KindsOk
  <2>3. in' \in Seq(Opens)
    BY <1>1, <1>6
  <2>4. Len(in) = 1 => in' = <<>>
    BY <2>1, <2>3, EmptySeq
  <2>5. KindsOk'
    <3>1. \A i \in 2 .. Len(in') : i \in 1 .. Len(in')
      BY <1>2, <2>1
    <3>2. pc' \in {"last", "write"} /\ number' = 0 => in' = <<>>
      BY <1>6, <2>4
    <3>3. /\ \A i \in 1 .. Len(in') : in'[i].kind # "lists"
          /\ \A i \in 2 .. Len(in') : Fresh(in'[i])
          /\ pc' \in {"last", "write"} /\ number' = 0 => in' = <<>>
      BY <2>2, <3>1, <3>2
    <3> QED
      BY <3>3 DEF KindsOk, Fresh, Pends, PendsAt
  <2>6. in' # <<>> => 1 \in 1 .. Len(in')
    BY <2>3, EmptySeq
  <2> QED
    BY <1>1, <1>3, <2>2, <2>5, <2>6 DEF Current
<1> QED
  BY <1>1, <1>5, <1>6

(* As long as nothing was written.                                         *)
LEMMA FirstNew ==
  ASSUME log = <<>>, cpath = <<>>, fdstack # <<>>, TreeOk(tree'),
         tree.filled \subseteq tree'.filled, arrived' \subseteq arrived \cup tree'.filled
  PROVE  NewCovers
<1>1. tree'.changed \subseteq Paths /\ tree'.filled \subseteq Paths
  BY DEF TreeOk, Trees
<1>2. \A p \in Paths : NotPast(p) /\ (p = <<>> \/ Before(cpath, p))
  BY FirstIsLater
<1> QED
  BY <1>1, <1>2 DEF NewCovers

(* Reading what is not sorted, nothing is written and nothing freed yet.   *)
LEMMA UnsortedStart ==
  ASSUME IInv, Covered, ~sorted, pc = "read"
  PROVE  /\ log = <<>> /\ cpath = <<>> /\ fdstack # <<>> /\ MarksOk(tree)
         /\ in # <<>> => SourceMarks(Current, tree)
BY DEF IInv, UnsortedOk, Reading, Covered, UnsortedMarks

(* The same tree, or one whose root was marked.                            *)
LEMMA RootNew ==
  ASSUME IInv, Covered, pc = "read", tree'.filled = tree.filled,
         tree'.changed \subseteq tree.changed \cup {<<>>}, arrived' = arrived,
         fdstack = <<>> => EndRead'
  PROVE  NewCovers
BY DEF NewCovers

(* A step of the reading that adds nothing behind the output loses         *)
(* nothing.                                                                *)
LEMMA ReadCovered ==
  ASSUME IInv, Covered, Read, UNCHANGED output, number' = (IF pc' = "last" THEN 0 ELSE 1),
         NewCovers,
         ~sorted => MarksOk(tree') /\ (in' # <<>> => SourceMarks(Current', tree')),
         <<>> \in tree'.sorting => in' # <<>> /\ RootRead(Current'),
         Filled' # {} => <<>> \in tree'.changed \cup tree'.sorting
  PROVE  Covered'
<1>1. InputOk /\ KindsOk /\ pc = "read"
  <2>1. InputOk /\ KindsOk
    BY DEF IInv, Covered
  <2> QED
    BY <2>1, RestKept
<1>2. KindsOk'
  BY <1>1, KindsStay
<1>3. pc' \in {"read", "last", "write"} /\ sorted' = sorted
  BY <1>1, ReadDoes DEF InputStays
<1>4. fdstack' = fdstack /\ cpath' = cpath /\ closed' = closed /\ level' = level
  BY DEF output
<1>5. ~sorted => fdstack # <<>>
  BY <1>1, UnsortedStart
<1>6. UnsortedMarks'
  BY <1>3, <1>4, <1>5 DEF UnsortedMarks, SourceMarks, Pends, PendsAt
<1>7. RootOk'
  BY DEF RootOk, RootRead
<1>8. ReadingCover'
  BY <1>1, ReadingStays
<1>9. VisitCover' /\ FreeCover' /\ EndCover'
  BY <1>3 DEF VisitCover, FreeCover, EndCover
<1>10. ClosedOk'
  BY <1>4 DEF Covered, ClosedOk
<1> QED
  BY <1>2, <1>6, <1>7, <1>8, <1>9, <1>10 DEF Covered

(* The marks of a directory that is opened or left.                         *)
LEMMA DirChanged ==
  ASSUME NEW t, TreeOk(t), NEW p \in Paths
  PROVE  /\ Set(Set(Get(t, p), "sorting", p), "changed", <<>>).changed = t.changed \cup {<<>>}
         /\ Unset(Set(Get(t, p), "changed", <<>>), "sorting", p).changed = t.changed \cup {<<>>}
<1> DEFINE g == Get(t, p)
<1>1. TreeOk(g) /\ g.changed = t.changed /\ p \in g.node
  BY GetOk
<1> HIDE DEF g
<1> DEFINE s == Set(g, "sorting", p)
           c == Set(g, "changed", <<>>)
<1>2. TreeOk(s) /\ s.changed = g.changed /\ TreeOk(c) /\ c.changed = g.changed \cup {<<>>}
  BY <1>1, SortingSet, RootChanged
<1> HIDE DEF s, c
<1>3. Set(s, "changed", <<>>).changed = s.changed \cup {<<>>}
  BY <1>2, RootChanged
<1>4. Unset(c, "sorting", p).changed = c.changed
  BY <1>2, SortingUnset
<1> QED
  BY <1>1, <1>2, <1>3, <1>4 DEF g, s, c

(* What is below a directory stays pending when it is opened or ends.       *)
LEMMA PendingKept ==
  ASSUME InputOk, in # <<>>, OpenDir \/ PauseDir \/ EndDir
  PROVE  in'[1].pending = Current.pending
<1>1. Current \in Opens /\ Current = in[1] /\ in \in Seq(Opens) /\ 1 \in DOMAIN in
  BY CurrentIs, EmptySeq DEF InputOk
<1>2. in[1].pending = [in[1] EXCEPT !.step = "open"].pending
  BY <1>1 DEF Opens
<1>3. CASE in' = [in EXCEPT ![1].step = "open"]
  BY <1>1, <1>3 DEF Opens
<1>4. CASE in' = [in EXCEPT ![1].step = "read", ![1].left = {}]
  BY <1>1, <1>4 DEF Opens
<1>5. CASE in' = [in EXCEPT ![1].step = "notread"]
  BY <1>1, <1>5 DEF Opens
<1>6. CASE in' = [in EXCEPT ![1].step = "read"]
  BY <1>1, <1>6 DEF Opens
<1> QED
  BY <1>3, <1>4, <1>5, <1>6 DEF OpenDir, PauseDir, EndDir

(* The base of a file system.                                              *)
LEMMA BaseCovers ==
  ASSUME IInv, Covered, Read, ReadBase, UNCHANGED output,
         number' = (IF pc' = "last" THEN 0 ELSE 1)
  PROVE  Covered'
<1>1. /\ InputOk /\ TreeOk(tree) /\ MarksOk(tree) /\ KindsOk /\ RootOk /\ Current.base \in Paths
      /\ sorted => FsOk
  <2>1. in # <<>>
    BY DEF ReadBase, Is
  <2> QED
    BY <2>1, CoverStart, CurrentIs DEF Covered
<1>2. /\ InputStays /\ in # <<>> /\ pc = "read" /\ Current.step = "init" /\ Current.kind = "fs"
      /\ \/ /\ tree' = Fill(Set(tree, "changed", <<>>), Current.base)
            /\ Len(in') = Len(in) /\ in'[1].kind = "fs"
            /\ \/ /\ in'[1].step = "read" /\ Pends(in'[1]) = {}
               \/ /\ in'[1].step = "notread" /\ in'[1].dir = Current.base
                  /\ Pends(in'[1]) = Pends(Current)
         \/ /\ tree' = Get(Set(tree, "changed", <<>>), Current.base)
            /\ in' = Tail(in)
  BY <1>1, ReadBaseDoes
<1>3. \/ arrived' = arrived
      \/ /\ tree' = Fill(Set(tree, "changed", <<>>), Current.base)
         /\ arrived' = arrived \cup {Current.base}
  BY DEF ReadBase
<1>4. \/ /\ tree' = Fill(Set(tree, "changed", <<>>), Current.base)
         /\ tree'.filled = tree.filled \cup {Current.base} /\ <<>> \in tree'.changed
         /\ Current.base \in tree'.changed \cup {<<>>}
      \/ tree' = Get(Set(tree, "changed", <<>>), Current.base) /\ tree'.filled = tree.filled
  BY <1>1, <1>2, BaseFilled, BaseMade
<1>5. /\ MarksOk(tree') /\ TreeOk(tree') /\ tree'.sorting = tree.sorting
      /\ tree.changed \subseteq tree'.changed
  BY <1>1, <1>2, BaseFilled, BaseMade DEF Grown
<1>6. tree.filled \subseteq tree'.filled /\ arrived' \subseteq arrived \cup tree'.filled
  <2>1. tree' = Fill(Set(tree, "changed", <<>>), Current.base) =>
            tree'.filled = tree.filled \cup {Current.base}
    BY <1>1, BaseFilled
  <2> QED
    BY <1>3, <1>4, <2>1
<1>7. log = <<>> /\ cpath = <<>> /\ fdstack # <<>>
  <2>1. CASE ~sorted
    BY <1>2, <2>1, UnsortedStart
  <2>2. CASE sorted
    <3>1. log = <<>> /\ cpath = <<>>
      BY <1>1, <1>2, <2>2 DEF FsOk
    <3>2. fdstack # <<>>
      BY <1>2 DEF Covered, ReadingCover, Reading, EndRead
    <3> QED
      BY <3>1, <3>2
  <2> QED
    BY <2>1, <2>2
<1>8. NewCovers
  BY <1>5, <1>6, <1>7, FirstNew
<1>9. <<>> \notin tree'.sorting
  BY <1>1, <1>2, <1>5 DEF RootOk, RootRead
<1>10. Filled' # {} => <<>> \in tree'.changed \cup tree'.sorting
  <2>1. tree'.filled = tree.filled => Filled' = Filled
    BY DEF Filled
  <2> QED
    BY <1>1, <1>4, <1>5, <2>1 DEF RootOk
<1>11. ASSUME ~sorted, in' # <<>> PROVE SourceMarks(Current', tree')
  <2>1. Current' = in'[1]
    BY DEF Current
  <2>2. Pends(Current) \subseteq tree'.changed
    BY <1>2, <1>5, <1>11, UnsortedStart DEF SourceMarks
  <2>3. CASE in' = Tail(in)
    <3>1. Fresh(Current')
      BY <1>1, <1>11, <2>3, KindsStay
    <3> QED
      BY <3>1 DEF Fresh, SourceMarks
  <2>4. CASE in'[1].step = "read" /\ Pends(in'[1]) = {}
    BY <2>1, <2>4 DEF SourceMarks
  <2>5. CASE /\ tree' = Fill(Set(tree, "changed", <<>>), Current.base)
             /\ in'[1].step = "notread" /\ in'[1].dir = Current.base
             /\ Pends(in'[1]) = Pends(Current)
    <3>1. Current.base \in tree'.changed \cup {<<>>}
      BY <1>1, <2>5, BaseFilled
    <3> QED
      BY <2>1, <2>2, <2>5, <3>1 DEF SourceMarks
  <2> QED
    BY <1>2, <2>3, <2>4, <2>5
<1> QED
  BY <1>5, <1>8, <1>9, <1>10, <1>11, ReadCovered

(* Opening a directory.                                                    *)
LEMMA OpenCovers ==
  ASSUME IInv, Covered, Read, OpenDir, UNCHANGED output,
         number' = (IF pc' = "last" THEN 0 ELSE 1)
  PROVE  Covered'
<1>1. /\ InputOk /\ TreeOk(tree) /\ MarksOk(tree) /\ RootOk
  BY CoverStart DEF Covered
<1>2. /\ InputStays /\ in # <<>> /\ pc = "read" /\ Current.step = "notread" /\ Current.kind = "fs"
      /\ tree' = Set(Set(Get(tree, Current.dir), "sorting", Current.dir), "changed", <<>>)
      /\ Len(in') = Len(in) /\ in'[1].kind = "fs" /\ in'[1].step \in {"open", "read"}
      /\ in'[1].dir = Current.dir /\ Pends(in'[1]) = Pends(Current)
  BY <1>1, OpenDirDoes
<1>3. Current.dir \in Paths /\ SourceOk(Current) /\ in'[1].pending = Current.pending
  BY <1>1, <1>2, CurrentIs, PendingKept
<1>4. /\ tree'.filled = tree.filled /\ tree'.sorting = tree.sorting \cup {Current.dir}
      /\ <<>> \in tree'.changed /\ tree.changed \subseteq tree'.changed
      /\ MarksOk(tree) /\ Current.dir \in tree.changed \cup {<<>>} => MarksOk(tree')
      /\ tree'.changed = tree.changed \cup {<<>>}
  BY <1>1, <1>2, <1>3, DirMarked, DirChanged DEF Grown
<1>5. Current' = in'[1] /\ in' # <<>>
  <2>1. Len(in) \in Nat \ {0}
    BY <1>1, <1>2, RestKept, EmptySeq
  <2> QED
    BY <1>2, <2>1, Len(<<>>) = 0 DEF Current
<1>6. fdstack # <<>>
  BY <1>2 DEF Covered, ReadingCover, Reading, EndRead
<1>7. arrived' = arrived
  BY DEF OpenDir
<1>8. NewCovers
  BY <1>2, <1>4, <1>6, <1>7, RootNew
<1>9. <<>> \in tree'.sorting => RootRead(Current')
  <2>1. <<>> \in tree'.sorting => Current.dir = <<>>
    BY <1>1, <1>4 DEF RootOk, RootRead
  <2>2. Current.pending # <<>>
    BY <1>2, <1>3 DEF SourceOk
  <2> QED
    BY <1>2, <1>3, <1>5, <2>1, <2>2 DEF RootRead
<1>10. ASSUME ~sorted PROVE MarksOk(tree') /\ SourceMarks(Current', tree')
  <2>1. Pends(Current) \subseteq tree.changed /\ Current.dir \in tree.changed \cup {<<>>}
    BY <1>2, <1>10, UnsortedStart DEF SourceMarks
  <2> QED
    BY <1>1, <1>2, <1>4, <1>5, <2>1 DEF SourceMarks
<1> QED
  BY <1>4, <1>5, <1>8, <1>9, <1>10, ReadCovered

(* A directory that ends, or that is left for now.                          *)
LEMMA PauseCovers ==
  ASSUME IInv, Covered, Read, PauseDir \/ EndDir, UNCHANGED output,
         number' = (IF pc' = "last" THEN 0 ELSE 1)
  PROVE  Covered'
<1>1. /\ InputOk /\ TreeOk(tree) /\ MarksOk(tree) /\ RootOk
  BY CoverStart DEF Covered
<1>2. /\ InputStays /\ in # <<>> /\ pc = "read" /\ Current.step = "open" /\ Current.kind = "fs"
      /\ tree' = tree
      /\ Len(in') = Len(in) /\ in'[1].kind = "fs" /\ in'[1].step \in {"notread", "read"}
      /\ in'[1].dir = Current.dir /\ Pends(in'[1]) = Pends(Current)
  BY <1>1, PauseDirDoes, EndDirDoes
<1>3. Current.dir \in Paths /\ SourceOk(Current) /\ in'[1].pending = Current.pending
  BY <1>1, <1>2, CurrentIs, PendingKept
<1>5. Current' = in'[1] /\ in' # <<>>
  <2>1. Len(in) \in Nat \ {0}
    BY <1>1, <1>2, RestKept, EmptySeq
  <2> QED
    BY <1>2, <2>1, Len(<<>>) = 0 DEF Current
<1>6. fdstack # <<>>
  BY <1>2 DEF Covered, ReadingCover, Reading, EndRead
<1>7. arrived' = arrived
  BY DEF PauseDir, EndDir
<1>8. NewCovers
  BY <1>2, <1>6, <1>7, RootNew
<1>9. <<>> \in tree'.sorting => RootRead(Current')
  BY <1>1, <1>2, <1>3, <1>5 DEF RootOk, RootRead
<1>10. ASSUME ~sorted PROVE MarksOk(tree') /\ SourceMarks(Current', tree')
  <2>1. Pends(Current) \subseteq tree.changed /\ Current.dir \in tree.changed \cup {<<>>}
    BY <1>2, <1>10, UnsortedStart DEF SourceMarks
  <2> QED
    BY <1>1, <1>2, <1>5, <2>1 DEF SourceMarks
<1>11. Filled' # {} => <<>> \in tree'.changed \cup tree'.sorting
  BY <1>1, <1>2 DEF RootOk, Filled
<1> QED
  BY <1>5, <1>8, <1>9, <1>10, <1>11, ReadCovered

(* Reading an entry.                                                       *)
LEMMA EntryCovers ==
  ASSUME IInv, Covered, Read, ReadEntry, UNCHANGED output,
         number' = (IF pc' = "last" THEN 0 ELSE 1)
  PROVE  Covered'
<1>1. /\ InputOk /\ TreeOk(tree) /\ MarksOk(tree) /\ RootOk /\ cpath \in Paths
      /\ sorted => FsOk /\ RoundOk
  BY CoverStart DEF Covered
<1>2. /\ InputStays /\ in # <<>> /\ pc = "read" /\ Current.step = "open" /\ Current.kind = "fs"
      /\ Len(in') = Len(in) /\ in'[1].kind = "fs" /\ in'[1].step = "open"
      /\ in'[1].dir = Current.dir
  BY <1>1, ReadEntryDoes
<1> DEFINE E(n) == Append(Current.dir, n)
<1>3. Current.dir \in Paths
  BY <1>1, <1>2, CurrentIs
<1>4. PICK n \in Names :
        \/ /\ tree' = Set(Fill(tree, E(n)), "sorting", E(n))
           /\ Pends(in'[1]) \subseteq Pends(Current) \cup {E(n)}
        \/ /\ tree' = Fill(tree, E(n))
           /\ Pends(in'[1]) = Pends(Current)
  BY <1>1, ReadEntryDoes
<1> DEFINE p == E(n)
<1>5. p \in Paths /\ p # <<>>
  BY <1>3, AppendIs DEF Names
<1>6. Prefixes(p) \subseteq Prefixes(Current.dir) \cup {p}
  BY <1>3, PrefixesOfAppend
<1> HIDE DEF E
<1>7. /\ tree'.filled = tree.filled \cup {p} /\ MarksOk(tree') /\ TreeOk(tree')
      /\ tree.changed \subseteq tree'.changed /\ tree'.changed \subseteq tree.changed \cup Prefixes(p)
      /\ tree.sorting \subseteq tree'.sorting /\ tree'.sorting \subseteq tree.sorting \cup {p}
      /\ p \in tree'.changed
  <2> HIDE DEF p
  <2> DEFINE f == Fill(tree, p)
  <2>1. /\ TreeOk(f) /\ p \in f.node /\ f.filled = tree.filled \cup {p}
        /\ f.changed = tree.changed \cup Unmarked(tree, p) /\ f.sorting = tree.sorting
        /\ MarksOk(f) /\ p \in f.changed \cup {<<>>}
    BY <1>1, <1>5, FillOk, FillMarks
  <2>2. Unmarked(tree, p) \subseteq Prefixes(p)
    BY DEF Unmarked
  <2>3. CASE tree' = f
    BY <1>5, <2>1, <2>2, <2>3
  <2>4. CASE tree' = Set(f, "sorting", p)
    <3> HIDE DEF f
    <3>1. /\ TreeOk(tree') /\ tree'.filled = f.filled /\ tree'.changed = f.changed
          /\ tree'.sorting = f.sorting \cup {p}
      BY <2>1, <2>4, SortingSet
    <3>2. MarksOk(tree')
      BY <1>5, <2>1, <3>1 DEF MarksOk
    <3> QED
      BY <1>5, <2>1, <2>2, <3>1, <3>2
  <2> QED
    BY <1>4, <2>3, <2>4 DEF p
<1>8. Current' = in'[1] /\ in' # <<>>
  <2>1. Len(in) \in Nat \ {0}
    BY <1>1, <1>2, RestKept, EmptySeq
  <2> QED
    BY <1>2, <2>1, Len(<<>>) = 0 DEF Current
<1>9. <<>> \in tree.changed
  BY <1>1, <1>2, UnsortedStart DEF FsOk, SourceMarks
<1>10. arrived' \subseteq arrived \cup tree'.filled
  <2>1. PICK m : LET q == Append(Current.dir, m)
                 IN  /\ arrived' = arrived \cup {q}
                     /\ \/ tree' = Set(Fill(tree, q), "sorting", q)
                        \/ tree' = Fill(tree, q)
                     /\ m \in Current.left
    BY DEF ReadEntry
  <2> DEFINE q == Append(Current.dir, m)
  <2>2. q \in Paths
    BY <1>1, <1>2, <1>3, <2>1, CurrentIs, AppendIs DEF Names
  <2>3. q \in tree'.filled
    <3> HIDE DEF q
    <3>1. TreeOk(Fill(tree, q)) /\ q \in Fill(tree, q).node /\ Fill(tree, q).filled = tree.filled \cup {q}
      BY <1>1, <2>2, FillOk
    <3>2. Set(Fill(tree, q), "sorting", q).filled = Fill(tree, q).filled
      BY <3>1, SortingSet
    <3> QED
      BY <2>1, <3>1, <3>2 DEF q
  <2> QED
    BY <2>1, <2>3
<1>11. NewCovers
  <2>1. CASE ~sorted
    BY <1>2, <1>7, <1>10, <2>1, UnsortedStart, FirstNew
  <2>2. CASE sorted
    <3>1. Current.dir \in tree.sorting /\ Ahead(Current.dir) /\ NotPast(Current.dir)
      BY <1>1, <1>2, <2>2 DEF FsOk, RoundOk, Reading
    <3>2. Before(cpath, p) /\ NotPast(p)
      <4>1. log \in Seq(Written1)
        BY DEF IInv, OutputOk
      <4>2. Before(cpath, Append(Current.dir, n)) /\ NotPast(Append(Current.dir, n))
        BY <1>1, <1>3, <3>1, <4>1, EntryAhead
      <4> QED
        BY <4>2 DEF p, E
    <3>3. Prefixes(Current.dir) \subseteq tree.changed \cup {<<>>}
      BY <3>1, CoverStart
    <3>4. \A r \in tree'.changed \ tree.changed : r = <<>> \/ NotPast(r)
      BY <1>6, <1>7, <3>2, <3>3
    <3>5. fdstack # <<>>
      BY <1>2 DEF Covered, ReadingCover, Reading, EndRead
    <3> HIDE DEF p
    <3> QED
      BY <1>7, <1>10, <3>2, <3>4, <3>5 DEF NewCovers
  <2> QED
    BY <2>1, <2>2
<1>12. <<>> \in tree'.sorting => RootRead(Current')
  <2>1. <<>> \in tree'.sorting => Current.dir = <<>>
    BY <1>1, <1>5, <1>7 DEF RootOk, RootRead
  <2>2. SourceOk(in'[1])
    <3>1. Len(in) \in Nat \ {0}
      BY <1>1, <1>2, RestKept, EmptySeq
    <3> QED
      BY <1>2, <3>1 DEF InputStays, SourcesOk
  <2> QED
    BY <1>2, <1>8, <2>1, <2>2 DEF RootRead, SourceOk
<1>13. ASSUME ~sorted PROVE SourceMarks(Current', tree')
  <2>1. Pends(Current) \subseteq tree.changed /\ Current.dir \in tree.changed \cup {<<>>}
    BY <1>2, <1>13, UnsortedStart DEF SourceMarks
  <2>2. Pends(in'[1]) \subseteq tree'.changed
    BY <1>4, <1>7, <2>1
  <2> QED
    BY <1>2, <1>7, <1>8, <1>9, <2>1, <2>2 DEF SourceMarks
<1> QED
  BY <1>7, <1>8, <1>9, <1>11, <1>12, <1>13, ReadCovered

(* The end of the reading, in the state after a step.                      *)
LEMMA EndReadIs ==
  EndRead' <=> in' = <<>> \/ (in'[1].step = "read" /\ Pends(in'[1]) = {})
BY DEF EndRead, Current

(* Going on to the next directory.                                         *)
LEMMA NextCovers ==
  ASSUME IInv, Covered, Read, NextDir, UNCHANGED output,
         number' = (IF pc' = "last" THEN 0 ELSE 1)
  PROVE  Covered'
<1>1. /\ InputOk /\ TreeOk(tree) /\ MarksOk(tree) /\ RootOk
      /\ sorted => FsOk
  BY CoverStart DEF Covered
<1>2. /\ in # <<>> /\ pc = "read" /\ Current.step = "read"
      /\ Current.dir \in Paths
      /\ tree' = Unset(Set(Get(tree, Current.dir), "changed", <<>>), "sorting", Current.dir)
      /\ Len(in') = Len(in) /\ in'[1].kind = Current.kind
      /\ \/ /\ in'[1].step = "notread"
            /\ in'[1].dir \in Pends(Current)
            /\ Pends(in'[1]) \subseteq Pends(Current) \ {in'[1].dir}
         \/ /\ in'[1].step = "read"
            /\ Pends(in'[1]) \subseteq Pends(Current)
  BY <1>1, NextDirDoes
<1>3. /\ tree'.filled = tree.filled /\ tree'.sorting = tree.sorting \ {Current.dir}
      /\ <<>> \in tree'.changed /\ MarksOk(tree')
      /\ tree'.changed = tree.changed \cup {<<>>}
  BY <1>1, <1>2, DirUnmarked, DirChanged
<1>4. Current' = in'[1] /\ in' # <<>>
  <2>1. Len(in) \in Nat \ {0}
    BY <1>1, <1>2, RestKept, EmptySeq
  <2> QED
    BY <1>2, <2>1, Len(<<>>) = 0 DEF Current
<1>5. <<>> \notin tree'.sorting
  BY <1>1, <1>3 DEF RootOk, RootRead
<1>6. fdstack = <<>> => EndRead'
  <2>1. fdstack = <<>> => Pends(Current) = {}
    BY <1>2 DEF Covered, ReadingCover, Reading, EndRead
  <2>2. Pends(Current) = {} => in'[1].step = "read" /\ Pends(in'[1]) = {}
    BY <1>2
  <2> QED
    BY <2>1, <2>2, EndReadIs
<1>7. arrived' = arrived
  BY DEF NextDir
<1>8. NewCovers
  BY <1>2, <1>3, <1>6, <1>7, RootNew
<1>9. ASSUME ~sorted PROVE SourceMarks(Current', tree')
  <2>1. Current.kind = "fs" => Pends(Current) \subseteq tree.changed
    BY <1>2, <1>9, UnsortedStart DEF SourceMarks
  <2> QED
    BY <1>2, <1>3, <1>4, <2>1 DEF SourceMarks
<1> QED
  BY <1>3, <1>4, <1>5, <1>8, <1>9, ReadCovered

(* The source gives nothing more, or enough.                               *)
LEMMA ReturnCovers ==
  ASSUME IInv, Covered, Read, EndSource \/ Enough, UNCHANGED output,
         number' = (IF pc' = "last" THEN 0 ELSE 1)
  PROVE  Covered'
<1>1. /\ InputOk /\ TreeOk(tree) /\ MarksOk(tree) /\ RootOk /\ KindsOk
      /\ sorted => FsOk
  BY CoverStart DEF Covered
<1>2. /\ in # <<>> /\ pc = "read" /\ tree' = tree /\ arrived' = arrived
      /\ in' = in \/ in' = Tail(in)
      /\ (Current.step = "read" /\ Current.pending = <<>>) \/ Current.kind # "fs"
  BY DEF EndSource, Enough, Return
<1>3. in \in Seq(Opens) /\ Len(in) \in Nat \ {0}
  BY <1>1, <1>2, RestKept, EmptySeq
<1>4. <<>> \notin tree.sorting
  BY <1>1, <1>2 DEF RootOk, RootRead
<1>5. fdstack = <<>> => EndRead'
  <2> SUFFICES ASSUME fdstack = <<>> PROVE EndRead'
    OBVIOUS
  <2>1. sorted /\ EndRead
    BY <1>2, UnsortedStart DEF Covered, ReadingCover, Reading
  <2>2. CASE in' = in
    BY <2>1, <2>2, EndReadIs DEF EndRead, Current
  <2>3. CASE in' = Tail(in)
    <3>4. Len(in) <= 1
      BY <1>1, <2>1 DEF FsOk
    <3>5. \A n \in Nat \ {0} : n <= 1 => n = 1
      OBVIOUS
    <3>1. Len(in) = 1
      BY ONLY <1>3, <3>4, <3>5
    <3>2. Tail(in) \in Seq(Opens) /\ Len(Tail(in)) = 0
      BY <1>2, <1>3, <3>1
    <3>3. Tail(in) = <<>>
      BY <3>2, EmptySeq
    <3> QED
      BY <2>3, <3>3 DEF EndRead
  <2> QED
    BY <1>2, <2>2, <2>3
<1>6. NewCovers
  BY <1>2, <1>5, RootNew
<1>7. ASSUME ~sorted, in' # <<>> PROVE SourceMarks(Current', tree')
  <2>1. CASE in' = in
    <3>1. Current' = Current
      BY <2>1 DEF Current
    <3> QED
      BY <1>2, <1>7, <3>1, UnsortedStart
  <2>2. CASE in' = Tail(in)
    <3>1. Fresh(Current')
      BY <1>1, <1>7, <2>2, KindsStay
    <3> QED
      BY <3>1 DEF Fresh, SourceMarks
  <2> QED
    BY <1>2, <2>1, <2>2
<1>8. Filled' # {} => <<>> \in tree'.changed \cup tree'.sorting
  BY <1>1, <1>2 DEF RootOk, Filled
<1> QED
  BY <1>1, <1>2, <1>4, <1>6, <1>7, <1>8, ReadCovered

(* Reading lines of a list.                                                *)
LEMMA LinesCover ==
  ASSUME IInv, Covered, Read, ReadLines, UNCHANGED output,
         number' = (IF pc' = "last" THEN 0 ELSE 1)
  PROVE  Covered'
<1>1. /\ InputOk /\ TreeOk(tree) /\ MarksOk(tree) /\ RootOk
      /\ sorted => FsOk
  BY CoverStart DEF Covered
<1>2. /\ InputStays /\ in # <<>> /\ Current.kind # "fs"
      /\ Len(in') = Len(in) /\ in'[1].kind = Current.kind
      /\ tree'.sorting = tree.sorting /\ <<>> \in tree'.changed
      /\ MarksOk(tree) => MarksOk(tree')
  BY <1>1, ReadLinesDoes
<1>3. \E T \in SUBSET (Paths \ {<<>>}) :
           tree'.filled = tree.filled \cup T /\ arrived' = arrived \cup T
  BY <1>1, ReadLinesDoes
<1>4. tree.filled \subseteq tree'.filled /\ arrived' \subseteq arrived \cup tree'.filled
  BY <1>3
<1>5. ~sorted /\ pc = "read"
  BY <1>1, <1>2, RestKept DEF FsOk
<1>6. NewCovers
  BY <1>2, <1>4, <1>5, UnsortedStart, FirstNew DEF InputStays
<1>7. <<>> \notin tree'.sorting
  BY <1>1, <1>2 DEF RootOk, RootRead
<1>8. SourceMarks(Current', tree')
  BY <1>2 DEF SourceMarks, Current
<1> QED
  BY <1>1, <1>2, <1>6, <1>7, <1>8, ReadCovered

(* The reading loses nothing.                                              *)
LEMMA FetchCovers == ASSUME IInv, Covered, Fetch PROVE Covered'
<1>1. Read /\ UNCHANGED output /\ number' = (IF pc' = "last" THEN 0 ELSE 1)
  BY DEF Fetch
<1>2. ~NextList
  BY <1>1, KindsStay DEF NextList, Is, Covered, IInv
<1> QED
  BY <1>1, <1>2, BaseCovers, OpenCovers, PauseCovers, EntryCovers, NextCovers, ReturnCovers,
     LinesCover DEF Read

(* The output leaves the sources and the marks as they are.                 *)
LEMMA OthersStay ==
  ASSUME Covered, UNCHANGED <<in, sorted, number>>,
         tree'.filled = tree.filled, tree'.changed = tree.changed, tree'.sorting = tree.sorting,
         pc' \notin {"last", "write"} \/ in = <<>>,
         ~sorted /\ (Reading' \/ (pc' = "free" /\ number = 1)) => fdstack' # <<>>
  PROVE  KindsOk' /\ UnsortedMarks' /\ RootOk'
<1>1. Current' = Current /\ in' = in /\ number' = number /\ sorted' = sorted
  BY DEF Current
<1>2. Filled' = Filled
  BY DEF Filled
<1>3. KindsOk'
  <2>1. /\ \A i \in 1 .. Len(in) : in[i].kind # "lists"
        /\ \A i \in 2 .. Len(in) : Fresh(in[i])
    BY DEF Covered, KindsOk
  <2>2. \A i \in 1 .. Len(in') : in'[i].kind # "lists"
    BY <1>1, <2>1
  <2>3. \A i \in 2 .. Len(in') : Fresh(in[i])
    BY <1>1, <2>1
  <2>4. \A i \in 2 .. Len(in') : Fresh(in'[i])
    BY <1>1, <2>3
  <2>5. pc' \in {"last", "write"} /\ number' = 0 => in' = <<>>
    BY <1>1
  <2> QED
    BY <2>2, <2>4, <2>5 DEF KindsOk, Fresh, Pends, PendsAt
<1>4. UnsortedMarks'
  <2> SUFFICES ASSUME ~sorted
               PROVE  /\ MarksOk(tree')
                      /\ in # <<>> => SourceMarks(Current, tree')
                      /\ Reading' \/ (pc' = "free" /\ number = 1) => fdstack' # <<>>
    BY <1>1 DEF UnsortedMarks, SourceMarks, MarksOk, Pends, PendsAt
  <2>1. MarksOk(tree) /\ (in # <<>> => SourceMarks(Current, tree))
    BY DEF Covered, UnsortedMarks
  <2> QED
    BY <2>1 DEF MarksOk, SourceMarks
<1>5. RootOk'
  BY <1>1, <1>2 DEF Covered, RootOk, RootRead
<1> QED
  BY <1>3, <1>4, <1>5

(* Nothing is looked at but a root of which nothing is known yet.           *)
LEMMA StartNothing ==
  ASSUME IInv, Covered, StartWrite, pc' = "free", fdstack # <<>>
  PROVE  /\ cpath = <<>>
         /\ ~HasSub(tree, <<>>) \/ <<>> \notin tree.changed \ tree.sorting
<1>1. /\ ~HasSub(tree, cpath) \/ cpath \notin tree.changed \ tree.sorting
      /\ pc = "write"
  BY StartWriteDoes
<1>2. cpath \in Paths /\ (sorted => RoundOk) /\ (~sorted => UnsortedOk)
  BY CoverStart
<1>3. ASSUME cpath # <<>> PROVE FALSE
  <2>1. sorted
    BY <1>1, <1>2, <1>3 DEF UnsortedOk, Reading
  <2>2. /\ cpath \in tree.changed /\ HasSub(tree, cpath)
        /\ cpath \in tree.sorting => Ahead(cpath)
    BY <1>1, <1>2, <1>3, <2>1 DEF RoundOk, Reading
  <2>3. ~Before(cpath, cpath)
    BY <1>2, Irreflexive
  <2> QED
    BY <1>1, <1>3, <2>2, <2>3 DEF Ahead
<1> QED
  BY <1>1, <1>3

(* A node that is not the root is below it.                                *)
LEMMA FilledHasSub ==
  ASSUME TreeOk(tree), NEW p \in tree.node, p # <<>>
  PROVE  HasSub(tree, <<>>)
<1>1. p \in Paths
  BY DEF TreeOk, Trees
<1> QED
  BY <1>1, EmptyPrefix DEF HasSub, IsStrictPrefix

(* The beginning of a call: all that is to be written lies ahead.          *)
LEMMA StartCovers ==
  ASSUME IInv, Covered, StartWrite, UNCHANGED <<in, arrived>>
  PROVE  Covered'
<1>1. /\ cpath' = cpath /\ after' = 0 /\ tree' = Get(tree, cpath)
      /\ pc = "write" /\ pc' \in {"free", "visit"}
      /\ pc' = "visit" => fdstack # <<>>
      /\ UNCHANGED <<level, sorted, number, fdstack, closed, log>>
      /\ number = 0 \/ sorted
  BY StartWriteDoes DEF StartWrite
<1>2. /\ TreeOk(tree) /\ MarksOk(tree) /\ cpath \in Paths /\ OutputOk /\ KindsOk /\ RootOk
      /\ sorted => FsOk /\ RoundOk
  BY CoverStart DEF Covered
<1>3. /\ tree'.filled = tree.filled /\ tree'.changed = tree.changed
      /\ tree'.sorting = tree.sorting /\ TreeOk(tree')
  BY <1>1, <1>2, GetOk
<1>4. /\ arrived \subseteq Written \cup Filled \cup {<<>>}
      /\ \A q \in Filled : Before(cpath, q)
      /\ \A p \in tree.changed : IsPrefix(p, cpath) \/ NotPast(p)
      /\ fdstack = <<>> => Filled = {} /\ EndRead
  BY <1>1 DEF Covered, ReadingCover, Reading
<1>5. Filled' = Filled /\ Written' = Written
  BY <1>1, <1>3 DEF Filled, Written
<1>6. \A p : NotPast(p)' <=> NotPast(p)
  BY <1>1 DEF NotPast
<1>7. KindsOk' /\ UnsortedMarks' /\ RootOk'
  <2>1. ~sorted /\ (Reading' \/ (pc' = "free" /\ number = 1)) => fdstack' # <<>>
    BY <1>1 DEF Reading
  <2> QED
    BY <1>1, <1>3, <2>1, OthersStay
<1>8. ClosedOk'
  BY <1>1 DEF Covered, ClosedOk
<1>9. ReadingCover' /\ (pc' = "free" => VisitCover') /\ (pc' = "visit" => FreeCover' /\ EndCover')
  BY <1>1 DEF ReadingCover, VisitCover, FreeCover, EndCover, Reading
<1>10. ASSUME pc' = "visit" PROVE VisitCover'
  <2>1. Pos' = Append(cpath, 1)
    BY <1>1 DEF Pos
  <2>2. ASSUME NEW q \in Filled, Before(q, Pos') PROVE FALSE
    <3>1. q \in Paths /\ Before(cpath, q)
      BY <1>2, <1>4, CoverStart DEF Filled
    <3>2. q = cpath \/ Before(q, cpath)
      BY <1>2, <2>1, <2>2, <3>1, FirstBelow
    <3> QED
      BY <1>2, <3>1, <3>2, Transitive, Irreflexive
  <2>3. ASSUME NEW p \in tree.changed PROVE Before(p, Pos') \/ NotPast(p)'
    <3>1. CASE NotPast(p)
      BY <1>6, <3>1
    <3>2. CASE IsPrefix(p, cpath)
      <4>1. p \in Paths /\ Append(cpath, 1) \in Paths /\ Before(cpath, Append(cpath, 1))
        BY <1>2, CoverStart, AppendIs
      <4>2. p = cpath \/ Before(p, cpath)
        BY <1>2, <3>2, <4>1, PrefixBefore
      <4> QED
        BY <1>2, <2>1, <4>1, <4>2, Transitive
    <3> QED
      BY <1>4, <3>1, <3>2
  <2> QED
    BY <1>1, <1>3, <1>4, <1>5, <2>2, <2>3 DEF VisitCover
<1>11. ASSUME pc' = "free", number = 1 PROVE FreeCover'
  <2>1. sorted /\ Kept' = Freed(tree')
    BY <1>1, <1>11 DEF Kept
  <2>2. /\ MarksOk(tree') /\ Freed(tree').changed \subseteq tree'.changed
    <3>1. MarksOk(tree')
      BY <1>2, <1>3 DEF MarksOk
    <3> QED
      BY <1>3, <3>1, FreedIs
  <2>3. \A q \in Freed(tree').filled : q \in Filled
    BY <1>3, <2>2, FreedMarks DEF Filled
  <2>4. ASSUME fdstack # <<>> PROVE Freed(tree').filled = Filled
    <3>1. /\ cpath = <<>>
          /\ ~HasSub(tree, <<>>) \/ <<>> \notin tree.changed \ tree.sorting
      BY <1>11, <2>4, StartNothing
    <3>2. tree'.node = tree.node
      <4>1. tree'.node = tree.node \cup Prefixes(<<>>)
        BY <1>1, <1>2, <3>1 DEF Get, TreeOk, Trees
      <4> QED
        BY <1>2, <4>1, RootPrefixes DEF TreeOk
    <3>3. HasSub(tree', <<>>) <=> HasSub(tree, <<>>)
      BY <3>2 DEF HasSub
    <3> QED
      BY <1>3, <3>1, <3>3, FreedIs DEF Filled
  <2>5. arrived \subseteq Written \cup Freed(tree').filled \cup {<<>>}
    BY <1>4, <2>4
  <2>6. fdstack = <<>> => Freed(tree').filled \subseteq {<<>>} /\ EndRead'
    <3>1. EndRead' <=> EndRead
      BY DEF EndRead, Current, Pends, PendsAt
    <3> QED
      BY <1>4, <2>3, <3>1
  <2>7. \A p \in Freed(tree').changed : IsPrefix(p, cpath) \/ NotPast(p)'
    BY <1>3, <1>4, <1>6, <2>2
  <2> QED
    BY <1>1, <1>4, <1>5, <2>1, <2>3, <2>5, <2>6, <2>7 DEF FreeCover
<1>12. ASSUME pc' = "free", number = 0 PROVE EndCover'
  <2>1. in = <<>> /\ <<>> \notin tree.sorting
    BY <1>1, <1>2, <1>12 DEF KindsOk, RootOk
  <2>2. ASSUME Filled # {} PROVE FALSE
    <3>1. fdstack # <<>>
      BY <1>4, <2>2
    <3>2. ~HasSub(tree, <<>>) \/ <<>> \notin tree.changed \ tree.sorting
      BY <1>12, <3>1, StartNothing
    <3>3. HasSub(tree, <<>>)
      BY <1>2, <2>2, FilledHasSub DEF Filled, TreeOk
    <3> QED
      BY <1>2, <2>1, <2>2, <3>2, <3>3 DEF RootOk
  <2> QED
    BY <1>1, <1>4, <1>5, <1>12, <2>2 DEF EndCover
<1>13. number \in {0, 1} /\ number' = number
  BY <1>1, <1>2 DEF OutputOk
<1> QED
  BY <1>1, <1>7, <1>8, <1>9, <1>10, <1>11, <1>12, <1>13 DEF Covered, FreeCover, EndCover

(* Nothing is written yet, and nothing freed.                              *)
LEMMA PostponeCovers ==
  ASSUME IInv, Covered, Postpone, UNCHANGED <<in, arrived>>
  PROVE  Covered'
<1>1. /\ ~sorted /\ pc = "write" /\ pc' = "free" /\ number = 1
      /\ UNCHANGED <<tree, sorted, number>>
      /\ cpath' = cpath /\ fdstack' = fdstack /\ closed' = closed /\ log' = log /\ level' = level
  BY DEF Postpone, output, IInv, OutputOk
<1>2. fdstack # <<>>
  BY <1>1, UnsortedStart DEF Covered, UnsortedMarks, Reading
<1>3. KindsOk' /\ UnsortedMarks' /\ RootOk'
  BY <1>1, <1>2, OthersStay
<1>4. ClosedOk'
  BY <1>1 DEF Covered, ClosedOk
<1>5. /\ arrived \subseteq Written \cup Filled \cup {<<>>}
      /\ \A q \in Filled : Before(cpath, q)
      /\ \A p \in tree.changed : IsPrefix(p, cpath) \/ NotPast(p)
  BY <1>1 DEF Covered, ReadingCover, Reading
<1>6. Kept' = tree /\ Written' = Written /\ \A p : NotPast(p)' <=> NotPast(p)
  BY <1>1 DEF Kept, Written, NotPast
<1>7. FreeCover'
  BY <1>1, <1>2, <1>5, <1>6 DEF FreeCover, Filled
<1>8. ReadingCover' /\ VisitCover' /\ EndCover'
  BY <1>1 DEF ReadingCover, VisitCover, EndCover, Reading
<1> QED
  BY <1>3, <1>4, <1>7, <1>8 DEF Covered

(* The last call loses nothing.                                            *)
LEMMA LastCovers == ASSUME IInv, Covered, LastWrite PROVE Covered'
<1>1. /\ pc = "last" /\ pc' = "write" /\ number = 0
      /\ UNCHANGED <<tree, in, sorted, number, arrived>>
      /\ cpath' = cpath /\ fdstack' = fdstack /\ closed' = closed /\ log' = log /\ level' = level
  BY DEF LastWrite, input, output, IInv, OutputOk
<1>2. in = <<>>
  BY <1>1 DEF Covered, KindsOk
<1>3. ~sorted => fdstack # <<>>
  BY <1>1 DEF Covered, UnsortedMarks, Reading
<1>4. KindsOk' /\ UnsortedMarks' /\ RootOk'
  BY <1>1, <1>2, <1>3, OthersStay
<1>5. ClosedOk'
  BY <1>1 DEF Covered, ClosedOk
<1>6. /\ arrived \subseteq Written \cup Filled \cup {<<>>}
      /\ \A q \in Filled : Before(cpath, q)
      /\ \A p \in tree.changed : IsPrefix(p, cpath) \/ NotPast(p)
      /\ fdstack = <<>> => Filled = {}
  BY <1>1 DEF Covered, ReadingCover, Reading
<1>7. Filled' = Filled /\ Written' = Written /\ \A p : NotPast(p)' <=> NotPast(p)
  BY <1>1 DEF Filled, Written, NotPast
<1>8. EndRead'
  BY <1>1, <1>2 DEF EndRead
<1>9. ReadingCover'
  BY <1>1, <1>6, <1>7, <1>8 DEF ReadingCover
<1>10. VisitCover' /\ FreeCover' /\ EndCover'
  BY <1>1 DEF VisitCover, FreeCover, EndCover
<1> QED
  BY <1>4, <1>5, <1>9, <1>10 DEF Covered

(* Freeing loses nothing: what it takes was written, or is the root.       *)
LEMMA FreeCovers == ASSUME IInv, Covered, Free PROVE Covered'
<1>1. /\ pc = "free" /\ pc' = (IF number = 0 THEN "done" ELSE "read")
      /\ tree' = Kept
      /\ UNCHANGED <<in, sorted, number, arrived>>
      /\ cpath' = cpath /\ fdstack' = fdstack /\ closed' = closed /\ log' = log /\ level' = level
  BY DEF Free, output, Kept
<1>2. /\ TreeOk(tree) /\ MarksOk(tree) /\ OutputOk /\ RootOk /\ number \in {0, 1}
  BY CoverStart DEF Covered, OutputOk
<1>3. ClosedOk'
  BY <1>1 DEF Covered, ClosedOk
<1>4. /\ Written' = Written /\ (\A p : NotPast(p)' <=> NotPast(p))
      /\ Current' = Current /\ (EndRead' <=> EndRead)
  BY <1>1 DEF Written, NotPast, EndRead, Current, Pends, PendsAt
<1>5. KindsOk'
  <2>1. /\ \A i \in 1 .. Len(in) : in[i].kind # "lists"
        /\ \A i \in 2 .. Len(in) : Fresh(in[i])
    BY DEF Covered, KindsOk
  <2>2. \A i \in 1 .. Len(in') : in'[i].kind # "lists"
    BY <1>1, <2>1
  <2>3. \A i \in 2 .. Len(in') : Fresh(in[i])
    BY <1>1, <2>1
  <2>4. \A i \in 2 .. Len(in') : Fresh(in'[i])
    BY <1>1, <2>3
  <2>5. pc' \in {"last", "write"} /\ number' = 0 => in' = <<>>
    BY <1>1, <1>2
  <2> QED
    BY <2>2, <2>4, <2>5 DEF KindsOk, Fresh, Pends, PendsAt
<1>6. UnsortedMarks'
  <2> SUFFICES ASSUME ~sorted PROVE UnsortedMarks'
    BY <1>1 DEF UnsortedMarks
  <2>1. tree' = tree
    BY <1>1 DEF Kept
  <2>2. /\ MarksOk(tree) /\ (in # <<>> => SourceMarks(Current, tree))
        /\ number = 1 => fdstack # <<>>
    BY <1>1 DEF Covered, UnsortedMarks
  <2>3. Reading' => number = 1
    BY <1>1, <1>2 DEF Reading
  <2> QED
    BY <1>1, <1>4, <2>1, <2>2, <2>3 DEF UnsortedMarks, SourceMarks
<1>7. RootOk'
  <2>1. tree'.sorting = tree.sorting
    BY <1>1, <1>2, FreedMarks DEF Kept
  <2>2. ASSUME Filled' # {} PROVE <<>> \in tree'.changed \cup tree'.sorting
    <3>1. CASE ~sorted
      BY <1>1, <1>2, <2>2, <3>1 DEF Kept, RootOk, Filled
    <3>2. CASE sorted
      <4>1. tree' = Freed(tree) /\ <<>> \notin Removed(tree)
        BY <1>1, <1>2, <3>2, ReachedIs DEF Kept
      <4>2. Filled # {}
        BY <1>2, <2>2, <4>1, FreedMarks DEF Filled
      <4>3. HasSub(tree, <<>>)
        BY <1>2, <4>2, FilledHasSub DEF Filled, TreeOk
      <4>4. <<>> \in tree.changed \cup tree.sorting
        BY <1>2, <4>2 DEF RootOk
      <4>5. CASE <<>> \in tree.sorting
        BY <2>1, <4>5
      <4>6. CASE <<>> \in tree.changed \ tree.sorting
        BY <1>2, <4>1, <4>3, <4>6, FreedIs
      <4> QED
        BY <4>4, <4>5, <4>6
    <3> QED
      BY <3>1, <3>2
  <2> QED
    BY <1>1, <1>2, <1>4, <2>1, <2>2 DEF RootOk, RootRead
<1>8. ReadingCover'
  <2> SUFFICES ASSUME Reading' PROVE ReadingCover'
    BY DEF ReadingCover
  <2>1. number = 1
    BY <1>1, <1>2 DEF Reading
  <2>2. FreeCover
    BY DEF Covered
  <2> QED
    BY <1>1, <1>4, <2>1, <2>2 DEF FreeCover, ReadingCover, Filled
<1>9. EndCover'
  BY <1>1, <1>2, <1>4 DEF Covered, EndCover
<1>10. VisitCover' /\ FreeCover'
  BY <1>1 DEF VisitCover, FreeCover
<1> QED
  BY <1>3, <1>5, <1>6, <1>7, <1>8, <1>9, <1>10 DEF Covered

(* A dump is named by directories above.                                   *)
LEMMA CutPrefix ==
  ASSUME NEW c \in Paths, NEW k \in Nat
  PROVE  Cut(c, k) \in Paths /\ IsPrefix(Cut(c, k), c) /\ Len(Cut(c, k)) <= k
<1>1. Len(c) \in Nat /\ c \in Seq(Nat \ {0})
  BY AtIs DEF Paths
<1> DEFINE m == IF Len(c) <= k THEN Len(c) ELSE k
<1>2. m \in 0 .. Len(c) /\ m <= k
  BY <1>1
<1> HIDE DEF m
<1>3. Len(SubSeq(c, 1, m)) = m /\ SubSeq(SubSeq(c, 1, m), 1, m) = SubSeq(c, 1, m)
  BY <1>1, <1>2
<1>4. Cut(c, k) = SubSeq(c, 1, m)
  BY DEF Cut, m
<1>5. IsPrefix(SubSeq(c, 1, m), c)
  BY <1>1, <1>2, <1>3 DEF IsPrefix
<1> QED
  BY <1>2, <1>3, <1>4, <1>5, CutIs

(* The dump of a line is named by a directory above it.                    *)
LEMMA DumpAbove ==
  ASSUME NEW p \in Paths \ {<<>>}, level \in Nat
  PROVE  DumpOf(p) \in Paths /\ Before(DumpOf(p), p)
<1> DEFINE c == Parent(p)
           n == Last(p)
<1>1. c \in Paths /\ n \in Nat \ {0} /\ p = Append(c, n)
  BY ParentIs
<1> HIDE DEF c, n
<1>2. DumpOf(Append(c, n)) = Cut(c, level) /\ Append(c, n) \in Paths /\ Before(c, Append(c, n))
  BY <1>1, DumpOfEntry, AppendIs
<1>3. Cut(c, level) \in Paths /\ (Cut(c, level) = c \/ Before(Cut(c, level), c))
  BY <1>1, CutPrefix, PrefixBefore
<1>4. Before(Cut(c, level), Append(c, n))
  BY <1>1, <1>2, <1>3, Transitive
<1> QED
  BY <1>1, <1>2, <1>3, <1>4

(* What is made again and held nothing loses nothing.                      *)
LEMMA Whole ==
  ASSUME NEW lines \in Seq(Written1), NEW dump,
         \A i \in 1 .. Len(lines) : lines[i].dump # dump
  PROVE  Truncated(lines, dump) = lines
<1>1. PICK f :
         /\ f[0] = <<>>
         /\ \A i \in 1 .. Len(lines) :
              /\ f[i - 1] \in Seq(Written1)
              /\ f[i] = IF lines[i].dump = dump THEN f[i - 1]
                        ELSE Append(f[i - 1], lines[i])
         /\ Truncated(lines, dump) = f[Len(lines)]
         /\ f[Len(lines)] \in Seq(Written1)
  BY TruncatedIs
<1>2. Len(lines) \in Nat
  OBVIOUS
<1> DEFINE T == {i \in 0 .. Len(lines) : f[i] = SubSeq(lines, 1, i)}
<1>3. 0 \in T
  BY <1>1, <1>2
<1>4. ASSUME NEW i \in 1 .. Len(lines), i - 1 \in T PROVE i \in T
  <2>1. f[i] = Append(f[i - 1], lines[i]) /\ f[i - 1] = SubSeq(lines, 1, i - 1)
    BY <1>1, <1>4
  <2>2. SubSeq(lines, 1, i) = Append(SubSeq(lines, 1, i - 1), lines[i])
    BY <1>2
  <2>3. i \in 0 .. Len(lines)
    BY <1>2
  <2> QED
    BY <2>1, <2>2, <2>3
<1>5. 0 .. Len(lines) \subseteq T
  <2> HIDE DEF T
  <2> QED
    BY <1>2, <1>3, <1>4, CountUp
<1>6. f[Len(lines)] = SubSeq(lines, 1, Len(lines))
  BY <1>2, <1>5
<1> QED
  BY <1>1, <1>6

(* Where the output is.                                                    *)
LEMMA VisitStart ==
  ASSUME IInv, Covered, DumpsOk, refused = {}, pc = "visit"
  PROVE  /\ level \in Nat /\ DumpOk /\ StackOk /\ fdstack # <<>> /\ fd \notin closed
         /\ TreeOk(tree) /\ MarksOk(tree) /\ OutputOk /\ OrderOk
         /\ cpath \in Paths /\ after \in Nat /\ Pos \in Paths /\ Before(cpath, Pos)
         /\ log \in Seq(Written1) /\ Ordered(log) /\ VisitCover
         /\ \A p \in tree.changed \cup tree.filled \cup tree.sorting :
               p \in Paths /\ Prefixes(p) \subseteq tree.changed \cup {<<>>}
<1>1. /\ TreeOk(tree) /\ MarksOk(tree) /\ OutputOk /\ OrderOk /\ cpath \in Paths
      /\ \A p \in tree.changed \cup tree.filled \cup tree.sorting :
            p \in Paths /\ Prefixes(p) \subseteq tree.changed \cup {<<>>}
  BY CoverStart DEF IInv
<1>2. /\ after \in Nat /\ log \in Seq(Written1) /\ Ordered(log)
      /\ Len(fdstack) = Len(cpath) + 1
  BY <1>1 DEF OutputOk
<1>3. fdstack # <<>>
  <2>1. Len(cpath) \in Nat
    BY <1>1, AtIs
  <2> QED
    BY <1>2, <2>1, Len(<<>>) = 0
<1>4. level \in Nat /\ DumpOk /\ StackOk
  BY <1>3 DEF DumpsOk
<1>5. fd \notin closed
  <2>1. fd = Cut(cpath, level) /\ IsPrefix(Cut(cpath, level), cpath)
    BY <1>1, <1>4, CutPrefix DEF StackOk
  <2> QED
    BY <1>3, <2>1 DEF Covered, ClosedOk
<1>6. Pos \in Paths /\ Before(cpath, Pos)
  <2>1. after + 1 \in Nat \ {0}
    BY <1>2
  <2> QED
    BY <1>1, <2>1, AppendIs DEF Pos
<1> QED
  BY <1>1, <1>2, <1>3, <1>4, <1>5, <1>6 DEF Covered

(* The line of an entry is written, and those written stay.                *)
LEMMA EntryWritten ==
  ASSUME IInv, Covered, DumpsOk, refused = {}, pc = "visit", Following # {},
         log' = Logged(Entry)
  PROVE  Written \subseteq Written' /\ (Entry \in tree.filled => Entry \in Written')
<1>1. fd \notin closed /\ log \in Seq(Written1)
  BY VisitStart
<1>2. CASE Entry \in tree.filled
  <2> DEFINE line == [path |-> Entry, dump |-> fd]
  <2>1. log' = Append(log, line) /\ line.path = Entry
    BY <1>1, <1>2 DEF Logged
  <2> HIDE DEF line
  <2>2. /\ Len(log) \in Nat /\ DOMAIN log = 1 .. Len(log)
        /\ DOMAIN log' = 1 .. Len(log) + 1 /\ log'[Len(log) + 1] = line
        /\ \A i \in 1 .. Len(log) : log'[i] = log[i]
    BY <1>1, <2>1
  <2>3. Len(log) + 1 \in DOMAIN log' /\ \A i \in DOMAIN log : i \in DOMAIN log'
    BY <2>2
  <2> QED
    BY <2>1, <2>2, <2>3 DEF Written
<1>3. CASE Entry \notin tree.filled
  BY <1>3 DEF Logged, Written
<1> QED
  BY <1>2, <1>3

(* Entering a directory for the first time: its dump held nothing.         *)
LEMMA EnterWhole ==
  ASSUME IInv, Covered, DumpsOk, refused = {}, Enter
  PROVE  log' = Logged(Entry)
<1> DEFINE dump == Append(bpath, Last(Entry))
           opens == recursion > 0 /\ dump \notin refused
<1>1. /\ pc = "visit" /\ Following # {}
      /\ log' = IF opens THEN Truncated(Logged(Entry), dump) ELSE Logged(Entry)
  BY DEF Enter
<1>2. /\ level \in Nat /\ DumpOk /\ StackOk /\ TreeOk(tree) /\ cpath \in Paths /\ after \in Nat
      /\ VisitCover /\ OutputOk /\ OrderOk
  BY <1>1, VisitStart
<1>3. /\ \A i \in 1 .. Len(Logged(Entry)) :
           Logged(Entry)[i].dump = DumpOf(Logged(Entry)[i].path)
      /\ Last(Entry) \in Nat \ {0} /\ Entry = Append(cpath, Last(Entry)) /\ Entry \in Paths
      /\ Logged(Entry) \in Seq(Written1) /\ Ordered(Logged(Entry))
  BY <1>1, <1>2, EntryDump
<1>4. Entry \in tree.changed /\ ~Before(Entry, Pos)
  BY <1>1, <1>2, EntryIs
<1>5. NotPast(Entry)
  BY <1>1, <1>2, <1>4 DEF VisitCover
<1>6. \A i \in 1 .. Len(Logged(Entry)) :
         /\ Logged(Entry)[i].path \in Paths \ {<<>>}
         /\ Logged(Entry)[i].path = Entry \/ Before(Logged(Entry)[i].path, Entry)
  <2>1. Entry \in tree.filled => Later(Entry)
    BY <1>1, <1>2, OutputPlaced, EntryIsLater
  <2>2. LogFrom(Logged(Entry), Entry)
    <3>1. Entry \in Paths \ {<<>>}
      BY <1>1, <1>2, EntryIs
    <3> QED
      BY <1>2, <2>1, <3>1, LoggedIs DEF OutputOk
  <2>3. ASSUME NEW i \in 1 .. Len(Logged(Entry))
        PROVE  /\ Logged(Entry)[i].path \in Paths \ {<<>>}
               /\ Logged(Entry)[i].path = Entry \/ Before(Logged(Entry)[i].path, Entry)
    <3>1. Logged(Entry)[i] \in Written1
      BY <1>3
    <3>2. Logged(Entry)[i].path = Entry \/ \E j \in 1 .. Len(log) : Logged(Entry)[i] = log[j]
      BY <2>2 DEF LogFrom
    <3> QED
      BY <1>5, <3>1, <3>2 DEF NotPast, Written1
  <2> QED
    BY <2>3
<1>7. ASSUME opens PROVE dump = Entry
  <2>1. recursion = level - Len(cpath) /\ bpath = Cut(cpath, level)
    BY <1>2 DEF StackOk
  <2>2. Len(cpath) \in Nat
    BY <1>2, AtIs
  <2>3. Len(cpath) <= level
    BY <1>2, <1>7, <2>1, <2>2
  <2>4. bpath = cpath
    BY <1>2, <2>1, <2>3, CutIs
  <2> QED
    BY <1>3, <2>4
<1>8. ASSUME NEW i \in 1 .. Len(Logged(Entry)) PROVE Logged(Entry)[i].dump # Entry
  <2> DEFINE p == Logged(Entry)[i].path
  <2>1. p \in Paths \ {<<>>} /\ (p = Entry \/ Before(p, Entry)) /\ Logged(Entry)[i].dump = DumpOf(p)
    BY <1>3, <1>6
  <2> HIDE DEF p
  <2>2. DumpOf(p) \in Paths /\ Before(DumpOf(p), p)
    BY <1>2, <2>1, DumpAbove
  <2>3. Before(DumpOf(p), Entry)
    BY <1>3, <2>1, <2>2, Transitive
  <2>4. DumpOf(p) # Entry
    BY <1>3, <2>3, Irreflexive
  <2> QED
    BY <2>1, <2>4
<1>9. Truncated(Logged(Entry), Entry) = Logged(Entry)
  BY <1>3, <1>8, Whole
<1> QED
  BY <1>1, <1>7, <1>9

(* Past an entry, all up to it is written.                                 *)
LEMMA MoveCovers ==
  ASSUME IInv, Covered, DumpsOk, refused = {}, pc = "visit", Following # {},
         log' = Logged(Entry), LogFrom(log', Entry), pc' = "visit",
         UNCHANGED <<tree, arrived>>,
         Pos' \in Paths, Before(Entry, Pos'),
         \A q \in tree.node : Before(q, Pos') => q = Entry \/ Before(q, Entry)
  PROVE  VisitCover'
<1>1. /\ TreeOk(tree) /\ cpath \in Paths /\ after \in Nat /\ VisitCover
      /\ \A p \in tree.changed \cup tree.filled \cup tree.sorting :
            p \in Paths /\ Prefixes(p) \subseteq tree.changed \cup {<<>>}
  BY VisitStart
<1>2. /\ Entry \in Paths /\ \A q \in Paths : Before(q, Pos) => Before(q, Entry)
  BY <1>1, EntryIs
<1>3. Written \subseteq Written' /\ (Entry \in tree.filled => Entry \in Written')
  BY EntryWritten
<1>4. ASSUME NEW p \in tree.changed \cup tree.filled, ~Before(p, Pos)
      PROVE  p = Entry \/ Before(Entry, p)
  <2>1. p \in Paths /\ Prefixes(p) \subseteq tree.changed \cup {<<>>}
    BY <1>1
  <2> QED
    BY <1>1, <1>4, <2>1, NothingBetween
<1>5. ASSUME NEW q \in Filled, Before(q, Pos') PROVE q \in Written'
  <2>1. q \in tree.filled /\ q \in tree.node /\ q \in Paths
    BY <1>1 DEF Filled, TreeOk
  <2>2. CASE Before(q, Pos)
    BY <1>1, <1>3, <2>2 DEF VisitCover
  <2>3. CASE ~Before(q, Pos)
    <3>1. q = Entry \/ Before(Entry, q)
      BY <1>4, <2>1, <2>3
    <3>2. q = Entry \/ Before(q, Entry)
      BY <1>5, <2>1
    <3>3. q = Entry
      BY <1>2, <2>1, <3>1, <3>2, Transitive, Irreflexive
    <3> QED
      BY <1>3, <2>1, <3>3
  <2> QED
    BY <2>2, <2>3
<1>6. ASSUME NEW p \in tree.changed PROVE Before(p, Pos') \/ NotPast(p)'
  <2>1. p \in Paths
    BY <1>1
  <2>2. CASE Before(p, Pos)
    BY <1>2, <2>1, <2>2, Transitive
  <2>3. CASE ~Before(p, Pos)
    <3>1. NotPast(p) /\ (Entry = p \/ Before(Entry, p))
      BY <1>1, <1>4, <2>3 DEF VisitCover
    <3> QED
      BY <3>1, NotPastStays
  <2> QED
    BY <2>2, <2>3
<1>7. arrived \subseteq Written \cup Filled \cup {<<>>} /\ Filled' = Filled
  BY <1>1 DEF VisitCover, Filled
<1> QED
  BY <1>3, <1>5, <1>6, <1>7 DEF VisitCover

(* Passing an entry loses nothing.                                         *)
LEMMA PassCovers ==
  ASSUME IInv, Covered, DumpsOk, refused = {}, Pass, UNCHANGED <<in, arrived>>
  PROVE  Covered'
<1>1. /\ pc = "visit" /\ Following # {} /\ ~HasSub(tree, Entry)
      /\ pc' = "visit" /\ log' = Logged(Entry) /\ after' = Last(Entry)
      /\ UNCHANGED <<tree, sorted, number>>
      /\ level' = level /\ cpath' = cpath /\ fdstack' = fdstack /\ closed' = closed
  BY DEF Pass
<1>2. LogFrom(log', Entry)
  BY PassKeeps
<1>3. TreeOk(tree) /\ cpath \in Paths /\ after \in Nat
  BY <1>1, VisitStart
<1> DEFINE m == Last(Entry)
<1>4. m \in Nat \ {0} /\ m + 1 \in Nat \ {0} /\ m < m + 1 /\ Entry = Append(cpath, m)
      /\ Entry \in Paths
  BY <1>1, <1>3, EntryIs DEF Names
<1>5. Pos' = Append(cpath, m + 1)
  BY <1>1 DEF Pos
<1> HIDE DEF m
<1>6. Pos' \in Paths /\ Before(Entry, Pos')
  BY <1>3, <1>4, <1>5, AppendIs, Brothers
<1>7. ASSUME NEW q \in tree.node, Before(q, Pos') PROVE q = Entry \/ Before(q, Entry)
  <2>1. q \in Paths
    BY <1>3 DEF TreeOk, Trees
  <2>2. Before(q, Entry) \/ IsPrefix(Entry, q)
    BY <1>3, <1>4, <1>5, <1>7, <2>1, NextAfter
  <2> QED
    BY <1>1, <2>2 DEF HasSub, IsStrictPrefix
<1>8. VisitCover'
  BY <1>1, <1>2, <1>6, <1>7, MoveCovers
<1>9. KindsOk' /\ UnsortedMarks' /\ RootOk'
  BY <1>1, OthersStay DEF Reading
<1>10. ClosedOk'
  BY <1>1 DEF Covered, ClosedOk
<1>11. ReadingCover' /\ FreeCover' /\ EndCover'
  BY <1>1 DEF ReadingCover, FreeCover, EndCover, Reading
<1> QED
  BY <1>8, <1>9, <1>10, <1>11 DEF Covered

(* Neither does going into a directory.                                    *)
LEMMA EnterCovers ==
  ASSUME IInv, Covered, DumpsOk, refused = {}, Enter, UNCHANGED <<in, arrived>>
  PROVE  Covered'
<1>1. /\ pc = "visit" /\ Following # {} /\ pc' = "visit" /\ after' = 0 /\ cpath' = Entry
      /\ closed' = IF recursion > 0 /\ Append(bpath, Last(Entry)) \notin refused
                   THEN closed \ {Append(bpath, Last(Entry))} ELSE closed
      /\ UNCHANGED <<tree, sorted, number>> /\ level' = level
  BY DEF Enter
<1>2. LogFrom(log', Entry) /\ log' = Logged(Entry)
  BY EnterKeeps, EnterWhole
<1>3. /\ TreeOk(tree) /\ cpath \in Paths /\ after \in Nat /\ level \in Nat /\ StackOk
      /\ fdstack # <<>>
  BY <1>1, VisitStart
<1> DEFINE m == Last(Entry)
<1>4. m \in Nat \ {0} /\ Entry = Append(cpath, m) /\ Entry \in Paths
  BY <1>1, <1>3, EntryIs DEF Names
<1> HIDE DEF m
<1>5. Pos' = Append(Entry, 1)
  BY <1>1 DEF Pos
<1>6. Pos' \in Paths /\ Before(Entry, Pos')
  BY <1>4, <1>5, AppendIs
<1>7. ASSUME NEW q \in tree.node, Before(q, Pos') PROVE q = Entry \/ Before(q, Entry)
  <2>1. q \in Paths
    BY <1>3 DEF TreeOk, Trees
  <2> QED
    BY <1>4, <1>5, <1>7, <2>1, FirstBelow
<1>8. VisitCover'
  BY <1>1, <1>2, <1>6, <1>7, MoveCovers
<1>9. KindsOk' /\ UnsortedMarks' /\ RootOk'
  BY <1>1, OthersStay DEF Reading
<1>10. ClosedOk'
  <2>1. \A c \in closed : c \in Paths /\ Len(c) <= level /\ ~IsPrefix(c, cpath)
    BY <1>3 DEF Covered, ClosedOk
  <2>2. Len(cpath) \in Nat /\ Len(Entry) = Len(cpath) + 1
    <3>1. Len(Append(cpath, m)) = Len(cpath) + 1
      BY <1>3, <1>4, AppendIs
    <3> QED
      BY <1>3, <1>4, <3>1, AtIs
  <2>3. ASSUME NEW c \in closed', IsPrefix(c, Entry) PROVE FALSE
    <3>1. c \in closed /\ c \in Paths /\ Len(c) <= level /\ ~IsPrefix(c, cpath)
      BY <1>1, <2>1
    <3>2. c = Entry
      <4>1. c \in Prefixes(Append(cpath, m))
        BY <1>4, <2>3, <3>1, PrefixesAre
      <4>2. c \in Prefixes(cpath) \cup {Append(cpath, m)}
        BY <1>3, <1>4, <4>1, PrefixesOfAppend DEF Names
      <4> QED
        BY <1>3, <1>4, <3>1, <4>2, PrefixesAre
    <3>3. Len(cpath) < level
      BY <1>3, <2>2, <3>1, <3>2
    <3>4. recursion = level - Len(cpath) /\ bpath = Cut(cpath, level)
      BY <1>3 DEF StackOk
    <3>5. recursion > 0 /\ bpath = cpath
      <4>1. Len(cpath) <= level
        BY <1>3, <2>2, <3>3
      <4>2. bpath = cpath
        BY <1>3, <3>4, <4>1, CutIs
      <4> QED
        BY <1>3, <2>2, <3>3, <3>4, <4>2
    <3>6. Append(bpath, Last(Entry)) = Entry
      BY <1>4, <3>5 DEF m
    <3>7. closed' = closed \ {Entry}
      BY <1>1, <3>5, <3>6
    <3> QED
      BY <2>3, <3>2, <3>7
  <2>4. \A c \in closed' : c \in closed
    BY <1>1
  <2> QED
    BY <1>1, <2>1, <2>3, <2>4 DEF ClosedOk
<1>11. ReadingCover' /\ FreeCover' /\ EndCover'
  BY <1>1 DEF ReadingCover, FreeCover, EndCover, Reading
<1> QED
  BY <1>8, <1>9, <1>10, <1>11 DEF Covered

(* A file system is not read with the mark that makes the output wait.     *)
LEMMA WaitNever == ASSUME IInv, Wait PROVE FALSE
<1>1. pc = "visit" /\ number = 1 /\ cpath \in tree.reading
  BY DEF Wait, IInv, OutputOk
<1> QED
  BY <1>1 DEF IInv, UnsortedOk, FsOk

(* What the walk has passed is what freeing reaches.                       *)
LEMMA ChangedReached ==
  ASSUME IInv, sorted, pc = "visit", number # 0, NEW p \in tree.changed, p # <<>>, Before(p, Pos)
  PROVE  p \in Reached(tree)
<1>1. /\ TreeOk(tree) /\ MarksOk(tree) /\ cpath \in Paths /\ after \in Nat
      /\ Prefixes(cpath) \subseteq tree.changed \ tree.sorting
      /\ \A S \in tree.sorting : S \in Paths /\ ~Before(S, Pos)
  BY RoundStart
<1>2. p \in Paths /\ p \in tree.node /\ Prefixes(p) \subseteq tree.changed \cup {<<>>}
  BY <1>1 DEF TreeOk, Trees, MarksOk
<1>3. <<>> \in tree.changed
  BY <1>1, PrefixesAre
<1>4. Pos \in Paths
  <2>1. after + 1 \in Nat \ {0}
    BY <1>1
  <2> QED
    BY <1>1, <2>1, AppendIs DEF Pos
<1>5. ASSUME NEW q \in Prefixes(p), q \in tree.sorting PROVE FALSE
  <2>1. q \in Paths /\ IsPrefix(q, p)
    BY <1>2, PrefixesAre
  <2>2. Before(q, Pos)
    BY <1>2, <1>4, <2>1, PrefixBefore, Transitive
  <2> QED
    BY <1>1, <1>5, <2>2
<1> QED
  BY <1>2, <1>3, <1>5 DEF Reached, Above

(* The entry the output stops at is the one freeing stops at.              *)
LEMMA StopIs ==
  ASSUME IInv, sorted, pc = "visit", number # 0, Following # {}, Entry \in tree.sorting
  PROVE  Stops(tree) # {} /\ Least(Stops(tree)) = Entry
<1>1. /\ Entry \in Paths \ {<<>>} /\ Entry \in Reached(tree)
      /\ \A S \in tree.sorting : S = Entry \/ Before(Entry, S)
  BY EntryReached
<1>2. Entry \in Stops(tree)
  BY <1>1 DEF Stops
<1>3. TreeOk(tree)
  BY RoundStart
<1>4. IsFiniteSet(Stops(tree)) /\ Stops(tree) \in SUBSET Paths
  BY <1>3, ReachedIs
<1>5. /\ Least(Stops(tree)) \in Stops(tree)
      /\ \A q \in Stops(tree) \ {Least(Stops(tree))} : Before(Least(Stops(tree)), q)
  BY <1>2, <1>4, LeastIs
<1> DEFINE l == Least(Stops(tree))
<1>6. l \in Paths /\ l \in tree.sorting /\ (l = Entry \/ Before(l, Entry))
  BY <1>2, <1>4, <1>5 DEF Stops
<1> HIDE DEF l
<1>7. l = Entry \/ Before(Entry, l)
  BY <1>1, <1>6
<1>8. l = Entry
  BY <1>1, <1>6, <1>7, Transitive, Irreflexive
<1> QED
  BY <1>2, <1>8 DEF l

(* Stopping at a directory that is being read: what is freed was written,  *)
(* what was not stays.                                                     *)
LEMMA StopCovers ==
  ASSUME IInv, Covered, DumpsOk, refused = {}, Stop, UNCHANGED <<in, arrived>>
  PROVE  Covered'
<1>1. /\ pc = "visit" /\ Following # {} /\ Entry \in tree.sorting /\ number # 0
      /\ pc' = "free" /\ log' = Logged(Entry)
      /\ UNCHANGED <<tree, sorted, number>>
      /\ level' = level /\ cpath' = cpath /\ fdstack' = fdstack /\ closed' = closed
  BY DEF Stop, Unfinished, IInv, OutputOk
<1>2. sorted /\ number = 1
  BY <1>1 DEF IInv, UnsortedOk, OutputOk
<1>3. /\ TreeOk(tree) /\ MarksOk(tree) /\ cpath \in Paths /\ after \in Nat /\ VisitCover
      /\ fdstack # <<>>
      /\ \A p \in tree.changed \cup tree.filled \cup tree.sorting :
            p \in Paths /\ Prefixes(p) \subseteq tree.changed \cup {<<>>}
  BY <1>1, VisitStart
<1>4. /\ LogFrom(log', Entry) /\ Written \subseteq Written'
      /\ Entry \in tree.filled => Entry \in Written'
      /\ RoundOk'
  BY <1>1, <1>2, StopKeeps, EntryWritten, FsStop
<1> DEFINE m == Last(Entry)
<1>5. m \in Names /\ Entry = Append(cpath, m) /\ Entry \in Paths \ {<<>>} /\ Entry \in tree.changed
      /\ \A q \in Paths : Before(q, Pos) => Before(q, Entry)
  BY <1>1, <1>3, EntryIs
<1> HIDE DEF m
<1>6. Stops(tree) # {} /\ Least(Stops(tree)) = Entry
  BY <1>1, <1>2, StopIs
<1>7. ASSUME NEW p \in tree.changed \cup tree.filled, ~Before(p, Pos)
      PROVE  p = Entry \/ Before(Entry, p)
  <2>1. p \in Paths /\ Prefixes(p) \subseteq tree.changed \cup {<<>>}
    BY <1>3
  <2> QED
    BY <1>1, <1>3, <1>7, <2>1, NothingBetween
<1>8. <<>> \in tree.changed \ tree.sorting /\ HasSub(tree, <<>>)
  <2>1. Prefixes(cpath) \subseteq tree.changed \ tree.sorting
    BY <1>1, <1>2, RoundStart
  <2>2. Entry \in tree.node
    BY <1>3, <1>5 DEF TreeOk
  <2> QED
    BY <1>3, <1>5, <2>1, <2>2, PrefixesAre, FilledHasSub
<1>9. /\ Freed(tree).filled = (tree.filled \ ({<<>>} \cup Visited(tree))) \ Removed(tree)
      /\ Freed(tree).changed = tree.changed \ Removed(tree)
  BY <1>3, <1>8, FreedIs
<1>10. ASSUME NEW a \in Filled, Before(Entry, a) PROVE a \in Freed(tree).filled
  <2>1. a \in tree.filled /\ a # <<>> /\ a \in Paths
    BY <1>3 DEF Filled
  <2>2. a \notin Visited(tree)
    BY <1>6, <1>10 DEF Visited
  <2>3. ASSUME a \in Removed(tree) PROVE FALSE
    <3>1. PICK q \in Visited(tree) : IsPrefix(q, a) /\ ~IsPrefix(q, Entry)
      BY <1>6, <2>3 DEF Removed
    <3>2. q \in Paths /\ ~Before(Entry, q)
      BY <1>3, <1>6, <3>1, ReachedIs DEF Visited
    <3>3. Before(q, Entry)
      BY <1>5, <3>1, <3>2, Comparable, PrefixRefl
    <3>4. Before(a, Entry)
      BY <1>5, <2>1, <3>1, <3>2, <3>3, BelowBefore
    <3> QED
      BY <1>5, <1>10, <2>1, <3>4, Transitive, Irreflexive
  <2> QED
    BY <1>9, <2>1, <2>2, <2>3
<1>11. arrived \subseteq Written' \cup Freed(tree).filled \cup {<<>>}
  <2> SUFFICES ASSUME NEW a \in arrived, a # <<>>, a \notin Written'
               PROVE  a \in Freed(tree).filled
    OBVIOUS
  <2>1. a \in Filled
    BY <1>1, <1>3, <1>4 DEF VisitCover
  <2>2. ~Before(a, Pos) /\ a # Entry
    BY <1>1, <1>3, <1>4, <2>1 DEF VisitCover, Filled
  <2> QED
    BY <1>7, <1>10, <2>1, <2>2 DEF Filled
<1>12. ASSUME NEW q \in Freed(tree).filled \ {<<>>} PROVE Before(cpath, q)
  <2>1. q \in Filled /\ q \notin Visited(tree)
    BY <1>9 DEF Filled
  <2> QED
    BY <1>1, <1>2, <1>4, <2>1 DEF RoundOk, Filled
<1>13. ASSUME NEW p \in Freed(tree).changed PROVE IsPrefix(p, cpath) \/ NotPast(p)'
  <2>1. p \in tree.changed /\ p \notin Removed(tree) /\ p \in Paths /\ p \in tree.node
    BY <1>3, <1>9 DEF TreeOk
  <2>2. CASE ~Before(p, Pos)
    <3>1. NotPast(p) /\ (Entry = p \/ Before(Entry, p))
      BY <1>1, <1>3, <1>7, <2>1, <2>2 DEF VisitCover
    <3> QED
      BY <1>4, <3>1, NotPastStays
  <2>3. CASE p = <<>>
    BY <1>3, <2>3, EmptyPrefix
  <2>4. CASE Before(p, Pos) /\ p # <<>>
    <3>1. p \in Reached(tree) /\ Before(p, Entry)
      BY <1>1, <1>2, <1>5, <2>1, <2>4, ChangedReached
    <3>2. ~Before(Entry, p) /\ p # Entry
      BY <1>5, <2>1, <3>1, Transitive, Irreflexive
    <3>3. p \in Visited(tree)
      BY <1>6, <3>1, <3>2 DEF Visited
    <3>4. IsPrefix(p, Entry)
      BY <2>1, <3>3, PrefixRefl, <1>6 DEF Removed
    <3>5. p \in Prefixes(Append(cpath, m))
      BY <1>5, <2>1, <3>4, PrefixesAre
    <3>6. p \in Prefixes(cpath) \cup {Append(cpath, m)}
      BY <1>3, <1>5, <3>5, PrefixesOfAppend
    <3> QED
      BY <1>3, <1>5, <2>1, <3>2, <3>6, PrefixesAre
  <2> QED
    BY <2>2, <2>3, <2>4
<1>14. Kept' = Freed(tree)
  BY <1>1, <1>2 DEF Kept
<1>15. FreeCover'
  BY <1>1, <1>3, <1>11, <1>12, <1>13, <1>14 DEF FreeCover
<1>16. KindsOk' /\ UnsortedMarks' /\ RootOk'
  BY <1>1, <1>2, OthersStay DEF Reading
<1>17. ClosedOk'
  BY <1>1 DEF Covered, ClosedOk
<1>18. ReadingCover' /\ VisitCover' /\ EndCover'
  BY <1>1 DEF ReadingCover, VisitCover, EndCover, Reading
<1> QED
  BY <1>15, <1>16, <1>17, <1>18 DEF Covered

(* After the root all is written, and in a round all is freed.             *)
LEMMA RootCovers ==
  ASSUME IInv, Covered, DumpsOk, refused = {}, Leave, UNCHANGED <<in, arrived>>, cpath = <<>>
  PROVE  FreeCover' /\ EndCover'
<1>1. /\ pc = "visit" /\ Following = {} /\ UNCHANGED <<tree, number, log, sorted>>
      /\ cpath' = <<>> /\ fdstack' = <<>> /\ pc' = "free"
  BY LeaveDoes
<1>2. /\ TreeOk(tree) /\ MarksOk(tree) /\ after \in Nat /\ VisitCover /\ OutputOk
      /\ \A p \in tree.changed \cup tree.filled \cup tree.sorting :
            p \in Paths /\ Prefixes(p) \subseteq tree.changed \cup {<<>>}
  BY <1>1, VisitStart
<1>3. ASSUME NEW p \in tree.changed \cup tree.filled \cup tree.sorting PROVE Before(p, Pos)
  <2>1. p \in Paths /\ Prefixes(p) \subseteq tree.changed \cup {<<>>} /\ IsPrefix(cpath, p)
        /\ cpath \in Paths
    BY <1>2, EmptyPrefix
  <2> QED
    BY <1>1, <1>2, <2>1, NothingLeft
<1>4. Written' = Written
  BY <1>1 DEF Written
<1>5. arrived \subseteq Written \cup {<<>>}
  BY <1>1, <1>2, <1>3 DEF VisitCover, Filled
<1>6. EndCover'
  BY <1>4, <1>5 DEF EndCover
<1>7. ASSUME number = 1 PROVE FreeCover'
  <2>1. sorted /\ RoundOk /\ FsOk /\ number # 0
    BY <1>1, <1>7 DEF IInv, UnsortedOk
  <2>2. /\ \A S \in tree.sorting : ~Before(S, Pos)
        /\ <<>> \in tree.changed
        /\ \A q \in Filled : Before(q, Pos) => q \in Reached(tree)
    <3>1. /\ \A S \in tree.sorting : ~Before(S, Pos)
          /\ Prefixes(cpath) \subseteq tree.changed \ tree.sorting
          /\ \A q \in Filled : Before(q, Pos) => q \in Reached(tree)
      BY <1>1, <2>1, RoundStart
    <3> QED
      BY <3>1, RootPrefixes
  <2>3. tree.sorting = {}
    BY <1>3, <2>2
  <2>4. Stops(tree) = {} /\ Visited(tree) = Reached(tree)
    BY <2>3 DEF Stops, Visited
  <2>5. ASSUME NEW q \in Freed(tree).filled PROVE FALSE
    <3>1. q \in tree.filled /\ q \notin Visited(tree) /\ q # <<>>
      BY <1>2, FreedMarks
    <3> QED
      BY <1>3, <2>2, <2>4, <3>1 DEF Filled
  <2>6. ASSUME NEW p \in Freed(tree).changed, p # <<>> PROVE FALSE
    <3>1. p \in tree.changed
      BY <1>2, FreedIs
    <3>2. p \in tree.node /\ p \in Paths
      BY <1>2, <3>1 DEF TreeOk
    <3>3. p \in Visited(tree)
      BY <1>1, <1>3, <2>1, <2>4, <2>6, <3>1, ChangedReached
    <3>4. p \in Removed(tree)
      BY <2>4, <3>2, <3>3, PrefixRefl DEF Removed
    <3>5. HasSub(tree, <<>>)
      BY <1>2, <2>6, <3>2, FilledHasSub
    <3>6. Freed(tree).changed = tree.changed \ Removed(tree)
      BY <1>2, <2>2, <2>3, <3>5, FreedIs
    <3> QED
      BY <2>6, <3>4, <3>6
  <2>7. EndRead'
    <3>1. in # <<>> => Current.step = "read" /\ Pends(Current) = {}
      BY <1>1, <2>1, <2>3 DEF FsOk
    <3> QED
      BY <3>1, EndReadIs DEF Current
  <2>8. Kept' = Freed(tree)
    BY <1>1, <2>1 DEF Kept
  <2>9. \A p \in Freed(tree).changed : IsPrefix(p, <<>>)
    BY <2>6, RootPrefixes, EmptyPrefix
  <2> QED
    BY <1>1, <1>4, <1>5, <2>5, <2>7, <2>8, <2>9 DEF FreeCover
<1> QED
  BY <1>1, <1>6, <1>7 DEF FreeCover

(* Leaving a directory: all in it is written, and its dump is closed.      *)
LEMMA UpCovers ==
  ASSUME IInv, Covered, DumpsOk, refused = {}, Leave, UNCHANGED <<in, arrived>>, cpath # <<>>
  PROVE  VisitCover' /\ ClosedOk'
<1>1. /\ pc = "visit" /\ Following = {} /\ UNCHANGED <<tree, number, log, sorted>>
      /\ cpath' = Parent(cpath) /\ after' = Last(cpath)
  BY LeaveDoes
<1>2. /\ TreeOk(tree) /\ cpath \in Paths /\ after \in Nat /\ VisitCover
      /\ Pos \in Paths /\ Before(cpath, Pos) /\ level \in Nat /\ StackOk /\ fdstack # <<>>
      /\ \A p \in tree.changed \cup tree.filled \cup tree.sorting :
            p \in Paths /\ Prefixes(p) \subseteq tree.changed \cup {<<>>}
  BY <1>1, VisitStart
<1> DEFINE c == Parent(cpath)
           n == Last(cpath)
<1>3. c \in Paths /\ n \in Nat \ {0} /\ cpath = Append(c, n)
  BY <1>2, ParentIs
<1>4. Pos' = Append(c, n + 1)
  BY <1>1 DEF Pos
<1>5. Pos' \in Paths /\ Before(Pos, Pos')
  <2>1. /\ Append(Parent(cpath), Last(cpath) + 1) \in Paths
        /\ Before(Append(cpath, after + 1), Append(Parent(cpath), Last(cpath) + 1))
    BY <1>2, UpIsBehind
  <2> QED
    BY <1>4, <2>1 DEF Pos
<1> HIDE DEF c, n
<1>6. ASSUME NEW q \in Filled, Before(q, Pos') PROVE q \in Written
  <2>1. q \in Paths /\ Prefixes(q) \subseteq tree.changed \cup {<<>>}
    BY <1>2 DEF Filled
  <2>2. Before(q, cpath) \/ IsPrefix(cpath, q)
    BY <1>3, <1>4, <1>6, <2>1, NextAfter
  <2>3. Before(q, Pos)
    BY <1>1, <1>2, <2>1, <2>2, Transitive, NothingLeft
  <2> QED
    BY <1>1, <1>2, <2>3 DEF VisitCover
<1>7. ASSUME NEW p \in tree.changed PROVE Before(p, Pos') \/ NotPast(p)'
  <2>1. NotPast(p)' <=> NotPast(p)
    BY <1>1 DEF NotPast
  <2>2. p \in Paths
    BY <1>2
  <2> QED
    BY <1>1, <1>2, <1>5, <2>1, <2>2, Transitive DEF VisitCover
<1>8. VisitCover'
  <2>1. Written' = Written /\ Filled' = Filled
    BY <1>1 DEF Written, Filled
  <2> QED
    BY <1>1, <1>2, <1>6, <1>7, <2>1 DEF VisitCover
<1>9. ClosedOk'
  <2>1. /\ \A d \in closed : d \in Paths /\ Len(d) <= level /\ ~IsPrefix(d, cpath)
        /\ closed' = (IF recursion + 1 > 0 THEN closed \cup {fd} ELSE closed)
        /\ level' = level
    BY <1>2 DEF Covered, ClosedOk, Leave
  <2>2. Len(c) \in Nat /\ Len(cpath) = Len(c) + 1 /\ IsPrefix(c, cpath)
    <3>1. Len(Append(c, n)) = Len(c) + 1 /\ IsPrefix(c, Append(c, n))
      BY <1>3, AppendIs
    <3> QED
      BY <1>3, <3>1, AtIs
  <2>3. ASSUME NEW d \in closed PROVE ~IsPrefix(d, c)
    BY <1>2, <1>3, <2>1, <2>2, PrefixTrans
  <2>4. ASSUME recursion + 1 > 0
        PROVE  fd \in Paths /\ Len(fd) <= level /\ ~IsPrefix(fd, c)
    <3>1. recursion = level - Len(cpath) /\ fd = Cut(cpath, level)
      BY <1>2 DEF StackOk
    <3>2. Len(cpath) <= level
      BY <1>2, <2>2, <2>4, <3>1
    <3>3. fd = cpath
      BY <1>2, <3>1, <3>2, CutIs
    <3>4. ~IsPrefix(cpath, c)
      <4>1. IsPrefix(cpath, c) => Len(cpath) <= Len(c)
        BY <1>2, <1>3, PrefixLen
      <4> QED
        BY <2>2, <4>1
    <3> QED
      BY <1>2, <3>2, <3>3, <3>4
  <2> QED
    BY <1>1, <2>1, <2>3, <2>4 DEF ClosedOk, c
<1> QED
  BY <1>8, <1>9

(* Leaving a directory loses nothing, nor leaving the root.                *)
LEMMA LeaveCovers ==
  ASSUME IInv, Covered, DumpsOk, refused = {}, Leave, UNCHANGED <<in, arrived>>
  PROVE  Covered'
<1>1. /\ pc = "visit" /\ UNCHANGED <<tree, number, log, sorted>>
      /\ \/ cpath = <<>> /\ cpath' = <<>> /\ fdstack' = <<>> /\ pc' = "free"
         \/ cpath # <<>> /\ pc' = "visit"
  BY LeaveDoes
<1>2. KindsOk' /\ UnsortedMarks' /\ RootOk'
  <2>1. ~sorted => number # 1
    BY <1>1 DEF IInv, UnsortedOk
  <2> QED
    BY <1>1, <2>1, OthersStay DEF Reading
<1>3. CASE cpath = <<>>
  <2>1. FreeCover' /\ EndCover'
    BY <1>3, RootCovers
  <2>2. ClosedOk' /\ ReadingCover' /\ VisitCover'
    BY <1>1, <1>3 DEF ClosedOk, ReadingCover, VisitCover, Reading
  <2> QED
    BY <1>2, <2>1, <2>2 DEF Covered
<1>4. CASE cpath # <<>>
  <2>1. VisitCover' /\ ClosedOk'
    BY <1>4, UpCovers
  <2>2. FreeCover' /\ EndCover' /\ ReadingCover'
    BY <1>1, <1>4 DEF FreeCover, EndCover, ReadingCover, Reading
  <2> QED
    BY <1>2, <2>1, <2>2 DEF Covered
<1> QED
  BY <1>3, <1>4

(* The output loses nothing.                                               *)
LEMMA EmitCovers ==
  ASSUME IInv, Covered, DumpsOk, refused = {}, Emit
  PROVE  Covered'
<1>1. Write /\ UNCHANGED <<in, arrived>>
  BY DEF Emit
<1>2. CASE Postpone
  BY <1>1, <1>2, PostponeCovers
<1>3. CASE StartWrite
  BY <1>1, <1>3, StartCovers
<1>4. CASE Stop
  BY <1>1, <1>4, StopCovers
<1>5. CASE Pass
  BY <1>1, <1>5, PassCovers
<1>6. CASE Enter
  BY <1>1, <1>6, EnterCovers
<1>7. CASE Wait
  BY <1>7, WaitNever
<1>8. CASE Leave
  BY <1>1, <1>8, LeaveCovers
<1> QED
  BY <1>1, <1>2, <1>3, <1>4, <1>5, <1>6, <1>7, <1>8 DEF Write

(* Nothing that has arrived is lost by a step.                             *)
LEMMA CoveredStep ==
  ASSUME IInv, DumpsOk, refused = {}, Covered, [Next]_vars
  PROVE  Covered'
<1>1. ASSUME UNCHANGED vars PROVE Covered'
  <2>1. UNCHANGED <<tree, in, sorted, number, arrived, pc, cpath, after, fdstack, closed, level, log>>
    BY <1>1 DEF vars, input, output
  <2>2. /\ Current' = Current /\ Filled' = Filled /\ Written' = Written /\ Pos' = Pos
        /\ Kept' = Kept /\ (Reading' <=> Reading)
        /\ \A p : NotPast(p)' <=> NotPast(p)
    BY <2>1 DEF Current, Filled, Written, Pos, Kept, Reading, NotPast
  <2>3. EndRead' <=> EndRead
    BY <2>1 DEF EndRead, Current, Pends, PendsAt
  <2>4. KindsOk'
    <3>1. /\ \A i \in 1 .. Len(in) : in[i].kind # "lists"
          /\ \A i \in 2 .. Len(in) : Fresh(in[i])
          /\ pc \in {"last", "write"} /\ number = 0 => in = <<>>
      BY DEF Covered, KindsOk
    <3>2. /\ \A i \in 1 .. Len(in') : in'[i].kind # "lists"
          /\ \A i \in 2 .. Len(in') : Fresh(in'[i])
          /\ pc' \in {"last", "write"} /\ number' = 0 => in' = <<>>
      BY <2>1, <3>1
    <3> QED
      BY <3>2 DEF KindsOk, Fresh, Pends, PendsAt
  <2>5. UnsortedMarks'
    <3>1. Current' = Current /\ tree' = tree /\ in' = in /\ sorted' = sorted /\ number' = number
          /\ pc' = pc /\ fdstack' = fdstack /\ (Reading' <=> Reading)
      BY <2>1, <2>2
    <3>2. UnsortedMarks
      BY DEF Covered
    <3>3. MarksOk(tree)' <=> MarksOk(tree)
      BY <3>1 DEF MarksOk
    <3>4. SourceMarks(Current, tree)' <=> SourceMarks(Current, tree)
      BY <3>1 DEF SourceMarks, Pends, PendsAt
    <3> QED
      BY <3>1, <3>2, <3>3, <3>4 DEF UnsortedMarks
  <2>6. RootOk'
    BY <2>1, <2>2 DEF Covered, RootOk, RootRead
  <2>7. ReadingCover' /\ VisitCover' /\ FreeCover' /\ EndCover' /\ ClosedOk'
    BY <2>1, <2>2, <2>3 DEF Covered, ReadingCover, VisitCover, FreeCover, EndCover, ClosedOk
  <2> QED
    BY <2>4, <2>5, <2>6, <2>7 DEF Covered
<1>2. CASE Fetch
  BY <1>2, FetchCovers
<1>3. CASE Emit
  BY <1>3, EmitCovers
<1>4. CASE LastWrite
  BY <1>4, LastCovers
<1>5. CASE Free
  BY <1>5, FreeCovers
<1>6. CASE Done \/ UNCHANGED vars
  BY <1>1, <1>6 DEF Done
<1> QED
  BY <1>2, <1>3, <1>4, <1>5, <1>6 DEF Next

(* At the beginning nothing has arrived.                                   *)
LEMMA CoveredBegins == ASSUME Init, ~Directories PROVE Covered
<1>1. PICK cmd \in Commands :
        /\ sources = cmd /\ tree = NewTree
        /\ in = [i \in DOMAIN cmd |-> Opened(cmd[i])]
        /\ arrived = {}
  BY DEF Init, InputInit
<1>2. /\ pc = "read" /\ cpath = <<>> /\ fdstack = <<<<>>>> /\ log = <<>> /\ closed = {}
  BY DEF Init, OutputInit
<1>3. cmd \in Seq(ToSet(cmd))
  BY CommandsAssumption
<1>4. DOMAIN cmd = 1 .. Len(cmd) /\ Len(cmd) \in Nat
  BY <1>3
<1>5. /\ in \in Seq(Opens) /\ Len(in) = Len(cmd)
      /\ \A i \in 1 .. Len(in) : in[i] = Opened(cmd[i])
  <2>1. \A i \in 1 .. Len(cmd) : Opened(cmd[i]) \in Opens
    BY <1>4, SourceOpened
  <2>2. in = [i \in 1 .. Len(cmd) |-> Opened(cmd[i])]
    BY <1>1, <1>4
  <2> QED
    BY <1>4, <2>1, <2>2
<1>6. \A i \in 1 .. Len(in) : in[i].kind # "lists" /\ Fresh(in[i])
  <2> TAKE i \in 1 .. Len(in)
  <2>1. i \in DOMAIN cmd /\ in[i] = Opened(cmd[i])
    BY <1>4, <1>5
  <2>2. cmd[i].kind # "lists"
    BY <1>1, <2>1 DEF Directories, ToSet
  <2> QED
    BY <2>1, <2>2, SourceOpened DEF Fresh
<1>7. /\ TreeOk(tree) /\ MarksOk(tree) /\ tree.filled = {} /\ tree.sorting = {}
      /\ tree.changed = {<<>>}
  BY <1>1, NewOk DEF NewTree
<1>8. KindsOk
  <2>1. \A i \in 2 .. Len(in) : i \in 1 .. Len(in)
    BY <1>4, <1>5
  <2> QED
    BY <1>2, <1>6, <2>1 DEF KindsOk
<1>9. UnsortedMarks
  <2>1. in # <<>> => 1 \in 1 .. Len(in)
    BY <1>5, EmptySeq
  <2>2. in # <<>> => Fresh(Current)
    BY <1>6, <2>1 DEF Current
  <2>3. fdstack # <<>>
    BY <1>2
  <2> QED
    BY <1>7, <2>2, <2>3 DEF UnsortedMarks, SourceMarks, Fresh
<1>10. Filled = {}
  BY <1>7 DEF Filled
<1>11. RootOk
  BY <1>7, <1>10 DEF RootOk
<1>12. ReadingCover
  BY <1>1, <1>2, <1>7, <1>10, EmptyPrefix, RootPrefixes DEF ReadingCover
<1>13. VisitCover /\ FreeCover /\ EndCover /\ ClosedOk
  BY <1>2 DEF VisitCover, FreeCover, EndCover, ClosedOk
<1> QED
  BY <1>8, <1>9, <1>11, <1>12, <1>13 DEF Covered

(* Reading from one file system, or from anything else that is not sorted,  *)
(* everything that arrived is in a dump at the end, as long as all dumps    *)
(* could be made: however the reading was cut into rounds, what ft_free()   *)
(* removes was written by output_write() before.                           *)
THEOREM EverythingWritten == Spec => [](Plain => Complete)
<1> DEFINE Held == refused = {} /\ ~Directories => Covered
           Inv == Plain => IInv /\ DumpsOk /\ Held
<1>1. Init => Inv
  BY IInvBegins, DumpsBegin, CoveredBegins
<1>2. Inv /\ [Next]_vars => Inv'
  <2> SUFFICES ASSUME Inv, [Next]_vars PROVE Inv'
    OBVIOUS
  <2>1. UNCHANGED <<sources, sorted, refused>>
    BY DEF Next, vars, input, output, Fetch, Emit, LastWrite, Free, Done, Read, Write,
           ReadBase, OpenDir, ReadEntry, PauseDir, EndDir, NextDir, EndSource, ReadLines,
           NextList, Enough, Postpone, StartWrite, Stop, Pass, Enter, Wait, Leave
  <2>2. Plain' = Plain /\ Directories' = Directories
    BY <2>1 DEF Plain, Directories
  <2>3. Plain => IInv' /\ DumpsOk'
    BY IInvStep, DumpsStep
  <2>4. Plain => Held'
    BY <2>1, <2>2, CoveredStep
  <2> QED
    BY <2>2, <2>3, <2>4
<1>3. Inv => (Plain => Complete)
  BY DEF Complete, Covered, EndCover
<1> HIDE DEF Inv
<1> QED
  BY <1>1, <1>2, <1>3, PTL DEF Spec

-----------------------------------------------------------------------------
(* One sorted list, as flx sign has written it: its lines are in the order  *)
(* of the tree.                                                            *)
TreeOrder(lines) == \A i, j \in 1 .. Len(lines) : i < j => Before(lines[i], lines[j])
OrderedList ==
  sorted /\ sources[1].kind = "list" /\ TreeOrder(sources[1].lines[<<>>])

(* The lines left are after those in the tree and those written.           *)
FdOk ==
  in # <<>> =>
    /\ Current.kind = "list" /\ Current.pending = <<>>
    /\ Current.step \in {"open", "read"}
    /\ TreeOrder(Current.fd)
    /\ \A i \in 1 .. Len(Current.fd) :
         Later(Current.fd[i]) /\ \A q \in Filled : Before(q, Current.fd[i])

(* Nothing is read but on its line, so nothing stops ft_free().             *)
ListTree ==
  pc # "done" => MarksOk(tree) /\ tree.sorting = {} /\ <<>> \in tree.changed

(* A round begins with a tree that is empty, and is not the last one unless *)
(* nothing was read.                                                       *)
ListRound ==
  /\ Len(in) <= 1
  /\ pc = "read" => (count > 0 <=> Filled # {})
  /\ pc # "read" => count = 0
  /\ pc \in {"write", "visit", "free"} /\ number = 1 => Filled # {}
  /\ pc = "visit" => fdstack # <<>>
  /\ pc = "last" => number = 0

LInv ==
  /\ InputOk /\ sorted
  /\ pc \in {"read", "last", "write", "visit", "free", "done"} /\ number \in {0, 1}
  /\ Placed /\ OrderOk /\ FdOk /\ ListTree /\ ListRound

(* Lines are given to the output, or the list is at its end.               *)
LEMMA ListReturn ==
  ASSUME LInv, in # <<>>, pc = "read", Return, UNCHANGED <<tree, sorted, output>>,
         number' = IF pc' = "last" THEN 0 ELSE 1
  PROVE  LInv'
<1>1. /\ InputOk /\ Placed /\ OrderOk /\ FdOk /\ ListTree /\ ListRound
      /\ sorted /\ number \in {0, 1} /\ count \in Nat /\ Len(in) <= 1 /\ in \in Seq(Opens)
  BY DEF LInv, ListRound, InputOk
<1>2. InputOk' /\ count' = 0
  BY <1>1, ReturnDoes, InputIsKept
<1>3. Len(in) = 1 /\ Tail(in) = <<>>
  <2> DEFINE t == Tail(in)
  <2>1. Len(in) \in Nat /\ Len(in) # 0
    BY <1>1
  <2>5. Len(in) <= 1
    BY <1>1
  <2>2. Len(in) = 1
    BY ONLY <2>1, <2>5
  <2>3. t \in Seq(Opens) /\ Len(t) = 0
    BY <1>1, <2>2
  <2> HIDE DEF t
  <2>4. t = <<>>
    BY <2>3
  <2> QED
    BY <2>2, <2>4 DEF t
<1>4. \/ count > 0 /\ pc' = "write" /\ in' = in /\ number' = 1
      \/ count = 0 /\ pc' = "last" /\ in' = <<>> /\ number' = 0
  BY <1>1, <1>3 DEF Return
<1>5. /\ tree' = tree /\ log' = log /\ Filled' = Filled /\ sorted' = sorted
      /\ UNCHANGED <<cpath, after, bpath, fd, fdstack>>
  BY DEF Filled, output
<1>6. Placed'
  BY <1>1, <1>5 DEF Placed
<1>7. OrderOk'
  <2>1. \A q \in Filled : Later(q)
    BY <1>1 DEF OrderOk, Reading
  <2>2. \A q \in Filled : Later(q)'
    BY <1>5, <2>1 DEF Later
  <2> QED
    BY <1>4, <1>5, <2>2 DEF OrderOk, Reading
<1>8. FdOk'
  <2> SUFFICES ASSUME in' # <<>> PROVE FdOk'
    BY DEF FdOk
  <2>1. in' = in /\ Current' = Current
    BY <1>4 DEF Current
  <2> QED
    BY <1>1, <1>5, <2>1 DEF FdOk, Later
<1>9. ListTree'
  BY <1>1, <1>4, <1>5 DEF ListTree
<1>10. ListRound'
  <2>1. count > 0 => Filled # {}
    BY <1>1 DEF ListRound
  <2>2. Len(in') <= 1
    <3>1. in' = <<>> => Len(in') = 0
      OBVIOUS
    <3>2. in' = in => Len(in') = 1
      BY <1>3
    <3>3. Len(in') = 0 \/ Len(in') = 1
      BY <1>4, <3>1, <3>2
    <3> QED
      BY ONLY <3>3
  <2> QED
    BY <1>2, <1>4, <1>5, <2>1, <2>2 DEF ListRound
<1> QED
  BY <1>1, <1>2, <1>4, <1>5, <1>6, <1>7, <1>8, <1>9, <1>10 DEF LInv

(* The lines read are after all that was written, those left after them.   *)
LEMMA ListLines ==
  ASSUME LInv, ReadLines, UNCHANGED output, number' = IF pc' = "last" THEN 0 ELSE 1
  PROVE  LInv'
<1>1. /\ InputOk /\ Placed /\ OrderOk /\ FdOk /\ ListTree /\ ListRound
      /\ sorted /\ count \in Nat /\ Len(in) <= 1
  BY DEF LInv, ListRound, InputOk
<1>2. /\ InputStays /\ pc' = "read" /\ in # <<>> /\ Current.kind # "fs"
      /\ Len(in') = Len(in) /\ in'[1].kind = Current.kind
      /\ tree'.sorting = tree.sorting /\ <<>> \in tree'.changed
      /\ MarksOk(tree) => MarksOk(tree')
      /\ in'[1].pending = Current.pending /\ in'[1].step \in {"open", "read"}
  BY <1>1, ReadLinesDoes
<1>3. PICK n \in 0 .. Len(Current.fd) :
        /\ tree'.filled = tree.filled \cup {Current.fd[i] : i \in 1 .. n}
        /\ count' = count + n
        /\ in'[1].fd = SubSeq(Current.fd, n + 1, Len(Current.fd))
  BY <1>1, ReadLinesDoes
<1>4. pc = "read" /\ sorted' = sorted /\ number' = 1
  BY <1>2 DEF ReadLines, InputStays
<1>5. log' = log /\ UNCHANGED <<cpath, after, bpath, fd, fdstack>>
  BY DEF output
<1> PICK texts : texts = Current.fd
  OBVIOUS
<1> DEFINE T == {texts[i] : i \in 1 .. n}
<1>6. Current \in Opens /\ texts \in Seq(Paths \ {<<>>}) /\ n \in Nat /\ n <= Len(texts)
      /\ Len(texts) \in Nat
  BY <1>1, <1>2, <1>3, CurrentIs DEF Opens
<1>7. Filled' = Filled \cup T
  <2>1. <<>> \notin T
    BY <1>6
  <2> QED
    BY <1>3, <2>1 DEF Filled
<1>8. /\ \A i \in 1 .. Len(texts) : Later(texts[i])' /\ \A q \in Filled : Before(q, texts[i])
      /\ TreeOrder(texts)
  <2>1. /\ \A i \in 1 .. Len(texts) : Later(texts[i]) /\ \A q \in Filled : Before(q, texts[i])
        /\ TreeOrder(texts)
    BY <1>1, <1>2 DEF FdOk
  <2> QED
    BY <1>5, <2>1 DEF Later
<1>9. InputOk' /\ count' \in Nat
  BY <1>1, <1>2, InputIsKept DEF InputStays
<1>10. Placed'
  BY <1>1, <1>5 DEF Placed
<1>11. OrderOk'
  <2>1. \A q \in Filled : Later(q)'
    BY <1>1, <1>4, <1>5 DEF OrderOk, Reading, Later
  <2>2. \A q \in T : Later(q)'
    BY <1>6, <1>8
  <2> QED
    BY <1>2, <1>7, <2>1, <2>2 DEF OrderOk, Reading
<1>12. FdOk'
  <2> DEFINE rest == SubSeq(texts, n + 1, Len(texts))
  <2>1. Current' = in'[1]
    BY DEF Current
  <2>2. Current'.fd = rest
    BY <1>3, <2>1
  <2>3. Len(rest) = Len(texts) - n /\ \A i \in 1 .. Len(rest) : rest[i] = texts[n + i]
    BY <1>6
  <2> HIDE DEF rest
  <2>4. \A i \in 1 .. Len(rest) : n + i \in 1 .. Len(texts)
    BY <1>6, <2>3
  <2>5. TreeOrder(rest)
    <3>1. ASSUME NEW i \in 1 .. Len(rest), NEW j \in 1 .. Len(rest), i < j
          PROVE  Before(rest[i], rest[j])
      <4>1. n + i < n + j
        BY <1>6, <3>1
      <4> QED
        BY <1>8, <2>3, <2>4, <4>1 DEF TreeOrder
    <3> QED
      BY <3>1 DEF TreeOrder
  <2>6. ASSUME NEW i \in 1 .. Len(rest), NEW q \in Filled' PROVE Before(q, rest[i])
    <3>1. CASE q \in Filled
      BY <1>8, <2>3, <2>4, <3>1
    <3>2. CASE q \in T
      <4>1. PICK k \in 1 .. n : q = texts[k]
        BY <3>2
      <4>2. k \in 1 .. Len(texts) /\ k < n + i
        BY <1>6, <4>1
      <4> QED
        BY <1>8, <2>3, <2>4, <4>1, <4>2 DEF TreeOrder
    <3> QED
      BY <1>7, <3>1, <3>2
  <2>7. \A i \in 1 .. Len(rest) : Later(rest[i])'
    BY <1>8, <2>3, <2>4
  <2>8. Current.kind = "list" /\ Current.pending = <<>>
    BY <1>1, <1>2 DEF FdOk
  <2> QED
    BY <1>2, <2>1, <2>2, <2>5, <2>6, <2>7, <2>8 DEF FdOk
<1>13. ListTree'
  BY <1>1, <1>2, <1>4 DEF ListTree
<1>14. ListRound'
  <2>1. count > 0 <=> Filled # {}
    BY <1>1, <1>4 DEF ListRound
  <2>2. n > 0 <=> T # {}
    BY <1>6
  <2>3. count' > 0 <=> Filled' # {}
    <3>1. count' = count + n /\ count \in Nat /\ n \in Nat
      BY <1>1, <1>3, <1>6
    <3>2. count' > 0 <=> count > 0 \/ n > 0
      BY ONLY <3>1
    <3> QED
      BY <1>7, <2>1, <2>2, <3>2
  <2> QED
    BY <1>1, <1>2, <2>3 DEF ListRound
<1> QED
  BY <1>1, <1>2, <1>4, <1>9, <1>10, <1>11, <1>12, <1>13, <1>14 DEF LInv

(* Every step of the reading of a sorted list.                             *)
LEMMA ListRead ==
  ASSUME LInv, Read, UNCHANGED output, number' = IF pc' = "last" THEN 0 ELSE 1
  PROVE  LInv'
<1>1. in # <<>> => /\ Current.kind = "list" /\ Current.pending = <<>>
                   /\ Current.step \in {"open", "read"}
  BY DEF LInv, FdOk
<1>2. ~ReadBase /\ ~OpenDir /\ ~ReadEntry /\ ~PauseDir /\ ~EndDir /\ ~NextList
  BY <1>1 DEF ReadBase, OpenDir, ReadEntry, PauseDir, EndDir, NextList, Is
<1>3. ~NextDir
  BY <1>1 DEF NextDir
<1>4. CASE EndSource
  BY <1>4, ListReturn DEF EndSource
<1>5. CASE Enough
  BY <1>5, ListReturn DEF Enough
<1>6. CASE ReadLines
  BY <1>6, ListLines
<1> QED
  BY <1>2, <1>3, <1>4, <1>5, <1>6 DEF Read

(* The output.                                                             *)

(* Of the directories above a path that are in a set one is the last.      *)
LEMMA LongestPrefix ==
  ASSUME NEW p \in Paths, NEW S, <<>> \in S
  PROVE  \E q \in Prefixes(p) \cap S : \A r \in Prefixes(p) \cap S : IsPrefix(r, q)
<1> DEFINE T == Prefixes(p) \cap S
           D == {Len(p) - Len(r) : r \in T}
<1>1. \A r \in T : r \in Paths /\ IsPrefix(r, p) /\ Len(r) \in Nat /\ Len(r) <= Len(p)
  BY PrefixesAre, PrefixLen, AtIs
<1>2. Len(p) \in Nat /\ <<>> \in T
  BY PrefixesAre, AtIs
<1>3. D \in SUBSET Nat /\ D # {}
  BY <1>1, <1>2
<1>4. PICK n \in D : \A m \in D : n <= m
  BY <1>3, LeastNat
<1>5. PICK q \in T : n = Len(p) - Len(q)
  BY <1>4
<1>6. \A r \in T : Len(p) - Len(q) <= Len(p) - Len(r)
  BY <1>4, <1>5
<1>7. ASSUME NEW r \in T PROVE IsPrefix(r, q)
  <2>1. IsPrefix(r, q) \/ IsPrefix(q, r)
    BY <1>1, PrefixesCompare
  <2>2. Len(r) <= Len(q)
    BY <1>1, <1>2, <1>6
  <2>3. IsPrefix(q, r) => q = r
    <3> SUFFICES ASSUME IsPrefix(q, r) PROVE q = r
      OBVIOUS
    <3>1. Len(q) <= Len(r) /\ (Len(q) = Len(r) => q = r)
      BY <1>1, PrefixLen
    <3>2. Len(q) = Len(r)
      BY <1>1, <2>2, <3>1
    <3> QED
      BY <3>1, <3>2
  <2> QED
    BY <1>1, <2>1, <2>3, PrefixRefl
<1> QED
  BY <1>5, <1>7

(* The output goes up to a path that is not longer.                        *)
LEMMA ClimbedTo ==
  ASSUME Placed, <<>> \in tree.changed
  PROVE  Climbed(cpath) \in Paths /\ Len(Climbed(cpath)) \in Nat
         /\ Len(Climbed(cpath)) <= Len(cpath)
<1>1. cpath \in Paths
  BY DEF Placed
<1>2. Climbed(cpath) \in Prefixes(cpath)
  <2>1. Climbed(cpath) = cpath \/ Climbed(cpath) \in Prefixes(cpath) \cap tree.changed
    BY <1>1, LongestPrefix DEF Climbed
  <2> QED
    BY <1>1, <2>1, PrefixesAre
<1> QED
  BY <1>1, <1>2, PrefixesAre, PrefixLen, AtIs

(* The beginning of a call may go up: nothing that was read is behind.     *)
LEMMA ListStart ==
  ASSUME LInv, StartWrite, UNCHANGED <<in, count>> PROVE LInv'
<1> DEFINE at == Climbed(cpath)
           n == Len(bpath) - (Len(cpath) - Len(at))
<1>1. /\ InputOk /\ Placed /\ OrderOk /\ FdOk /\ ListTree /\ ListRound
      /\ sorted /\ number \in {0, 1} /\ TreeOk(tree)
  BY DEF LInv, InputOk
<1>2. /\ pc = "write" /\ tree' = Get(tree, cpath) /\ cpath' = at /\ after' = 0
      /\ pc' \in {"free", "visit"} /\ (pc' = "visit" => fdstack # <<>>)
      /\ bpath' = SubSeq(bpath, 1, n)
      /\ UNCHANGED <<sorted, number, fd, fdstack, log>>
  BY DEF StartWrite
<1>3. /\ cpath \in Paths /\ bpath \in Paths /\ fd \in Paths /\ fdstack \in Seq(Paths)
      /\ log \in Seq(Written1) /\ Ordered(log)
  BY <1>1 DEF Placed
<1>4. at \in Paths /\ Len(at) \in Nat /\ Len(at) <= Len(cpath)
  BY <1>1, <1>2, ClimbedTo DEF ListTree
<1>5. SubSeq(bpath, 1, n) \in Paths
  <2>1. Len(cpath) \in Nat /\ Len(bpath) \in Nat
    BY <1>3, AtIs
  <2>2. n \in Int /\ n <= Len(bpath)
    BY <1>4, <2>1
  <2> HIDE DEF n
  <2> QED
    BY <1>3, <2>1, <2>2 DEF Paths
<1> HIDE DEF at, n
<1>6. Placed'
  BY <1>2, <1>3, <1>4, <1>5 DEF Placed
<1>7. /\ TreeOk(tree') /\ tree'.filled = tree.filled /\ tree'.changed = tree.changed
      /\ tree'.sorting = tree.sorting
  BY <1>1, <1>2, <1>3, GetOk
<1>8. InputOk'
  BY <1>1, <1>2, <1>7 DEF InputOk
<1>9. Filled' = Filled
  BY <1>7 DEF Filled
<1>10. OrderOk'
  <2>1. \A q \in Filled : Later(q)'
    BY <1>1, <1>2 DEF OrderOk, Reading, Later
  <2> QED
    BY <1>2, <1>9, <2>1 DEF OrderOk, Reading
<1>11. FdOk'
  BY <1>1, <1>2, <1>9 DEF FdOk, Later, Current
<1>12. ListTree'
  BY <1>1, <1>2, <1>7 DEF ListTree, MarksOk
<1>13. ListRound'
  BY <1>1, <1>2, <1>9 DEF ListRound
<1> QED
  BY <1>1, <1>2, <1>6, <1>8, <1>10, <1>11, <1>12, <1>13 DEF LInv

(* A new line is an old one, or that of something in the tree.             *)
LEMMA LinesFrom ==
  ASSUME TreeOk(tree), Placed, OrderOk, pc = "visit", Following # {},
         log' = Logged(Entry) \/ \E dump : log' = Truncated(Logged(Entry), dump)
  PROVE  \A i \in 1 .. Len(log') :
            log'[i].path \in Filled \/ \E j \in 1 .. Len(log) : log'[i] = log[j]
<1>1. Entry \in Paths \ {<<>>}
  BY EntryIs DEF Placed
<1>2. CASE Entry \in tree.filled
  <2>1. LogFrom(log', Entry) /\ Entry \in Filled
    BY <1>1, <1>2, LineWritten DEF Filled
  <2> QED
    BY <2>1 DEF LogFrom
<1>3. CASE Entry \notin tree.filled
  <2>1. Logged(Entry) = log /\ log \in Seq(Written1) /\ Ordered(log)
    BY <1>3 DEF Logged, Placed
  <2>2. \A dump : From(Truncated(log, dump), log, Len(log))
    BY <2>1, TruncatedKeeps
  <2> QED
    BY <2>1, <2>2 DEF From
<1> QED
  BY <1>2, <1>3

(* The lines left are after a new line as after all others.                *)
LEMMA FdStays ==
  ASSUME TreeOk(tree), Placed, OrderOk, FdOk, pc = "visit", Following # {},
         log' = Logged(Entry) \/ \E dump : log' = Truncated(Logged(Entry), dump),
         UNCHANGED <<tree, in>>
  PROVE  FdOk'
<1> SUFFICES ASSUME in # <<>> PROVE FdOk'
  BY DEF FdOk
<1>1. Current' = Current /\ Filled' = Filled
  BY DEF Current, Filled
<1>2. ASSUME NEW q, Later(q), \A r \in Filled : Before(r, q) PROVE Later(q)'
  BY <1>2, LinesFrom DEF Later
<1> QED
  BY <1>1, <1>2 DEF FdOk

(* What is left to show for a step among the entries.                      *)
LEMMA ListGoesOn ==
  ASSUME LInv, UNCHANGED <<tree, in, count, sorted, number>>, pc = "visit",
         pc' \in {"visit", "free"}, pc' = "visit" => fdstack' # <<>>,
         Placed', OrderOk', FdOk'
  PROVE  LInv'
<1>1. InputOk /\ ListTree /\ ListRound /\ sorted /\ number \in {0, 1}
  BY DEF LInv
<1>2. InputOk' /\ ListTree'
  BY <1>1 DEF InputOk, ListTree
<1>3. ListRound'
  BY <1>1 DEF ListRound, Filled
<1> QED
  BY <1>1, <1>2, <1>3 DEF LInv

(* Every step of the output of a sorted list.                              *)
LEMMA ListWrite ==
  ASSUME LInv, Write, UNCHANGED <<in, count>> PROVE LInv'
<1>1. /\ TreeOk(tree) /\ Placed /\ OrderOk /\ FdOk /\ ListRound /\ sorted
      /\ fdstack \in Seq(Paths)
  BY DEF LInv, InputOk, Placed
<1>2. ~Postpone
  BY <1>1 DEF Postpone
<1>3. CASE Stop
  <2>1. /\ pc = "visit" /\ Following # {} /\ log' = Logged(Entry) /\ pc' = "free"
        /\ UNCHANGED <<tree, sorted, number>>
    BY <1>3 DEF Stop
  <2>2. Placed' /\ OrderOk' /\ FdOk'
    BY <1>1, <1>3, <2>1, StopGoes, FdStays
  <2> QED
    BY <2>1, <2>2, ListGoesOn
<1>4. CASE Pass
  <2>1. /\ pc = "visit" /\ Following # {} /\ log' = Logged(Entry) /\ pc' = "visit"
        /\ UNCHANGED <<tree, sorted, number, fdstack>>
    BY <1>4 DEF Pass
  <2>2. Placed' /\ OrderOk' /\ FdOk'
    BY <1>1, <1>4, <2>1, PassGoes, FdStays
  <2>3. fdstack' # <<>>
    BY <1>1, <2>1 DEF ListRound
  <2> QED
    BY <2>1, <2>2, <2>3, ListGoesOn
<1>5. CASE Enter
  <2>1. /\ pc = "visit" /\ Following # {} /\ pc' = "visit"
        /\ log' = Logged(Entry) \/ \E d : log' = Truncated(Logged(Entry), d)
        /\ UNCHANGED <<tree, sorted, number>>
    BY <1>5 DEF Enter
  <2>2. Placed' /\ OrderOk' /\ FdOk' /\ Len(fdstack') = 1 + Len(fdstack)
    BY <1>1, <1>5, <2>1, EnterGoes, FdStays
  <2>3. fdstack' # <<>>
    <3>1. Len(fdstack) \in Nat
      BY <1>1
    <3>2. Len(fdstack') # 0
      BY <2>2, <3>1
    <3> QED
      BY <3>2
  <2> QED
    BY <2>1, <2>2, <2>3, ListGoesOn
<1>6. CASE Wait
  <2>1. pc = "visit" /\ pc' = "free" /\ UNCHANGED <<tree, sorted, number, output>>
    BY <1>6 DEF Wait
  <2>2. UNCHANGED <<cpath, after, bpath, fd, fdstack, log>>
    BY <2>1 DEF output
  <2>3. Placed' /\ OrderOk' /\ FdOk'
    BY <1>1, <2>1, <2>2 DEF Placed, OrderOk, Reading, FdOk, Current, Filled, Later
  <2> QED
    BY <2>1, <2>3, ListGoesOn
<1>7. CASE Leave
  <2>1. pc = "visit" /\ fdstack # <<>>
    BY <1>1, <1>7 DEF Leave, ListRound
  <2>2. /\ Placed' /\ OrderOk' /\ pc' \in {"visit", "free"}
        /\ pc' = "visit" => fdstack' # <<>>
        /\ UNCHANGED <<tree, number, log, sorted>>
    BY <1>1, <1>7, <2>1, LeaveGoes
  <2>3. FdOk'
    BY <1>1, <2>2 DEF FdOk, Current, Filled, Later
  <2> QED
    BY <2>1, <2>2, <2>3, ListGoesOn
<1>8. CASE StartWrite
  BY <1>8, ListStart
<1> QED
  BY <1>2, <1>3, <1>4, <1>5, <1>6, <1>7, <1>8 DEF Write

(* A round of the list ends with an empty tree: nothing is left for later.  *)
LEMMA ListFreed ==
  ASSUME TreeOk(tree), MarksOk(tree), tree.sorting = {}, <<>> \in tree.changed, Filled # {}
  PROVE  LET f == Freed(tree)
         IN  f.filled \ {<<>>} = {} /\ f.sorting = {} /\ MarksOk(f) /\ <<>> \in f.changed
<1> DEFINE f == Freed(tree)
<1>1. /\ tree.filled \subseteq tree.node /\ tree.changed \subseteq tree.node
      /\ tree.node \subseteq Paths
  BY DEF TreeOk, Trees
<1>2. ~(<<>> \notin tree.changed \ tree.sorting \/ ~HasSub(tree, <<>>))
  BY <1>1, FilledHasSub DEF Filled
<1>3. /\ f \in Trees /\ f.changed = tree.changed \ Removed(tree)
      /\ f.filled = (tree.filled \ ({<<>>} \cup Visited(tree))) \ Removed(tree)
      /\ f.sorting = tree.sorting \ Removed(tree)
  BY <1>2, FreedIs
<1> HIDE DEF f
<1>4. tree.changed \ {<<>>} \subseteq Reached(tree)
  <2> SUFFICES ASSUME NEW p \in tree.changed \ {<<>>} PROVE p \in Reached(tree)
    OBVIOUS
  <2>1. \A q \in Above(p) : q \in tree.changed \ tree.sorting
    BY DEF MarksOk, Above
  <2> QED
    BY <1>1, <2>1 DEF Reached
<1>5. Visited(tree) = Reached(tree) /\ Stops(tree) = {}
  BY DEF Visited, Stops
<1>6. f.filled = {}
  BY <1>3, <1>4, <1>5 DEF MarksOk
<1>7. \A p \in tree.changed \ {<<>>} : p \in Removed(tree)
  BY <1>1, <1>4, <1>5, PrefixRefl DEF Removed
<1>8. <<>> \notin Removed(tree)
  <2> SUFFICES ASSUME NEW q \in Visited(tree), IsPrefix(q, <<>>) PROVE FALSE
    BY DEF Removed
  <2>1. q \in Paths /\ q # <<>>
    BY <1>1, <1>5 DEF Reached
  <2> QED
    BY <2>1, RootPrefixes, PrefixesAre
<1>9. f.changed = {<<>>} /\ f.sorting = {}
  BY <1>3, <1>7, <1>8
<1>10. MarksOk(f)
  BY <1>6, <1>9, RootPrefixes DEF MarksOk
<1> QED
  BY <1>6, <1>9, <1>10 DEF f

(* Freeing ends a round with an empty tree, or the program.                *)
LEMMA ListFree == ASSUME LInv, Free PROVE LInv'
<1>1. /\ InputOk /\ Placed /\ OrderOk /\ FdOk /\ ListTree /\ ListRound
      /\ sorted /\ number \in {0, 1} /\ TreeOk(tree)
  BY DEF LInv, InputOk
<1>2. /\ pc = "free" /\ tree' = Freed(tree) /\ pc' = (IF number = 0 THEN "done" ELSE "read")
      /\ UNCHANGED <<in, sorted, count, number, cpath, after, bpath, fd, fdstack, log>>
  BY <1>1 DEF Free, output
<1>3. InputOk'
  BY <1>1, <1>2, FreedOk DEF InputOk
<1>4. Placed'
  BY <1>1, <1>2 DEF Placed
<1>5. Filled' \subseteq Filled
  <2>1. Freed(tree).filled \subseteq tree.filled
    BY <1>1, FreedIs
  <2> QED
    BY <1>2, <2>1 DEF Filled
<1>6. FdOk'
  BY <1>1, <1>2, <1>5 DEF FdOk, Current, Later
<1>7. CASE number = 0
  <2>1. pc' = "done"
    BY <1>2, <1>7
  <2> QED
    BY <1>1, <1>2, <1>3, <1>4, <1>6, <2>1 DEF LInv, OrderOk, Reading, ListTree, ListRound
<1>8. CASE number = 1
  <2>1. pc' = "read" /\ count = 0 /\ Filled # {} /\ Len(in) <= 1
    BY <1>1, <1>2, <1>8 DEF ListRound
  <2>2. MarksOk(tree) /\ tree.sorting = {} /\ <<>> \in tree.changed
    BY <1>1, <1>2 DEF ListTree
  <2>3. Filled' = {} /\ tree'.sorting = {} /\ MarksOk(tree') /\ <<>> \in tree'.changed
    BY <1>1, <1>2, <2>1, <2>2, ListFreed DEF Filled
  <2>4. OrderOk' /\ ListTree'
    BY <2>1, <2>3 DEF OrderOk, ListTree
  <2>5. ListRound'
    BY <1>2, <2>1, <2>3 DEF ListRound
  <2> QED
    BY <1>1, <1>2, <1>3, <1>4, <1>6, <2>1, <2>4, <2>5 DEF LInv
<1> QED
  BY <1>1, <1>7, <1>8

(* The last call of a list.                                                *)
LEMMA ListLast == ASSUME LInv, LastWrite PROVE LInv'
<1>1. /\ pc = "last" /\ pc' = "write"
      /\ UNCHANGED <<tree, in, sorted, count, number, cpath, after, bpath, fd, fdstack, log>>
  BY DEF LastWrite, input, output
<1>2. /\ InputOk /\ Placed /\ OrderOk /\ FdOk /\ ListTree /\ ListRound
      /\ sorted /\ number \in {0, 1}
  BY DEF LInv
<1>3. InputOk' /\ Placed' /\ FdOk' /\ ListTree'
  BY <1>1, <1>2 DEF InputOk, Placed, FdOk, Current, Filled, Later, ListTree
<1>4. OrderOk'
  BY <1>1, <1>2 DEF OrderOk, Reading, Filled, Later
<1>5. ListRound'
  BY <1>1, <1>2 DEF ListRound
<1> QED
  BY <1>1, <1>2, <1>3, <1>4, <1>5 DEF LInv

(* Every step keeps the invariant of a list.                               *)
LEMMA ListStep == ASSUME LInv, [Next]_vars PROVE LInv'
<1>1. ASSUME UNCHANGED vars PROVE LInv'
  BY <1>1 DEF vars, input, output, LInv, InputOk, Placed, OrderOk, Reading, FdOk, Current,
              Filled, Later, Pos, ListTree, ListRound
<1>2. CASE Fetch
  BY <1>2, ListRead DEF Fetch
<1>3. CASE Emit
  BY <1>3, ListWrite DEF Emit
<1> QED
  BY <1>1, <1>2, <1>3, ListLast, ListFree DEF Next, Done

(* It holds at the beginning.                                              *)
LEMMA ListBegins == ASSUME Init, OrderedList PROVE LInv
<1>1. /\ InputOk /\ OutputOk /\ OrderOk /\ MarksOk(tree) /\ sorted
      /\ Filled = {} /\ tree = NewTree /\ count = 0 /\ number = 0 /\ pc = "read"
      /\ log = <<>> /\ cpath = <<>> /\ fdstack # <<>>
  BY Begins DEF OrderedList
<1>2. PICK cmd \in Commands :
        sources = cmd /\ Len(in) = 1 /\ 1 \in DOMAIN cmd /\ Current = Opened(cmd[1])
  BY <1>1, Begins
<1>3. cmd[1].kind = "list" /\ TreeOrder(cmd[1].lines[<<>>])
  BY <1>2 DEF OrderedList
<1>4. /\ Current.kind = "list" /\ Current.pending = <<>> /\ Current.step = "open"
      /\ Current.fd = cmd[1].lines[<<>>]
  BY <1>2, <1>3 DEF Opened
<1>5. \A q : Later(q)
  BY <1>1, Len(<<>>) = 0 DEF Later
<1>6. FdOk
  BY <1>1, <1>3, <1>4, <1>5 DEF FdOk
<1>7. ListTree /\ ListRound
  BY <1>1, <1>2 DEF ListTree, ListRound, NewTree
<1> QED
  BY <1>1, <1>6, <1>7, OutputPlaced DEF LInv

(* It always holds.                                                        *)
LEMMA ListAlways == Spec => [](OrderedList => LInv)
<1>1. Init => (OrderedList => LInv)
  BY ListBegins
<1>2. (OrderedList => LInv) /\ [Next]_vars => (OrderedList => LInv)'
  <2> SUFFICES ASSUME OrderedList => LInv, [Next]_vars, OrderedList' PROVE LInv'
    OBVIOUS
  <2>1. UNCHANGED <<sources, sorted>>
    BY DEF Next, vars, input, output, Fetch, Emit, LastWrite, Free, Done, Read, Write,
           ReadBase, OpenDir, ReadEntry, PauseDir, EndDir, NextDir, EndSource, ReadLines,
           NextList, Enough, Postpone, StartWrite, Stop, Pass, Enter, Wait, Leave
  <2>2. OrderedList
    BY <2>1 DEF OrderedList
  <2> QED
    BY <2>2, ListStep
<1> QED
  BY <1>1, <1>2, PTL DEF Spec

(* A list with its lines in the order of the tree, read as a sorted one,   *)
(* is written in this order and nothing in it twice, in whatever rounds it *)
(* is read and wherever the output goes up to when a round begins; and     *)
(* between two rounds nothing is left in the tree that was written.        *)
THEOREM OrderedListInOrder == Spec => [](OrderedList => InOrder /\ WrittenIsFreed)
<1>1. LInv => InOrder /\ WrittenIsFreed
  BY LogInOrder, LaterIsFreed DEF LInv, Placed
<1> QED
  BY <1>1, ListAlways, PTL
==============================================================================
