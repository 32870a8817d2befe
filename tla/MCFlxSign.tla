----------------------------- MODULE MCFlxSign -----------------------------
EXTENDS FlxSign

(* Names are 1 to 3: two directories, one in the other, between files.      *)
E == {<<1>>, <<1, 1>>, <<1, 2>>, <<1, 1, 1>>, <<2>>, <<2, 1>>, <<2, 2>>, <<3>>}
F == {<<>>, <<1>>, <<1, 1>>, <<2>>}

Fs(base, depth, sort) ==
  [kind |-> "fs", base |-> base, depth |-> depth, sort |-> sort,
   lines |-> [p \in {} |-> <<>>]]
List(lines, sort) ==
  [kind |-> "list", base |-> <<>>, depth |-> 0, sort |-> sort,
   lines |-> [p \in {<<>>} |-> lines]]
Lists(lines) ==
  [kind |-> "lists", base |-> <<>>, depth |-> 0, sort |-> TRUE, lines |-> lines]

InTreeOrder == <<<<1>>, <<1, 1>>, <<1, 1, 1>>, <<1, 2>>, <<2>>, <<2, 1>>, <<3>>>>
(* After a piece that ends with its fifth level, it is left.                *)
Deep ==
  <<<<1>>, <<1, 2>>, <<1, 2, 1>>, <<1, 3>>, <<1, 3, 1>>, <<1, 3, 1, 1>>,
    <<1, 3, 1, 1, 1>>, <<1, 3, 1, 1, 2>>, <<1, 3, 1, 2>>, <<2>>, <<2, 1>>, <<3>>>>
PerDirectory ==
  [p \in {<<>>, <<1>>, <<2>>} |->
     CASE p = <<>> -> <<<<1>>, <<2>>, <<3>>>>
       [] p = <<1>> -> <<<<1, 1>>, <<1, 1, 1>>, <<1, 2>>>>
       [] p = <<2>> -> <<<<2, 1>>>>]

C == {<<Fs(<<>>, d, s)>> : d \in 0 .. 3, s \in BOOLEAN}
     \cup {<<Fs(<<4>>, 0, TRUE)>>, <<Fs(<<4, 1>>, 1, TRUE)>>}
     \cup {<<List(SubSeq(InTreeOrder, 1, n), TRUE)>> : n \in 0 .. 7}
     \cup {<<Lists(PerDirectory)>>}
     \cup {<<List(<<<<3>>, <<1, 2>>, <<2, 1>>, <<1>>>>, FALSE)>>}
     \cup {<<List(<<<<5>>, <<4, 1>>>>, TRUE), Fs(<<4>>, 2, TRUE)>>}
     \cup {<<List(Deep, TRUE)>>}
L == 0 .. 2
R == {{}, {<<1>>}}

(* For the run on dumps that are made again.                                *)
CDeep == {<<List(Deep, TRUE)>>}
LDeep == {3}
RNone == {{}}
============================================================================
