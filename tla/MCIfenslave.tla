---------------------------- MODULE MCIfenslave ----------------------------
(* Instances of ifenslave for TLC. *)
EXTENDS Ifenslave, TLC

CONSTANTS s1, s2, s3

(* One slave, two, one named twice or tried again, and three. *)
MCLists == {<<s1>>, <<s1, s1>>, <<s1, s2>>, <<s1, s2, s1>>, <<s1, s2, s3>>}
=============================================================================
