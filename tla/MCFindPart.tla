----------------------------- MODULE MCFindPart -----------------------------
(* Instances of the partition search for TLC. *)
EXTENDS FindPart

P(n, type) == [size |-> n, type |-> type]

Flash == P(8, "ext4")
Partitions == {P(16, "squashfs"), P(16, "xfs"), P(16, "ext4"), P(32, "squashfs"),
           P(32, "xfs")}
Mates == {P(16, "squashfs"), P(16, "xfs"), P(32, "xfs")}

(* One disk with room for two overlapping pairs, the last one possibly too *)
(* small for an image or for /flash.                                       *)
OneDisk ==
  {<< <<a, b, c, d>> >> : a \in {Flash, P(4, "ext4"), P(8, "xfs")},
                          b \in Partitions, c \in Mates,
                          d \in Mates \cup {P(8, "squashfs")}}

(* Two disks with one pair each, or none. *)
TwoDisks ==
  {<< <<Flash, a, b>>, <<Flash, c, d>> >> :
     a \in Mates, b \in Partitions, c \in Mates, d \in Mates}

MCTables == OneDisk \cup TwoDisks
MCExtTypes == {"ext4"}
MCLists == {<<>>, <<"xfs">>, <<"ext4", "xfs">>, <<"ubifs", "xfs", "squashfs">>}
=============================================================================
