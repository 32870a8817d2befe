----------------------------- MODULE MCEnvStore -----------------------------
(* Instances of the environment for TLC: sda2 or nvme0n1p2, xfs or         *)
(* squashfs, and user variables that are short or long.                    *)
EXTENDS EnvStore

MCPartTypes == {<<4, 3>>, <<9, 8>>}
MCSizes == {4, 60}
MCStart == <<[name |-> "HOME", size |-> 4], [name |-> "TERM", size |-> 60]>>
=============================================================================
