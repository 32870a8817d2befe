------------------------------- MODULE MkLock -------------------------------
(***************************************************************************)
(* mklock (mktmp/mktmp.c): processes create an entry each, a link or a     *)
(* directory, in one directory under the first number that is free, which  *)
(* their scripts remove when they are done.                                *)
(***************************************************************************)
EXTENDS Naturals

CONSTANTS
  Lockers,
  Left,      \* sets of numbers that may be there from before
  MaxNum     \* bound on the numbers: those left and one for each process

ASSUME MaxNumAssumption == MaxNum \in Nat
ASSUME LeftAssumption == Left \subseteq SUBSET (0 .. MaxNum)

VARIABLES
  entries,   \* the numbers that exist in the directory
  num,       \* the next number of each process
  lock,      \* the number it printed
  lkpc

lkvars == <<entries, num, lock, lkpc>>

NoNumber == MaxNum + 1

LockInit ==
  /\ entries \in Left
  /\ num = [p \in Lockers |-> 0]
  /\ lock = [p \in Lockers |-> NoNumber]
  /\ lkpc = [p \in Lockers |-> "try"]

(* Mutant: an entry that exists is taken. *)
TryAny(p) ==
  /\ lkpc[p] = "try" /\ num[p] <= MaxNum
  /\ num' = [num EXCEPT ![p] = @ + 1]
  /\ entries' = entries \cup {num[p]}
  /\ lock' = [lock EXCEPT ![p] = num[p]]
  /\ lkpc' = [lkpc EXCEPT ![p] = "held"]

(* symlink() or mkdir() creates the entry or tells that it exists.         *)
Try(p) ==
  /\ lkpc[p] = "try" /\ num[p] <= MaxNum
  /\ num' = [num EXCEPT ![p] = @ + 1]
  /\ IF num[p] \in entries
     THEN UNCHANGED <<entries, lock, lkpc>>
     ELSE /\ entries' = entries \cup {num[p]}
          /\ lock' = [lock EXCEPT ![p] = num[p]]
          /\ lkpc' = [lkpc EXCEPT ![p] = "held"]

(* Any other error ends it with status 2.                                  *)
GiveUp(p) ==
  /\ lkpc[p] = "try"
  /\ num' = [num EXCEPT ![p] = @ + 1]
  /\ lkpc' = [lkpc EXCEPT ![p] = "failed"]
  /\ UNCHANGED <<entries, lock>>

(* The script removes the entry it was given, and may lock again.          *)
Release(p) ==
  /\ lkpc[p] = "held"
  /\ entries' = entries \ {lock[p]}
  /\ lock' = [lock EXCEPT ![p] = NoNumber]
  /\ num' = [num EXCEPT ![p] = 0]
  /\ lkpc' = [lkpc EXCEPT ![p] = "released"]

LockAgain(p) ==
  /\ lkpc[p] = "released"
  /\ lkpc' = [lkpc EXCEPT ![p] = "try"]
  /\ UNCHANGED <<entries, num, lock>>

LockNext == \E p \in Lockers : Try(p) \/ GiveUp(p) \/ Release(p) \/ LockAgain(p)

LockSpec == LockInit /\ [][LockNext]_lkvars

----------------------------------------------------------------------------
Holding(p) == lkpc[p] = "held"

(* However the processes overlap, the entries they were given are in the   *)
(* directory and no two are the same, also when numbers are used again.    *)
OneHolder ==
  \A p \in Lockers : Holding(p) =>
    /\ lock[p] \in entries
    /\ \A q \in Lockers \ {p} : Holding(q) => lock[q] # lock[p]
=============================================================================
