------------------------------ MODULE EnvStore ------------------------------
(***************************************************************************)
(* The environment of init/init.c: se, which sets or unsets a variable,    *)
(* and the end of fp, which sets four.  Both copy the environment into a   *)
(* new block of memory to make it grow; fp writes into the current block   *)
(* when it holds that the variables it replaces left enough room there.    *)
(*                                                                         *)
(* A variable is what is read through its pointer: a name and the size of  *)
(* its text with the trailing zero.  Memory is the current block only: the *)
(* place of each text in it, its size and that of the array of pointers.   *)
(***************************************************************************)
EXTENDS Naturals, Sequences, SequencesExt

CONSTANTS
  Names,       \* the variables se is used on
  Sizes,       \* the sizes of their texts
  PartTypes,   \* lengths of the names of two partitions, and of their types
  Start,       \* the environment the kernel passes
  MaxVars      \* bound on the variables, which repetitions would exceed

(* The variables of fp, in the order in which it appends them. *)
FpNames == <<"chosen_part", "chosen_type", "second_part", "second_type">>

ASSUME NamesAssumption == ToSet(FpNames) \cap Names = {}
ASSUME SizesAssumption == Sizes \subseteq Nat \ {0}
ASSUME PartTypesAssumption == PartTypes \subseteq Nat \X Nat
ASSUME BoundAssumption == MaxVars \in Nat
ASSUME StartAssumption ==
  /\ Start \in Seq([name : Names, size : Sizes])
  /\ \A i, j \in DOMAIN Start : Start[i].name = Start[j].name => i = j

VARIABLES
  envp,      \* the variables with the places of their texts
  block,     \* bytes allocated for the texts
  slots,     \* entries allocated for the pointers
  expected,  \* the variables that were set and not unset
  reused     \* fp has written into the current block

evvars == <<envp, block, slots, expected, reused>>

(* Where texts written one after the other end. *)
Offsets(env) ==
  LET to[i \in 0 .. Len(env)] == IF i = 0 THEN 0 ELSE to[i - 1] + env[i].size
  IN to

(* env_size(): bytes and entries, with the final NULL. *)
Bytes(env) == Offsets(env)[Len(env)]
Entries(env) == Len(env) + 1

(* my_getenv(.., 1): the last assignment of the variable goes. *)
Without(env, name) ==
  LET found == {i \in DOMAIN env : env[i].name = name}
  IN IF found = {} THEN env
     ELSE RemoveAt(env, CHOOSE i \in found : \A j \in found : j <= i)

(* The texts one after the other from a place on, as env_dup() and         *)
(* successive env_append_var() write them.                                 *)
Place(env, from) ==
  [i \in DOMAIN env |-> [name |-> env[i].name, size |-> env[i].size,
                         at |-> from + Offsets(env)[i - 1]]]

EnvInit ==
  /\ envp = Place(Start, 0)
  /\ block = Bytes(Start)
  /\ slots = Entries(Start)
  /\ expected = {v.name : v \in ToSet(Start)}
  /\ reused = FALSE

-----------------------------------------------------------------------------

Unset(name) ==
  /\ envp' = Without(envp, name)
  /\ expected' = expected \ {name}
  /\ UNCHANGED <<block, slots, reused>>

(* Mutant: no room for the trailing zero. *)
SetEnvNoZero(name, size) ==
  LET kept == Without(envp, name)
  IN /\ Len(kept) < MaxVars
     /\ envp' = Place(kept \o <<[name |-> name, size |-> size]>>, 0)
     /\ block' = Bytes(kept) + size - 1
     /\ slots' = Entries(kept) + 1
     /\ expected' = expected \cup {name}
     /\ UNCHANGED reused

SetEnv(name, size) ==
  LET kept == Without(envp, name)
  IN /\ Len(kept) < MaxVars
     /\ envp' = Place(kept \o <<[name |-> name, size |-> size]>>, 0)
     /\ block' = Bytes(kept) + size
     /\ slots' = Entries(kept) + 1
     /\ expected' = expected \cup {name}
     /\ UNCHANGED reused

(* "name=/dev/<part>" and "name=<type>" with their zeroes, for names and   *)
(* types of p and t characters.                                            *)
FpTexts(p, t) ==
  [i \in 1 .. 4 |-> [name |-> FpNames[i],
                     size |-> IF i \in {1, 3} THEN 18 + p ELSE 13 + t]]

(* What fp allows for them; it counts "/dev/" twice. *)
AllocSize(p, t) == 4 * 12 + 2 * (5 + 5 + 1) + 2 + 2 * p + 2 * t

RemoveAll(env) ==
  Without(Without(Without(Without(env, FpNames[1]), FpNames[2]), FpNames[3]), FpNames[4])

FitsInPlace(kept, p, t) ==
  /\ Bytes(kept) + AllocSize(p, t) <= Bytes(envp)
  /\ Entries(kept) + 4 <= Entries(envp)
  /\ kept # <<>>

(* Mutant: the final NULL has no entry of its own. *)
FpExpandNoNull(p, t) ==
  LET kept == RemoveAll(envp)
  IN /\ Len(kept) + 4 <= MaxVars
     /\ ~FitsInPlace(kept, p, t)
     /\ envp' = Place(kept \o FpTexts(p, t), 0)
     /\ block' = Bytes(kept) + AllocSize(p, t)
     /\ slots' = Len(kept) + 4
     /\ expected' = expected \cup ToSet(FpNames)
     /\ UNCHANGED reused

FpExpand(p, t) ==
  LET kept == RemoveAll(envp)
  IN /\ Len(kept) + 4 <= MaxVars
     /\ ~FitsInPlace(kept, p, t)
     /\ envp' = Place(kept \o FpTexts(p, t), 0)
     /\ block' = Bytes(kept) + AllocSize(p, t)
     /\ slots' = Entries(kept) + 4
     /\ expected' = expected \cup ToSet(FpNames)
     /\ UNCHANGED reused

(* env_get_tail() returns the beginning of the last text, not its end, so  *)
(* that what is written first is what the last variable reads from then on.*)
FpInPlace(p, t) ==
  LET kept == RemoveAll(envp)
      last == Len(kept)
      texts == Place(FpTexts(p, t), kept[last].at)
  IN /\ FitsInPlace(kept, p, t)
     /\ envp' = [kept EXCEPT ![last] = texts[1]] \o texts
     /\ expected' = expected \cup ToSet(FpNames)
     /\ reused' = TRUE
     /\ UNCHANGED <<block, slots>>

EnvNext ==
  \/ \E name \in Names : Unset(name) \/ \E size \in Sizes : SetEnv(name, size)
  \/ \E pt \in PartTypes : FpExpand(pt[1], pt[2]) \/ FpInPlace(pt[1], pt[2])

EnvSpec == EnvInit /\ [][EnvNext]_evvars

-----------------------------------------------------------------------------
(* Properties. *)

(* The variables read from the environment are those that were set and not *)
(* unset since, each once.                                                 *)
Holds == /\ {v.name : v \in ToSet(envp)} = expected
         /\ \A i, j \in DOMAIN envp : envp[i].name = envp[j].name => i = j

(* Every text ends before the next begins, the last one within the block.  *)
Fits ==
  \A i \in DOMAIN envp :
    envp[i].at + envp[i].size <= (IF i = Len(envp) THEN block
                                  ELSE envp[i + 1].at)

(* As long as every change copies the environment, nothing is lost and     *)
(* nothing written past its room.  Even when fp writes in place the array  *)
(* of pointers does not overflow, the variables of fp end up set and no    *)
(* variable that was unset comes back.                                     *)
EnvKept ==
  /\ ~reused => Holds /\ Fits
  /\ Entries(envp) <= slots
  /\ {v.name : v \in ToSet(envp)} \subseteq expected
  /\ ToSet(FpNames) \cap expected # {} =>
       ToSet(FpNames) \subseteq {v.name : v \in ToSet(envp)}

(* The comment on env_get_tail() says that it returns the first byte after *)
(* the final zero, from where fp appends: no variable is lost.             *)
NothingLost == Holds

=============================================================================
