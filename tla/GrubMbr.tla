------------------------------- MODULE GrubMbr -------------------------------
(***************************************************************************)
(* grub-mbr-default (grub-mbr-default/grub-mbr-default.c): each time it    *)
(* boots an entry, GRUB saves the number of the next one, so that a system *)
(* that does not come up is followed by another; a system that does runs   *)
(* this program, which makes its own entry the default again.              *)
(*                                                                         *)
(* With -round the entries are in series of `round`, each several times *)
(* the same system, and the first of the series is saved.  The power may   *)
(* fail at any moment.                                                     *)
(***************************************************************************)
EXTENDS Integers, Sequences

CONSTANTS
  LastEntry, \* the entries are 0 .. LastEntry
  Rounds,    \* lengths of the series
  MaxCalls   \* bound on the calls of the program while an entry runs

ASSUME LastAssumption == LastEntry \in Nat
ASSUME RoundsAssumption == Rounds \subseteq Nat \ {0}

Off == -1
Series == -1    \* asked with --, -round: the first entry of the series

VARIABLES
  round,
  saved,    \* the number in the sector
  booted,   \* the entry that runs, Off if the machine is off
  byhand,   \* it was chosen by hand, and saved nothing
  asked,    \* the program's argument: an entry or Series
  entryno,  \* what the program read
  calls,    \* how often the program was called since the machine booted
  written,  \* what it was asked each time it wrote
  gbpc

gbvars == <<round, saved, booted, byhand, asked, entryno, calls, written, gbpc>>

GrubInit ==
  /\ round \in Rounds
  /\ saved \in 0 .. LastEntry
  /\ booted = Off /\ byhand = FALSE
  /\ asked = 0 /\ entryno = 0 /\ calls = 0 /\ written = <<>> /\ gbpc = "idle"

(* Of C: the remainder has the sign of the dividend.                       *)
Remainder(a, b) == IF a < 0 THEN -((-a) % b) ELSE a % b

Boots(entry) ==
  /\ booted = Off /\ booted' = entry
  /\ calls' = 0 /\ written' = <<>>
  /\ UNCHANGED <<round, asked, entryno, gbpc>>

(* 'savedefault fallback' before an entry is booted.                       *)
Boot == saved \in 0 .. LastEntry /\ Boots(saved) /\ saved' = saved + 1 /\ byhand' = FALSE

BootByHand == \E e \in 0 .. LastEntry : Boots(e) /\ byhand' = TRUE /\ UNCHANGED saved

(* The system does not come up, is restarted, or the power fails.          *)
Stop ==
  /\ booted # Off
  /\ booted' = Off /\ gbpc' = "idle"
  /\ UNCHANGED <<round, saved, byhand, asked, entryno, calls, written>>

(* The sector is read; a device that fails or without the signature of     *)
(* GRUB ends the program, and so does its call without a number.  Repeated *)
(* after boots by hand it counts down for ever: Lowest is a bound.         *)
Lowest == -2
ReadSector ==
  /\ booted # Off /\ gbpc = "idle"
  /\ calls < MaxCalls /\ saved > Lowest
  /\ calls' = calls + 1
  /\ \/ /\ asked' \in {Series} \cup 0 .. LastEntry
        /\ entryno' = saved /\ gbpc' = "write"
     \/ UNCHANGED <<asked, entryno, gbpc>>
  /\ UNCHANGED <<round, saved, booted, byhand, written>>

(* Mutant: the number saved is taken for that of the entry that runs. *)
NewEntryNext(n) == IF asked = Series THEN n - Remainder(n, round) ELSE asked

NewEntry(n) == IF asked = Series THEN (n - 1) - Remainder(n - 1, round) ELSE asked

WriteSector ==
  /\ gbpc = "write"
  /\ \/ saved' = NewEntry(entryno) /\ written' = Append(written, asked)
     \/ UNCHANGED <<saved, written>>
  /\ gbpc' = "idle"
  /\ UNCHANGED <<round, booted, byhand, asked, entryno, calls>>

GrubNext == Boot \/ BootByHand \/ Stop \/ ReadSector \/ WriteSector

GrubSpec == GrubInit /\ [][GrubNext]_gbvars

----------------------------------------------------------------------------
(* However many boots failed before, a system that came up and ran the      *)
(* program once leaves the first entry of its own series as the default,   *)
(* not the entry that ran nor the one after it; if the power failed before *)
(* the sector was written, the next entry is tried.                        *)
SeriesKept ==
  booted # Off /\ ~byhand =>
    /\ written = <<>> => saved = booted + 1
    /\ written = <<Series>> => saved = (booted \div round) * round
=============================================================================
