---------------------------- MODULE NoCtrlAltDel ----------------------------
(***************************************************************************)
(* scripts/noctrlaltdel, which init starts each time the keys are pressed: *)
(* a first press leaves a subshell of the script that sleeps two seconds,  *)
(* a script that finds another one, or such a subshell, kills what it      *)
(* found and becomes the shutdown.  Presses may come at the same time.     *)
(***************************************************************************)
CONSTANTS
  Presses,   \* the presses of the keys
  Earlier    \* those whose scripts ended and only left a subshell

ASSUME EarlierAssumption == Earlier \subseteq Presses

VARIABLES
  unseen,    \* of each script, the processes pidof has still to look at
  found,     \* those it found and has not killed
  saw,       \* it found one at all
  process    \* of each process: none, script, shutdown or gone

kavars == <<unseen, found, saw, process>>

(* Of each press the script and the subshell.                              *)
Pids == Presses \X {"script", "timer"}
Script(p) == <<p, "script">>
Timer(p) == <<p, "timer">>

KeysInit ==
  /\ unseen = [p \in Presses |-> {}] /\ found = [p \in Presses |-> {}]
  /\ saw = [p \in Presses |-> FALSE]
  /\ process = [q \in Pids |-> IF q[1] \notin Earlier THEN "none"
                           ELSE IF q = Timer(q[1]) THEN "script" ELSE "gone"]

(* Mutant: pidof without -o, which gives the number of the script as well. *)
OthersAndSelf(p) == Pids

Others(p) == Pids \ {Script(p)}

Press(p) ==
  /\ process[Script(p)] = "none"
  /\ process' = [process EXCEPT ![Script(p)] = "script"]
  /\ unseen' = [unseen EXCEPT ![p] = Others(p)]
  /\ UNCHANGED <<found, saw>>

Works(p) == process[Script(p)] = "script"
Looked(p) == Works(p) /\ unseen[p] = {}

(* pidof: one process of /proc after the other.                            *)
Look(p) ==
  /\ Works(p)
  /\ \E q \in unseen[p] :
       /\ unseen' = [unseen EXCEPT ![p] = @ \ {q}]
       /\ IF process[q] = "script"
          THEN found' = [found EXCEPT ![p] = @ \cup {q}] /\ saw' = [saw EXCEPT ![p] = TRUE]
          ELSE UNCHANGED <<found, saw>>
  /\ UNCHANGED process

(* One of those found; it may have ended meanwhile, or have become the      *)
(* shutdown, which ends or not.                                            *)
Kill(p) ==
  /\ Looked(p)
  /\ \E q \in found[p] :
       /\ found' = [found EXCEPT ![p] = @ \ {q}]
       /\ \/ process' = [process EXCEPT ![q] = "gone"]
          \/ process[q] = "shutdown" /\ process' = process
  /\ UNCHANGED <<unseen, saw>>

ExecShutdown(p) ==
  /\ Looked(p) /\ saw[p] /\ found[p] = {}
  /\ process' = [process EXCEPT ![Script(p)] = "shutdown"]
  /\ UNCHANGED <<unseen, found, saw>>

(* The subshell, and the end of the script.                                *)
StartTimer(p) ==
  /\ Looked(p) /\ ~saw[p] /\ process[Timer(p)] = "none"
  /\ process' = [process EXCEPT ![Timer(p)] = "script"]
  /\ UNCHANGED <<unseen, found, saw>>

EndProcess(q) ==
  /\ process[q] = "script"
  /\ \E p \in Presses : \/ q = Timer(p)
                        \/ q = Script(p) /\ Looked(p) /\ process[Timer(p)] # "none"
  /\ process' = [process EXCEPT ![q] = "gone"]
  /\ UNCHANGED <<unseen, found, saw>>

KeysNext ==
  \/ \E p \in Presses : Press(p) \/ Look(p) \/ Kill(p) \/ ExecShutdown(p) \/ StartTimer(p)
  \/ \E q \in Pids : EndProcess(q)

KeysSpec == KeysInit /\ [][KeysNext]_kavars

----------------------------------------------------------------------------
(* Whichever scripts kill each other, and although one may kill another    *)
(* that has become the shutdown: once the keys were confirmed and no script *)
(* is at work any more, there is a shutdown.                               *)
ConfirmedShutsDown ==
  (\E p \in Presses : saw[p]) /\ (\A p \in Presses : ~Works(p)) =>
    \E p \in Presses : process[Script(p)] = "shutdown"
=============================================================================
