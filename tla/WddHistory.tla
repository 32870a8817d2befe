------------------------------ MODULE WddHistory ------------------------------
(***************************************************************************)
(* The watchdog daemon with a memory of what happened to it, to bound how  *)
(* long it keeps the driver alive on a failing system and to show that it  *)
(* never lets a healthy one be reset.                                      *)
(***************************************************************************)
EXTENDS Wdd

VARIABLES
  pings,  \* for each file checked, the pings since it is out of order
  same,   \* the checks that found the alive file unchanged, in a row
  calm    \* nothing has ever been out of order and no second was lost

hvars == <<vars, pings, same, calm>>

(* The history counts no further than what tells its bounds apart. *)
Upto(n, bound) == IF n > bound THEN bound ELSE n

HInit == /\ Init
         /\ pings = [f \in Files |-> 0]
         /\ same = 0
         /\ calm = (broken = {})

HNext ==
  /\ Next
  /\ pings' = [f \in Files |-> IF f \notin broken' \cap Kept THEN 0
                               ELSE IF pc = "ping" /\ pc' = "malloc"
                               THEN Upto(pings[f] + 1, NFiles + 1) ELSE pings[f]]
  /\ same' = IF CheckTouch /\ touch_file /\ stat_count > 0
             THEN IF stamp = file_stat THEN Upto(same + 1, stat_count + 1) ELSE 0
             ELSE same
  /\ calm' = (calm /\ broken' = {} /\ ~Stall)

HSpec == HInit /\ [][HNext]_hvars

(* The fairness of Wdd: the daemon is scheduled and time passes. *)
HFairSpec == HSpec /\ WF_vars(Daemon) /\ WF_vars(Tick)

(* A file that breaks is noticed before the driver has been pinged more    *)
(* often than there are files to check. *)
DetectionBound ==
  pc # "startup" => \A f \in Kept : pings[f] <= nargs

(* A system that works, on a machine that is not overloaded, is never      *)
(* reset, and the daemon stays, as long as no alive file is watched.       *)
NoFalseAlarm ==
  calm /\ (~touch_file \/ stat_count = 0) => ~Over

(* The alive file may be found unchanged stat_count - 1 times in a row;    *)
(* the daemon is gone with the next. *)
StillFileBound ==
  touch_file /\ stat_count > 0 =>
    /\ ~Over => same < stat_count
    /\ pc = "exited" /\ calm => same = stat_count
=============================================================================
