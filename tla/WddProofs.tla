------------------------------ MODULE WddProofs ------------------------------
(***************************************************************************)
(* Proofs about the watchdog daemon, for any list of arguments, any counts *)
(* and any set of parts that may break; those of the bounds that need the  *)
(* memory of WddHistory are at the end.                                    *)
(***************************************************************************)
EXTENDS WddHistory, TLAPS

(* What the properties do not say of the arguments but depend on: while    *)
(* they are sorted, the cursor is at most one past the last; afterwards it *)
(* is on one of them, or on 1 when none is left.                           *)
CursorInv ==
  /\ pc = "startup" => curr_file \in 1 .. nargs + 1
  /\ pc \notin {"startup", "exited", "reset"} =>
       curr_file = 1 \/ curr_file \in 1 .. nargs

(* The part of TypeOK the arguments are about. *)
ArgsType ==
  /\ argv \in [1 .. NFiles -> Files]
  /\ nargs \in 0 .. NFiles
  /\ marked \in SUBSET Files
  /\ curr_file \in 1 .. NFiles + 1

(* The count of -c is one of those given. *)
CountInv == stat_count \in Counts

IInv == ArgsType /\ ArgsPartition /\ CursorInv /\ CountInv

(* The daemon starts with every argument in the list and none marked. *)
LEMMA ArgsInit == Init => IInv
BY FilesAssumption
   DEF Init, IInv, ArgsType, ArgsPartition, CursorInv, CountInv, Kept

(* Moving the last argument into the place of one that is marked takes     *)
(* exactly that one out of the list.                                       *)
LEMMA ArgsDrop == IInv /\ DropArg => IInv'
<1> SUFFICES ASSUME IInv, DropArg PROVE IInv'
  OBVIOUS
<1> DEFINE c == curr_file
           x == argv[c]
<1> USE FilesAssumption
<1>1. /\ c \in 1 .. nargs /\ nargs \in 1 .. NFiles
      /\ argv' = [argv EXCEPT ![c] = argv[nargs]]
      /\ nargs' = nargs - 1
      /\ marked' = marked \cup {x}
      /\ curr_file' = c /\ pc = "startup" /\ pc' = pc
  BY DEF IInv, ArgsType, CursorInv, DropArg
<1>2. ArgsType'
  BY <1>1 DEF IInv, ArgsType
<1>3. Kept' = Kept \ {x}
  <2>1. \A i \in 1 .. nargs - 1 : argv'[i] = IF i = c THEN argv[nargs] ELSE argv[i]
    BY <1>1 DEF IInv, ArgsType
  <2>2. \A i, j \in 1 .. nargs : argv[i] = argv[j] => i = j
    BY DEF IInv, ArgsPartition
  <2>3. \A f : f \in Kept' => f \in Kept \ {x}
    <3> SUFFICES ASSUME NEW i \in 1 .. nargs - 1
                 PROVE  argv'[i] \in Kept \ {x}
      BY <1>1 DEF Kept
    <3>1. CASE i = c
      BY <3>1, <2>1, <2>2, <1>1 DEF Kept
    <3>2. CASE i # c
      BY <3>2, <2>1, <2>2, <1>1 DEF Kept
    <3> QED BY <3>1, <3>2
  <2>4. \A f : f \in Kept \ {x} => f \in Kept'
    <3> SUFFICES ASSUME NEW i \in 1 .. nargs, i # c
                 PROVE  argv[i] \in Kept'
      BY <1>1 DEF Kept
    <3>1. CASE i = nargs
      <4>1. c \in 1 .. nargs - 1 /\ argv'[c] = argv[i]
        BY <3>1, <2>1, <1>1
      <4> QED BY <4>1, <1>1 DEF Kept
    <3>2. CASE i # nargs
      <4>1. i \in 1 .. nargs - 1 /\ argv'[i] = argv[i]
        BY <3>2, <2>1, <1>1
      <4> QED BY <4>1, <1>1 DEF Kept
    <3> QED BY <3>1, <3>2
  <2> QED BY <2>3, <2>4
<1>4. ArgsPartition'
  <2>1. Kept' \cup marked' = Files /\ Kept' \cap marked' = {}
    <3>1. x \in Kept /\ x \in Files
      BY <1>1 DEF IInv, ArgsType, Kept
    <3> QED BY <3>1, <1>1, <1>3 DEF IInv, ArgsPartition
  <2>2. ASSUME NEW i \in 1 .. nargs', NEW j \in 1 .. nargs', argv'[i] = argv'[j]
        PROVE  i = j
    BY <2>2, <1>1 DEF IInv, ArgsType, ArgsPartition
  <2> QED BY <2>1, <2>2 DEF ArgsPartition
<1>5. CursorInv'
  BY <1>1 DEF CursorInv
<1>6. CountInv'
  BY DEF IInv, CountInv, DropArg
<1> QED BY <1>2, <1>4, <1>5, <1>6 DEF IInv

(* No other step touches the list; each leaves the cursor where the next   *)
(* check finds an argument. *)
LEMMA ArgsStep == IInv /\ [Next]_vars => IInv'
<1> SUFFICES ASSUME IInv, [Next]_vars PROVE IInv'
  OBVIOUS
<1> USE FilesAssumption DEF IInv, ArgsType, ArgsPartition, CursorInv, CountInv, Kept
<1>1. CASE KeepArg
  BY <1>1 DEF KeepArg
<1>2. CASE DropArg
  BY <1>2, ArgsDrop
<1>3. CASE StartupFails
  BY <1>3 DEF StartupFails, Exit, daemon
<1>4. CASE Daemonize
  BY <1>4 DEF Daemonize
<1>5. CASE Ping
  BY <1>5 DEF Ping, daemon
<1>6. CASE TryMalloc
  BY <1>6 DEF TryMalloc, Exit, daemon
<1>7. CASE TryFork
  BY <1>7 DEF TryFork, Exit, daemon
<1>8. CASE TryStat
  BY <1>8 DEF TryStat, Exit
<1>9. CASE CheckTouch
  BY <1>9 DEF CheckTouch, Exit
<1>10. CASE Tick
  BY <1>10 DEF Tick, daemon
<1>11. CASE Environment
  BY <1>11 DEF Environment, Break, Repair, Touch, Stall, daemon
<1>12. CASE UNCHANGED vars
  BY <1>12 DEF vars, daemon
<1> QED BY <1>1, <1>2, <1>3, <1>4, <1>5, <1>6, <1>7, <1>8, <1>9, <1>10, <1>11,
           <1>12 DEF Next, Daemon

(* Pruning the inaccessible arguments at startup (wd/wdd.c, the swap with  *)
(* the last argument) loses and repeats none of the others, and the list   *)
(* stays so for as long as the daemon runs.                                *)
THEOREM NoArgumentLost == Spec => []ArgsPartition
<1>1. IInv => ArgsPartition
  BY DEF IInv
<1> QED BY <1>1, ArgsInit, ArgsStep, PTL DEF Spec

(* The round robin over the arguments always finds one. *)
THEOREM RoundRobinSafe == Spec => []NextFileExists
<1>1. IInv => NextFileExists
  BY DEF IInv, ArgsType, CursorInv, NextFileExists
<1> QED BY <1>1, ArgsInit, ArgsStep, PTL DEF Spec

(* The daemon only gives up for a reason that holds at that very step: a   *)
(* part it checks is out of order, or the alive file is as it was.         *)
THEOREM ExitsForAReason == Spec => ExitIsDeserved
<1>1. ASSUME IInv, [Next]_vars
      PROVE  [pc' = "exited" /\ pc # "exited" =>
                \/ broken \cap (Kept \cup {"mem", "fork", Root}) # {}
                \/ touch_file /\ stat_count > 0 /\ stamp = file_stat]_vars
  <2> SUFFICES ASSUME pc' = "exited", pc # "exited", Next
               PROVE  \/ broken \cap (Kept \cup {"mem", "fork", Root}) # {}
                      \/ touch_file /\ stat_count > 0 /\ stamp = file_stat
    BY <1>1
  <2>1. CASE StartupFails \/ TryMalloc \/ TryFork
    BY <2>1 DEF StartupFails, TryMalloc, TryFork
  <2>2. CASE TryStat
    <3>1. Checked \in broken \/ "mem" \in broken
      BY <2>2 DEF TryStat
    <3>2. Checked \in Kept \cup {Root}
      BY <2>2, <1>1, FilesAssumption
         DEF IInv, ArgsType, CursorInv, TryStat, Checked, Kept
    <3> QED BY <3>1, <3>2
  <2>3. CASE CheckTouch
    <3>1. ~(~touch_file \/ stat_count = 0) /\ stamp = file_stat
      BY <2>3 DEF CheckTouch
    <3>2. stat_count > 0
      BY <3>1, <1>1, CountsAssumption DEF IInv, CountInv
    <3> QED BY <3>1, <3>2
  <2>4. CASE KeepArg \/ DropArg \/ Daemonize \/ Ping
    BY <2>4 DEF KeepArg, DropArg, Daemonize, Ping
  <2>5. CASE Tick \/ Environment
    BY <2>5 DEF Tick, Environment, Break, Repair, Touch, Stall
  <2> QED BY <2>1, <2>2, <2>3, <2>4, <2>5 DEF Next, Daemon
<1> QED BY <1>1, ArgsInit, ArgsStep, PTL DEF Spec, ExitIsDeserved

(* The rest of TypeOK, and what keeps both counters from going below zero: *)
(* the daemon leaves when the count of unchanged checks is used up, and    *)
(* the driver resets the machine when its seconds are.                     *)
RestType ==
  /\ pc \in Steps
  /\ touch_file \in BOOLEAN
  /\ file_stat \in Stamps
  /\ curr_count \in Nat
  /\ dev \in BOOLEAN
  /\ broken \in SUBSET Parts
  /\ stamp \in Stamps
  /\ armed \in BOOLEAN
  /\ left \in 0 .. TIMEOUT

CountersInv ==
  /\ armed /\ pc # "reset" => left > 0
  /\ touch_file /\ stat_count # 0 /\ pc \notin {"startup", "exited", "reset"}
       => curr_count > 0

RestInv == RestType /\ CountersInv

LEMMA RestInit == Init => RestInv
<1> SUFFICES ASSUME Init PROVE RestInv
  OBVIOUS
<1>1. touch_file \in BOOLEAN /\ dev \in BOOLEAN /\ armed \in BOOLEAN /\ ~armed
  BY Zenon DEF Init
<1>2. /\ pc \in Steps /\ broken \in SUBSET Parts
      /\ file_stat \in Stamps /\ stamp \in Stamps
  BY StampsAssumption, Zenon DEF Init, Steps, Parts
<1>3. curr_count \in Nat /\ left \in 0 .. TIMEOUT
  BY TimeoutAssumption DEF Init
<1>4. pc = "startup"
  BY DEF Init
<1> QED BY <1>1, <1>2, <1>3, <1>4 DEF RestInv, RestType, CountersInv

LEMMA RestStep == CountInv /\ RestInv /\ [Next]_vars => RestInv'
<1> SUFFICES ASSUME CountInv, RestInv, [Next]_vars PROVE RestInv'
  OBVIOUS
<1> USE CountsAssumption, TimeoutAssumption, StampsAssumption
    DEF RestInv, RestType, CountersInv, CountInv, Steps
<1>1. CASE KeepArg \/ DropArg \/ StartupFails
  BY <1>1 DEF KeepArg, DropArg, StartupFails, Exit, daemon, driver, system
<1>2. CASE Daemonize
  BY <1>2 DEF Daemonize, driver, system
<1>3. CASE Ping
  BY <1>3 DEF Ping, daemon, system
<1>4. CASE TryMalloc \/ TryFork
  BY <1>4 DEF TryMalloc, TryFork, Exit, daemon, driver, system
<1>5. CASE TryStat
  BY <1>5 DEF TryStat, Exit, driver, system
<1>6. CASE CheckTouch
  BY <1>6 DEF CheckTouch, Exit, driver, system
<1>7. CASE Tick \/ Stall
  BY <1>7 DEF Tick, Stall, Countdown, daemon, driver, system
<1>8. ASSUME NEW part \in Faults, Break(part) \/ Repair(part)
      PROVE  RestInv'
  BY <1>8, FaultsAssumption DEF Break, Repair, daemon, driver, Parts
<1>9. ASSUME NEW s \in Stamps, Touch(s)
      PROVE  RestInv'
  BY <1>9 DEF Touch, daemon, driver
<1>10. CASE UNCHANGED vars
  BY <1>10 DEF vars, daemon, driver, system
<1> QED BY <1>1, <1>2, <1>3, <1>4, <1>5, <1>6, <1>7, <1>8, <1>9, <1>10
        DEF Next, Daemon, Environment

(* Every variable keeps its type; in particular neither counter wraps.     *)
THEOREM TypeCorrect == Spec => []TypeOK
<1>1. IInv /\ RestInv => TypeOK
  BY DEF IInv, ArgsType, CountInv, RestInv, RestType, TypeOK
<1>2. IInv => CountInv
  BY DEF IInv
<1> QED BY <1>1, <1>2, ArgsInit, ArgsStep, RestInit, RestStep, PTL DEF Spec

-----------------------------------------------------------------------------
(* The daemon with its memory.  It does what the daemon does, so that what *)
(* was proved of Wdd holds of it.                                          *)
LEMMA HistoryStep == [HNext]_hvars => [Next]_vars
BY DEF HNext, hvars, vars

LEMMA HistoryInit == HInit => Init
BY DEF HInit

LEMMA Underneath == HSpec => [](IInv /\ RestInv)
<1>1. HInit => IInv /\ RestInv
  BY HistoryInit, ArgsInit, RestInit
<1>2. IInv /\ RestInv /\ [HNext]_hvars => (IInv /\ RestInv)'
  BY HistoryStep, ArgsStep, RestStep DEF IInv
<1> QED BY <1>1, <1>2, PTL DEF HSpec

(* Whether the file has to be touched. *)
Watched == touch_file /\ stat_count > 0

LEMMA WatchedStep == CountInv /\ [Next]_vars => UNCHANGED <<touch_file, stat_count>>
<1> SUFFICES ASSUME CountInv, [Next]_vars PROVE UNCHANGED <<touch_file, stat_count>>
  OBVIOUS
<1>1. CASE Daemon
  BY <1>1 DEF Daemon, KeepArg, DropArg, StartupFails, Daemonize, Ping, TryMalloc, TryFork,
              TryStat, CheckTouch, daemon
<1>2. CASE Tick \/ Environment
  BY <1>2 DEF Tick, Environment, Break, Repair, Touch, Stall, daemon
<1>3. CASE UNCHANGED vars
  BY <1>3 DEF vars, daemon
<1> QED BY <1>1, <1>2, <1>3 DEF Next

(* On a calm machine nothing is out of order, the driver has its whole     *)
(* time left when the daemon goes to sleep, and only an alive file that is *)
(* watched can end the daemon.                                             *)
CalmInv ==
  calm => /\ broken = {}
          /\ pc \in {"malloc", "fork", "stat", "touch", "sleep"} => left = TIMEOUT
          /\ ~Watched => ~Over

LEMMA CalmInit == HInit => CalmInv
<1> SUFFICES ASSUME HInit, calm PROVE CalmInv
  BY DEF CalmInv
<1>1. pc = "startup" /\ broken = {}
  BY DEF HInit, Init
<1> QED BY <1>1 DEF CalmInv, Over

LEMMA CalmStep ==
  IInv /\ RestInv /\ CalmInv /\ [HNext]_hvars => CalmInv'
<1> SUFFICES ASSUME IInv, RestInv, CalmInv, [HNext]_hvars PROVE CalmInv'
  OBVIOUS
<1>1. UNCHANGED <<touch_file, stat_count>>
  BY HistoryStep, WatchedStep DEF IInv
<1>2. CASE UNCHANGED hvars
  BY <1>2 DEF hvars, vars, daemon, driver, system, CalmInv, Watched, Over
<1>3. SUFFICES ASSUME HNext, calm' PROVE CalmInv'
  BY <1>2 DEF CalmInv
<1>4. calm /\ broken' = {} /\ ~Stall
  BY <1>3, Zenon DEF HNext
<1>5. /\ broken = {}
      /\ ~Watched => ~Over
      /\ pc \in {"malloc", "fork", "stat", "touch", "sleep"} => left = TIMEOUT
  BY <1>4 DEF CalmInv
<1> DEFINE Awake == pc' \in {"malloc", "fork", "stat", "touch", "sleep"} => left' = TIMEOUT
           Stays == ~Watched => ~Over'
<1>6. SUFFICES Awake /\ Stays
  BY <1>1, <1>4 DEF CalmInv, Watched
<1> USE DEF Over
<1>7. CASE KeepArg \/ DropArg \/ Daemonize
  BY <1>5, <1>7 DEF KeepArg, DropArg, Daemonize, driver
<1>8. CASE StartupFails
  BY <1>5, <1>8 DEF StartupFails
<1>9. CASE Ping
  BY <1>5, <1>9 DEF Ping
<1>10. CASE TryMalloc \/ TryFork
  BY <1>5, <1>10 DEF TryMalloc, TryFork, driver
<1>11. CASE TryStat
  BY <1>5, <1>11 DEF TryStat, driver
<1>12. CASE CheckTouch
  BY <1>5, <1>12, CountsAssumption DEF CheckTouch, driver, Watched, IInv, CountInv, Exit
<1>13. CASE Tick
  BY <1>5, <1>13, TimeoutAssumption DEF Tick
<1>14. ASSUME NEW part \in Faults, Break(part) \/ Repair(part)
       PROVE  Awake /\ Stays
  BY <1>5, <1>14 DEF Break, Repair, driver
<1>15. ASSUME NEW s \in Stamps, Touch(s)
       PROVE  Awake /\ Stays
  BY <1>5, <1>15 DEF Touch, driver
<1> QED BY <1>3, <1>4, <1>7, <1>8, <1>9, <1>10, <1>11, <1>12, <1>13, <1>14, <1>15
        DEF HNext, Next, Daemon, Environment

(* A system that works, on a machine that schedules the daemon in time, is *)
(* never reset, whatever the timeout of the driver from two seconds on.    *)
THEOREM HealthyIsKept == HSpec => []NoFalseAlarm
<1>1. CountInv /\ CalmInv => NoFalseAlarm
  BY CountsAssumption DEF CalmInv, NoFalseAlarm, Watched, CountInv
<1>2. IInv => CountInv
  BY DEF IInv
<1>3. [](IInv /\ RestInv) /\ HSpec => []CalmInv
  BY CalmInit, CalmStep, PTL DEF HSpec
<1> QED BY <1>1, <1>2, <1>3, Underneath, PTL

(* The checks that found the file unchanged and the count that is left     *)
(* make up the count of -c.                                                *)
StillInv ==
  Watched =>
    /\ pc = "startup" => same = 0
    /\ pc \notin {"startup", "exited", "reset"} =>
         same \in Nat /\ same + curr_count = stat_count
    /\ pc = "exited" /\ calm => same = stat_count

LEMMA StillInit == HInit => StillInv
BY DEF HInit, Init, StillInv

LEMMA StillStep ==
  IInv /\ RestInv /\ CalmInv /\ StillInv /\ [HNext]_hvars => StillInv'
<1> SUFFICES ASSUME IInv, RestInv, CalmInv, StillInv, [HNext]_hvars PROVE StillInv'
  OBVIOUS
<1>1. UNCHANGED <<touch_file, stat_count>>
  BY HistoryStep, WatchedStep DEF IInv
<1>2. CASE UNCHANGED hvars
  BY <1>2 DEF hvars, vars, daemon, driver, system, StillInv, Watched
<1>3. SUFFICES ASSUME HNext, Watched PROVE StillInv'
  BY <1>1, <1>2 DEF StillInv, Watched
<1>4. calm' => calm
  BY <1>3, Zenon DEF HNext
<1>5. calm => broken = {}
  BY DEF CalmInv
<1>6. /\ pc = "startup" => same = 0
      /\ pc \notin {"startup", "exited", "reset"} =>
           same \in Nat /\ same + curr_count = stat_count
      /\ pc = "exited" /\ calm => same = stat_count
  BY <1>3 DEF StillInv
<1>7. /\ stat_count \in Nat /\ stat_count > 0 /\ touch_file /\ curr_count \in Nat
      /\ pc \notin {"startup", "exited", "reset"} => curr_count > 0
  BY <1>3, CountsAssumption DEF IInv, CountInv, RestInv, RestType, CountersInv, Watched
<1>8. CASE CheckTouch
  <2>1. same' = IF stamp = file_stat THEN Upto(same + 1, stat_count + 1) ELSE 0
    BY <1>3, <1>7, <1>8 DEF HNext
  <2>2. CASE stamp # file_stat
    BY <1>1, <1>6, <1>7, <1>8, <2>1, <2>2 DEF CheckTouch, StillInv
  <2>3. CASE stamp = file_stat
    <3>1. same' = same + 1 /\ curr_count' = curr_count - 1 /\ same + curr_count = stat_count
      BY <1>6, <1>7, <1>8, <2>1, <2>3 DEF CheckTouch, Upto
    <3>2. pc' = IF curr_count' = 0 THEN "exited" ELSE "sleep"
      BY <1>7, <1>8, <2>3 DEF CheckTouch, Exit
    <3> QED BY <1>1, <1>6, <1>7, <1>8, <3>1, <3>2 DEF CheckTouch, StillInv
  <2> QED BY <2>2, <2>3
<1>9. ASSUME ~CheckTouch PROVE StillInv'
  <2>1. same' = same
    BY <1>3, <1>9 DEF HNext
  <2> USE <1>1, <1>4, <1>5, <1>6, <1>7, <2>1 DEF StillInv
  <2>2. CASE KeepArg \/ DropArg \/ StartupFails
    BY <2>2 DEF KeepArg, DropArg, StartupFails, Exit, daemon
  <2>3. CASE Daemonize
    BY <2>3 DEF Daemonize
  <2>4. CASE Ping
    BY <2>4 DEF Ping, daemon
  <2>5. CASE TryMalloc \/ TryFork
    BY <2>5 DEF TryMalloc, TryFork, Exit, daemon
  <2>6. CASE TryStat
    BY <2>6 DEF TryStat, Exit
  <2>7. CASE Tick \/ Stall
    BY <2>7 DEF Tick, Stall, daemon
  <2>8. ASSUME NEW part \in Faults, Break(part) \/ Repair(part) PROVE StillInv'
    BY <2>8 DEF Break, Repair, daemon
  <2>9. ASSUME NEW s \in Stamps, Touch(s) PROVE StillInv'
    BY <2>9 DEF Touch, daemon
  <2> QED BY <1>3, <1>9, <2>2, <2>3, <2>4, <2>5, <2>6, <2>7, <2>8, <2>9
          DEF HNext, Next, Daemon, Environment
<1> QED BY <1>8, <1>9

(* The alive file may stay unchanged for one check less than -c says, for  *)
(* any count; with that one the daemon goes, and not before.               *)
THEOREM StillFileNoticed == HSpec => []StillFileBound
<1>1. IInv /\ RestInv /\ StillInv => StillFileBound
  BY CountsAssumption
     DEF IInv, CountInv, RestInv, RestType, CountersInv, StillInv, StillFileBound, Watched, Over
<1>2. [](IInv /\ RestInv) /\ HSpec => []CalmInv
  BY CalmInit, CalmStep, PTL DEF HSpec
<1>3. [](IInv /\ RestInv /\ CalmInv) /\ HSpec => []StillInv
  BY StillInit, StillStep, PTL DEF HSpec
<1> QED BY <1>1, <1>2, <1>3, Underneath, PTL

(* The pings since a file broke, the checks of others that come before     *)
(* its own, and the ping before the next check if it is still to come, are *)
(* no more than there are files.                                           *)
Distance(i) == IF i >= curr_file THEN i - curr_file ELSE nargs - curr_file + i
ToCome == IF pc \in {"malloc", "fork", "stat"} THEN 0 ELSE 1

PingsInv ==
  /\ pings \in [Files -> Nat]
  /\ pc = "startup" => \A f \in Files : pings[f] = 0
  /\ pc \notin {"startup", "exited", "reset"} =>
       \A i \in 1 .. nargs : pings[argv[i]] + Distance(i) + ToCome <= nargs
  /\ pc \in {"exited", "reset"} => \A i \in 1 .. nargs : pings[argv[i]] <= nargs

LEMMA PingsInit == HInit => PingsInv
BY DEF HInit, Init, PingsInv

(* What the step does to the list, to the cursor and to the pings of the   *)
(* files checked.                                                          *)
LEMMA PingsStep ==
  IInv /\ RestInv /\ PingsInv /\ [HNext]_hvars => PingsInv'
<1> SUFFICES ASSUME IInv, RestInv, PingsInv, [HNext]_hvars PROVE PingsInv'
  OBVIOUS
<1>1. CASE UNCHANGED hvars
  BY <1>1 DEF hvars, vars, daemon, driver, system, PingsInv, Distance, ToCome
<1>2. SUFFICES ASSUME HNext PROVE PingsInv'
  BY <1>1
<1>3. /\ argv \in [1 .. NFiles -> Files] /\ NFiles \in Nat /\ nargs \in 0 .. NFiles
      /\ curr_file \in 1 .. NFiles + 1
      /\ pc \notin {"startup", "exited", "reset"} =>
           curr_file = 1 \/ curr_file \in 1 .. nargs
      /\ \A i \in 1 .. nargs : argv[i] \in Files /\ argv[i] \in Kept
  BY FilesAssumption DEF IInv, ArgsType, CursorInv, Kept
<1>4. /\ pings \in [Files -> Nat]
      /\ pc = "startup" => \A f \in Files : pings[f] = 0
      /\ pc \notin {"startup", "exited", "reset"} =>
           \A i \in 1 .. nargs : pings[argv[i]] + Distance(i) + ToCome <= nargs
      /\ pc \in {"exited", "reset"} => \A i \in 1 .. nargs : pings[argv[i]] <= nargs
  BY DEF PingsInv
<1>5. pings' \in [Files -> Nat]
  BY <1>2, <1>3, <1>4 DEF HNext, Upto
<1>6. ~(pc = "ping" /\ pc' = "malloc") =>
        \A f \in Files : pings'[f] = 0 \/ pings'[f] = pings[f]
  BY <1>2 DEF HNext
<1>7. \A i \in 1 .. nargs : Distance(i) \in Int /\ Distance(i) <= nargs - 1
  BY <1>3 DEF Distance
(* Steps that leave the list, the cursor and what is to come as they are.   *)
<1>8. ASSUME pc \notin {"exited", "reset"}, UNCHANGED <<argv, nargs, curr_file>>,
             ~(pc = "ping" /\ pc' = "malloc"),
             pc = "startup" <=> pc' = "startup",
             pc' \notin {"exited", "reset"} => ToCome' = ToCome
      PROVE  PingsInv'
  <2>1. \A i \in 1 .. nargs' : Distance(i)' = Distance(i)
    BY <1>8 DEF Distance
  <2>2. CASE pc' = "startup"
    BY <1>4, <1>5, <1>6, <1>8, <2>2 DEF PingsInv
  <2>3. CASE pc' \notin {"startup", "exited", "reset"}
    <3>1. ASSUME NEW i \in 1 .. nargs'
          PROVE  pings'[argv'[i]] + Distance(i)' + ToCome' <= nargs'
      <4>1. pings[argv[i]] + Distance(i) + ToCome <= nargs
        BY <1>4, <1>8, <2>3, <3>1
      <4>2. pings'[argv[i]] \in Nat /\ pings[argv[i]] \in Nat /\ pings'[argv[i]] <= pings[argv[i]]
        BY <1>3, <1>4, <1>6, <1>8, <3>1
      <4>3. Distance(i) \in Int /\ ToCome \in Int
        BY <1>7, <1>8 DEF ToCome
      <4> QED BY <1>3, <1>8, <2>1, <2>3, <3>1, <4>1, <4>2, <4>3
    <3> QED BY <1>5, <2>3, <3>1 DEF PingsInv
  <2>4. CASE pc' \in {"exited", "reset"}
    <3>1. pc \notin {"startup", "exited", "reset"}
      BY <1>8, <2>4
    <3>2. ASSUME NEW i \in 1 .. nargs' PROVE pings'[argv'[i]] <= nargs'
      <4>1. pings[argv[i]] + Distance(i) + ToCome <= nargs
        BY <1>4, <1>8, <3>1, <3>2
      <4>2. pings'[argv[i]] \in Nat /\ pings[argv[i]] \in Nat /\ pings'[argv[i]] <= pings[argv[i]]
        BY <1>3, <1>4, <1>6, <1>8, <3>2
      <4>3. Distance(i) \in Nat /\ ToCome \in Nat
        BY <1>3, <1>8, <3>1, <3>2 DEF Distance, ToCome
      <4> QED BY <1>3, <1>8, <3>2, <4>1, <4>2, <4>3
    <3> QED BY <1>5, <2>4, <3>2 DEF PingsInv
  <2> QED BY <2>2, <2>3, <2>4
<1>9. CASE KeepArg \/ DropArg
  <2>1. pc = "startup" /\ pc' = "startup"
    BY <1>9 DEF KeepArg, DropArg
  <2> QED BY <1>4, <1>5, <1>6, <2>1 DEF PingsInv
<1>10. CASE StartupFails
  <2>1. pc = "startup" /\ pc' = "exited" /\ UNCHANGED <<argv, nargs>>
    BY <1>10 DEF StartupFails, Exit, daemon
  <2>2. \A f \in Files : pings'[f] = 0
    BY <1>4, <1>6, <2>1
  <2> QED BY <1>3, <1>5, <2>1, <2>2 DEF PingsInv
<1>11. CASE Daemonize
  <2>1. pc = "startup" /\ pc' = "ping" /\ curr_file' = 1 /\ UNCHANGED <<argv, nargs>>
    BY <1>11 DEF Daemonize
  <2>2. \A f \in Files : pings'[f] = 0
    BY <1>4, <1>6, <2>1
  <2>3. \A i \in 1 .. nargs' : Distance(i)' = i - 1 /\ ToCome' = 1
    BY <2>1 DEF Distance, ToCome
  <2> QED BY <1>3, <1>5, <2>1, <2>2, <2>3 DEF PingsInv
<1>12. CASE Ping
  <2>1. pc = "ping" /\ pc' = "malloc" /\ UNCHANGED <<argv, nargs, curr_file>>
    BY <1>12 DEF Ping, daemon
  <2>2. ToCome = 1 /\ ToCome' = 0 /\ \A i \in 1 .. nargs' : Distance(i)' = Distance(i)
    BY <2>1 DEF Distance, ToCome
  <2>3. ASSUME NEW i \in 1 .. nargs'
        PROVE  pings'[argv'[i]] + Distance(i)' + ToCome' <= nargs'
    <3>1. pings[argv[i]] + Distance(i) + 1 <= nargs
      BY <1>4, <2>1, <2>2, <2>3
    <3>2. pings'[argv[i]] \in {0, Upto(pings[argv[i]] + 1, NFiles + 1)}
      BY <1>2, <1>3, <2>1, <2>3 DEF HNext
    <3>3. pings'[argv[i]] <= pings[argv[i]] + 1 /\ pings'[argv[i]] \in Nat /\ pings[argv[i]] \in Nat
      BY <1>3, <1>4, <1>5, <2>1, <2>3, <3>2 DEF Upto
    <3>4. /\ argv'[i] = argv[i] /\ nargs' = nargs
          /\ ToCome' = 0 /\ Distance(i)' = Distance(i)
      BY <2>1, <2>2, <2>3
    <3>5. Distance(i) \in Int /\ nargs \in Int
      BY <1>3, <1>7, <2>1, <2>3
    <3>6. pings'[argv[i]] + Distance(i) + 0 <= nargs
      BY ONLY <3>1, <3>3, <3>5
    <3> QED BY ONLY <3>4, <3>6
  <2> QED BY <1>5, <2>1, <2>3 DEF PingsInv
<1>13. CASE TryMalloc \/ TryFork
  BY <1>8, <1>13 DEF TryMalloc, TryFork, Exit, daemon, ToCome
(* The file at the cursor has no pings left if it passed, and the whole     *)
(* round before it.                                                        *)
<1>14. CASE TryStat
  <2>1. pc = "stat" /\ UNCHANGED <<argv, nargs, broken>>
    BY <1>14 DEF TryStat, system
  <2>2. CASE Checked \in broken \/ "mem" \in broken
    BY <1>8, <1>14, <2>2 DEF TryStat, Exit
  <2>3. CASE ~(Checked \in broken \/ "mem" \in broken)
    <3>1. pc' = "touch" /\ curr_file' = IF curr_file < nargs THEN curr_file + 1 ELSE 1
      BY <1>14, <2>3 DEF TryStat
    <3>2. ASSUME NEW i \in 1 .. nargs'
          PROVE  pings'[argv'[i]] + Distance(i)' + ToCome' <= nargs'
      <4>1. pings[argv[i]] + Distance(i) <= nargs
        <5>1. pings[argv[i]] + Distance(i) + ToCome <= nargs /\ ToCome = 0
          BY <1>4, <2>1, <3>2 DEF ToCome
        <5>2. pings[argv[i]] \in Nat /\ Distance(i) \in Int
          BY <1>3, <1>4, <1>7, <2>1, <3>2
        <5> QED BY <1>3, <5>1, <5>2
      <4>2. curr_file \in 1 .. nargs /\ nargs > 0
        BY <1>3, <2>1, <3>2
      <4>3. pings'[argv[i]] \in Nat /\ pings[argv[i]] \in Nat /\ pings'[argv[i]] <= pings[argv[i]]
        BY <1>3, <1>4, <1>6, <2>1, <3>2
      <4>4. ToCome' = 1
        BY <3>1 DEF ToCome
      <4>5. CASE i = curr_file
        <5>1. argv[i] \notin broken'
          BY <2>1, <2>3, <4>2, <4>5 DEF Checked
        <5>2. pings'[argv[i]] = 0
          BY <1>2, <1>3, <2>1, <3>2, <5>1 DEF HNext
        <5>3. Distance(i)' <= nargs - 1 /\ Distance(i)' \in Int
          BY <1>3, <2>1, <3>1, <3>2, <4>2 DEF Distance
        <5> QED BY <1>3, <2>1, <4>4, <5>2, <5>3
      <4>6. CASE i # curr_file
        <5>1. Distance(i)' = Distance(i) - 1 /\ Distance(i) \in Int
          BY <1>3, <2>1, <3>1, <3>2, <4>2, <4>6 DEF Distance
        <5> QED BY <1>3, <2>1, <4>1, <4>3, <4>4, <5>1
      <4> QED BY <4>5, <4>6
    <3> QED BY <1>5, <3>1, <3>2 DEF PingsInv
  <2> QED BY <2>2, <2>3
<1>15. CASE CheckTouch
  BY <1>8, <1>15 DEF CheckTouch, Exit, ToCome
<1>16. CASE pc \in {"exited", "reset"}
  <2>1. CASE Daemon
    BY <1>16, <2>1 DEF Daemon, KeepArg, DropArg, StartupFails, Daemonize, Ping, TryMalloc,
                       TryFork, TryStat, CheckTouch
  <2>2. CASE Tick \/ Environment
    <3>1. pc' \in {"exited", "reset"} /\ UNCHANGED <<argv, nargs>>
      BY <1>16, <2>2 DEF Tick, Environment, Break, Repair, Touch, Stall, daemon
    <3> QED BY <1>3, <1>4, <1>5, <1>6, <1>16, <3>1 DEF PingsInv
  <2> QED BY <1>2, <2>1, <2>2 DEF HNext, Next
<1>17. CASE (Tick \/ Environment) /\ pc \notin {"exited", "reset"}
  BY <1>8, <1>17 DEF Tick, Environment, Break, Repair, Touch, Stall, daemon, ToCome
<1> QED BY <1>2, <1>9, <1>10, <1>11, <1>12, <1>13, <1>14, <1>15, <1>16, <1>17
        DEF HNext, Next, Daemon

(* However the files break and are repaired, one that is broken is noticed *)
(* before the driver has been pinged more often than there are files.      *)
THEOREM BrokenFileNoticed == HSpec => []DetectionBound
<1>1. IInv /\ RestInv /\ PingsInv => DetectionBound
  <2> SUFFICES ASSUME IInv, RestInv, PingsInv, pc # "startup", NEW i \in 1 .. nargs
               PROVE  pings[argv[i]] <= nargs
    BY DEF DetectionBound, Kept
  <2>1. CASE pc \in {"exited", "reset"}
    BY <2>1 DEF PingsInv
  <2>2. CASE pc \notin {"exited", "reset"}
    <3>1. pings[argv[i]] + Distance(i) + ToCome <= nargs
      BY <2>2 DEF PingsInv
    <3>3. pings[argv[i]] \in Nat
      BY FilesAssumption DEF PingsInv, IInv, ArgsType
    <3>2. Distance(i) \in Nat /\ ToCome \in Nat
      BY <2>2, FilesAssumption DEF IInv, ArgsType, CursorInv, Distance, ToCome
    <3> QED BY <3>1, <3>2, <3>3, FilesAssumption DEF IInv, ArgsType
  <2> QED BY <2>1, <2>2
<1>2. [](IInv /\ RestInv) /\ HSpec => []PingsInv
  BY PingsInit, PingsStep, PTL DEF HSpec
<1> QED BY <1>1, <1>2, Underneath, PTL
=============================================================================
