--------------------------------- MODULE Wdd ---------------------------------
(***************************************************************************)
(* The watchdog daemon of wd/wdd.c, the watchdog driver it keeps alive and *)
(* the system whose health it checks.                                      *)
(*                                                                         *)
(* The daemon is one process; everything it looks at may break and be      *)
(* repaired between any two of its steps.  One second passes while it      *)
(* sleeps; when the machine is too loaded to schedule it, seconds also     *)
(* pass elsewhere.                                                         *)
(***************************************************************************)
EXTENDS Integers

CONSTANTS
  Files,      \* the files given as arguments
  NFiles,     \* how many there are
  Counts,     \* the values of -c that are tried, 0 when it is not given
  Stamps,     \* the stat() results of the alive file, 0 for an absent file
  TIMEOUT,    \* seconds the driver waits for a ping
  Faults      \* the parts that may break

(* What may be out of order: a file, the root directory, the memory, the   *)
(* process table, either device node, and writing to the driver.           *)
Root == "/"
Resources == {"mem", "fork", "watchdog", "misc", "write"}
Parts == Files \cup {Root} \cup Resources

ASSUME FilesAssumption ==
  NFiles \in Nat /\ Files \cap ({Root} \cup Resources) = {}
ASSUME FaultsAssumption == Faults \subseteq Parts
ASSUME CountsAssumption == Counts \subseteq Nat
ASSUME StampsAssumption == 0 \in Stamps
ASSUME TimeoutAssumption == TIMEOUT \in Nat /\ TIMEOUT >= 2

VARIABLES
  pc,           \* the next step of the daemon
  argv,         \* argv[1], argv[2] ..
  nargs,        \* argc - 1
  marked,       \* the arguments whose first character became '!'
  curr_file,
  stat_count,
  touch_file,   \* -f was given
  file_stat,    \* the alive file when it was last seen to change
  curr_count,
  dev,          \* the driver is open
  broken,       \* the parts that are out of order
  stamp,        \* the alive file now
  armed,        \* the driver counts
  left          \* seconds before it resets the machine

daemon == <<argv, nargs, marked, curr_file, stat_count, touch_file, file_stat,
            curr_count>>
driver == <<dev, armed, left>>
system == <<broken, stamp>>
vars == <<pc, daemon, driver, system>>

Steps == {"startup", "ping", "malloc", "fork", "stat", "touch", "sleep",
          "exited", "reset"}

Init ==
  /\ pc = "startup"
  /\ argv \in [1 .. NFiles -> Files]
  /\ \A i, j \in 1 .. NFiles : argv[i] = argv[j] => i = j
  /\ \A f \in Files : \E i \in 1 .. NFiles : argv[i] = f
  /\ nargs = NFiles
  /\ marked = {}
  /\ curr_file = 1
  /\ stat_count \in Counts
  /\ touch_file \in BOOLEAN
  /\ file_stat = 0
  /\ curr_count = 0
  /\ dev = FALSE
  /\ broken \in SUBSET (Files \cap Faults)
  /\ stamp \in Stamps
  /\ armed = FALSE
  /\ left = TIMEOUT

-----------------------------------------------------------------------------
(* The daemon. *)

Exit == pc' = "exited"

(* At startup, an argument that cannot be accessed is marked and replaced  *)
(* by the last one. *)
KeepArg ==
  /\ pc = "startup"
  /\ curr_file <= nargs
  /\ "mem" \notin broken
  /\ argv[curr_file] \notin broken
  /\ curr_file' = curr_file + 1
  /\ UNCHANGED <<pc, argv, nargs, marked, stat_count, touch_file, file_stat,
                 curr_count, driver, system>>

(* Mutant: the last argument is not moved into the place of the dropped.   *)
DropArgNoSwap ==
  /\ pc = "startup"
  /\ curr_file <= nargs
  /\ "mem" \notin broken
  /\ argv[curr_file] \in broken
  /\ marked' = marked \cup {argv[curr_file]}
  /\ nargs' = nargs - 1
  /\ UNCHANGED <<pc, argv, curr_file, stat_count, touch_file, file_stat,
                 curr_count, driver, system>>

DropArg ==
  /\ pc = "startup"
  /\ curr_file <= nargs
  /\ "mem" \notin broken
  /\ argv[curr_file] \in broken
  /\ marked' = marked \cup {argv[curr_file]}
  /\ argv' = [argv EXCEPT ![curr_file] = argv[nargs]]
  /\ nargs' = nargs - 1
  /\ UNCHANGED <<pc, curr_file, stat_count, touch_file, file_stat, curr_count,
                 driver, system>>

(* Without the memory for one stat() result, it gives up at once. *)
StartupFails ==
  /\ pc = "startup"
  /\ curr_file <= nargs
  /\ "mem" \in broken
  /\ Exit
  /\ UNCHANGED <<daemon, driver, system>>

Daemonize ==
  /\ pc = "startup"
  /\ curr_file > nargs
  /\ curr_count' = stat_count
  /\ file_stat' = 0
  /\ curr_file' = 1
  /\ pc' = "ping"
  /\ UNCHANGED <<argv, nargs, marked, stat_count, touch_file, driver, system>>

(* Mutant: a device that is already open is not written to again. *)
PingOnce ==
  /\ pc = "ping"
  /\ LET opened == dev \/ "watchdog" \notin broken \/ "misc" \notin broken
     IN /\ dev' = (opened /\ "write" \notin broken)
        /\ armed' = (armed \/ opened)
        /\ left' = IF opened /\ ~dev THEN TIMEOUT ELSE left
  /\ pc' = "malloc"
  /\ UNCHANGED <<daemon, system>>

(* Open the device if it is not, under either name, and write to it.  A    *)
(* failed write closes it until the next second.                           *)
Ping ==
  /\ pc = "ping"
  /\ LET opened == dev \/ "watchdog" \notin broken \/ "misc" \notin broken
         pinged == opened /\ "write" \notin broken
     IN /\ dev' = pinged
        /\ armed' = (armed \/ opened)
        /\ left' = IF pinged \/ (opened /\ ~armed) THEN TIMEOUT ELSE left
  /\ pc' = "malloc"
  /\ UNCHANGED <<daemon, system>>

TryMalloc ==
  /\ pc = "malloc"
  /\ IF "mem" \in broken THEN Exit ELSE pc' = "fork"
  /\ UNCHANGED <<daemon, driver, system>>

TryFork ==
  /\ pc = "fork"
  /\ IF "fork" \in broken THEN Exit ELSE pc' = "stat"
  /\ UNCHANGED <<daemon, driver, system>>

Checked == IF nargs > 0 THEN argv[curr_file] ELSE Root

TryStatStuck ==
  /\ pc = "stat"
  /\ IF Checked \in broken \/ "mem" \in broken
       THEN Exit /\ curr_file' = curr_file
       ELSE /\ pc' = "touch"
            /\ curr_file' = IF FALSE THEN curr_file + 1 ELSE 1
  /\ UNCHANGED <<argv, nargs, marked, stat_count, touch_file, file_stat,
                 curr_count, driver, system>>

TryStatShort ==
  /\ pc = "stat"
  /\ IF Checked \in broken \/ "mem" \in broken
       THEN Exit /\ curr_file' = curr_file
       ELSE /\ pc' = "touch"
            /\ curr_file' = IF curr_file + 1 < nargs THEN curr_file + 1 ELSE 1
  /\ UNCHANGED <<argv, nargs, marked, stat_count, touch_file, file_stat,
                 curr_count, driver, system>>

TryStat ==
  /\ pc = "stat"
  /\ IF Checked \in broken \/ "mem" \in broken
       THEN Exit /\ curr_file' = curr_file
       ELSE /\ pc' = "touch"
            /\ curr_file' = IF curr_file < nargs THEN curr_file + 1 ELSE 1
  /\ UNCHANGED <<argv, nargs, marked, stat_count, touch_file, file_stat,
                 curr_count, driver, system>>

CheckTouchNoReset ==
  /\ pc = "touch"
  /\ IF ~touch_file \/ stat_count = 0
       THEN pc' = "sleep" /\ UNCHANGED <<file_stat, curr_count>>
     ELSE IF stamp # file_stat
       THEN file_stat' = stamp /\ curr_count' = curr_count /\ pc' = "sleep"
     ELSE /\ curr_count' = curr_count - 1
          /\ file_stat' = file_stat
          /\ IF curr_count' = 0 THEN Exit ELSE pc' = "sleep"
  /\ UNCHANGED <<argv, nargs, marked, curr_file, stat_count, touch_file,
                 driver, system>>

CheckTouchRestarts ==
  /\ pc = "touch"
  /\ IF ~touch_file \/ stat_count = 0
       THEN pc' = "sleep" /\ UNCHANGED <<file_stat, curr_count>>
     ELSE IF stamp # file_stat
       THEN file_stat' = stamp /\ curr_count' = stat_count /\ pc' = "sleep"
     ELSE /\ curr_count' = stat_count - 1
          /\ file_stat' = file_stat
          /\ IF curr_count' = 0 THEN Exit ELSE pc' = "sleep"
  /\ UNCHANGED <<argv, nargs, marked, curr_file, stat_count, touch_file,
                 driver, system>>

(* The alive file is only looked at when both -f and a count are given.    *)
CheckTouch ==
  /\ pc = "touch"
  /\ IF ~touch_file \/ stat_count = 0
       THEN pc' = "sleep" /\ UNCHANGED <<file_stat, curr_count>>
     ELSE IF stamp # file_stat
       THEN /\ file_stat' = stamp
            /\ curr_count' = stat_count
            /\ pc' = "sleep"
     ELSE /\ curr_count' = curr_count - 1
          /\ file_stat' = file_stat
          /\ IF curr_count' = 0 THEN Exit ELSE pc' = "sleep"
  /\ UNCHANGED <<argv, nargs, marked, curr_file, stat_count, touch_file,
                 driver, system>>

Daemon == \/ KeepArg \/ DropArg \/ StartupFails \/ Daemonize
          \/ Ping \/ TryMalloc \/ TryFork \/ TryStat \/ CheckTouch

-----------------------------------------------------------------------------
(* The rest of the machine. *)

Running == pc # "reset"

(* Mutant: the driver stops with the process that pinged it. *)
CountdownStops ==
  IF armed /\ pc # "exited"
    THEN left' = left - 1 /\ UNCHANGED <<dev, armed>>
    ELSE UNCHANGED driver

Countdown ==
  IF armed
    THEN left' = left - 1 /\ UNCHANGED <<dev, armed>>
    ELSE UNCHANGED driver

(* The second the daemon sleeps for.  A process that exited does not stop  *)
(* the driver: it never writes the magic character.                        *)
Tick ==
  /\ pc \in {"sleep", "exited"}
  /\ Countdown
  /\ pc' = IF armed /\ left = 1 THEN "reset"
           ELSE IF pc = "sleep" THEN "ping" ELSE pc
  /\ UNCHANGED <<daemon, system>>

(* A second during which the daemon, awake, is not scheduled. *)
Stall ==
  /\ pc \notin {"startup", "sleep", "exited", "reset"}
  /\ Countdown
  /\ pc' = IF armed /\ left = 1 THEN "reset" ELSE pc
  /\ UNCHANGED <<daemon, system>>

Break(part) ==
  /\ Running
  /\ part \notin broken
  /\ broken' = broken \cup {part}
  /\ UNCHANGED <<pc, daemon, driver, stamp>>

Repair(part) ==
  /\ Running
  /\ part \in broken
  /\ broken' = broken \ {part}
  /\ UNCHANGED <<pc, daemon, driver, stamp>>

Touch(s) ==
  /\ Running
  /\ touch_file /\ s # stamp
  /\ stamp' = s
  /\ UNCHANGED <<pc, daemon, driver, broken>>

Environment == \/ \E part \in Faults : Break(part) \/ Repair(part)
               \/ \E s \in Stamps : Touch(s)
               \/ Stall

Next == Daemon \/ Tick \/ Environment

Spec == Init /\ [][Next]_vars

(* The daemon is scheduled and time passes.  Nothing is assumed of the     *)
(* parts it checks. *)
FairSpec == Spec /\ WF_vars(Daemon) /\ WF_vars(Tick)

-----------------------------------------------------------------------------
(* Properties. *)

Kept == {argv[i] : i \in 1 .. nargs}
Over == pc \in {"exited", "reset"}

TypeOK ==
  /\ pc \in Steps
  /\ argv \in [1 .. NFiles -> Files]
  /\ nargs \in 0 .. NFiles
  /\ marked \in SUBSET Files
  /\ curr_file \in 1 .. NFiles + 1
  /\ stat_count \in Counts
  /\ touch_file \in BOOLEAN
  /\ file_stat \in Stamps
  /\ curr_count \in Nat
  /\ dev \in BOOLEAN
  /\ broken \in SUBSET Parts
  /\ stamp \in Stamps
  /\ armed \in BOOLEAN
  /\ left \in 0 .. TIMEOUT

(* Every argument is either still to be checked, once, or marked: removing *)
(* one by swapping the last into its place loses and repeats none.         *)
ArgsPartition ==
  /\ Kept \cup marked = Files
  /\ Kept \cap marked = {}
  /\ \A i, j \in 1 .. nargs : argv[i] = argv[j] => i = j

(* The round robin never leaves the list. *)
NextFileExists ==
  pc \notin {"startup", "exited", "reset"} /\ nargs > 0 => curr_file <= nargs

(* The daemon only gives up for a reason: a part it checks is out of order *)
(* at that moment, or the alive file has kept still for a full count.      *)
ExitIsDeserved ==
  [][pc' = "exited" /\ pc # "exited" =>
       \/ broken \cap (Kept \cup {"mem", "fork", Root}) # {}
       \/ touch_file /\ stat_count > 0 /\ stamp = file_stat]_vars

(* A file that stays out of order ends the daemon, wherever the round      *)
(* robin was when it broke. *)
BrokenFileEndsDaemon ==
  \A f \in Files : <>[](f \in broken \cap Kept) => <>Over

(* Once the daemon is gone, the driver resets the machine. *)
ExitResets == (pc = "exited" /\ armed) ~> (pc = "reset")
=============================================================================
