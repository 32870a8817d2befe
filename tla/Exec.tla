-------------------------------- MODULE Exec --------------------------------
(***************************************************************************)
(* ex, rx and br of preinit (init/init.c): a program is run by process 1.  *)
(* Two processes are made for it, the job and the leader of its session,   *)
(* which waits for the job and for the terminal; process 1 waits for the   *)
(* leader, and is also the parent of every process that lost its own.      *)
(***************************************************************************)
EXTENDS Naturals, FiniteSets

CONSTANTS
  Daemons,   \* processes the job may leave behind it
  Codes      \* statuses programs exit with

ASSUME CodesAssumption == Codes \subseteq 0 .. 255
ASSUME DaemonsAssumption == Daemons \cap {"leader", "job", "init"} = {}

Killed == 256    \* a status that is not an exit
Procs == {"leader", "job"} \cup Daemons

VARIABLES
  xtoken,    \* ex, rx or br
  state,     \* of each process: none, runs, zombie or gone
  parent,
  status,    \* what a zombie leaves to its parent
  inside,    \* the job's root is the directory given to rx
  output,    \* the terminal has output to write
  lpc,       \* the leader
  xpc,       \* process 1
  collected, \* the status the leader got
  error, error_num

xvars == <<xtoken, state, parent, status, inside, output, lpc, xpc, collected,
           error, error_num>>

(* Daemons of earlier jobs may be there, and be process 1's to reap.       *)
ExecInit ==
  /\ xtoken \in {"ex", "rx", "br"}
  /\ \E old \in SUBSET Daemons :
       state = [p \in Procs |-> IF p \in old THEN "runs" ELSE "none"]
  /\ parent = [p \in Procs |-> "init"]
  /\ status = [p \in Procs |-> 0]
  /\ inside = FALSE /\ output = FALSE
  /\ lpc = "none" /\ xpc = "fork"
  /\ collected = 0
  /\ error = 0 /\ error_num = 0

ExitStatus(s) == IF s = Killed THEN 1 ELSE s

(* A process ends: its children become those of process 1.                 *)
Ends(p, s) ==
  /\ state' = [state EXCEPT ![p] = "zombie"]
  /\ status' = [status EXCEPT ![p] = s]
  /\ parent' = [q \in Procs |-> IF parent[q] = p THEN "init" ELSE parent[q]]

----------------------------------------------------------------------------
(* Process 1.                                                              *)

Fork ==
  /\ xpc = "fork" /\ xtoken # "br"
  /\ \/ /\ state' = [state EXCEPT !["leader"] = "runs"]
        /\ lpc' = "chroot"
        /\ xpc' = "wait"
        /\ UNCHANGED <<error, error_num>>
     \/ /\ error' = 1
        /\ \E e \in Codes \ {0} : error_num' = e
        /\ xpc' = "returned"
        /\ UNCHANGED <<state, lpc>>
  /\ UNCHANGED <<xtoken, parent, status, inside, output, collected>>

(* br becomes the program; if that fails it goes on, without an error.     *)
Become ==
  /\ xpc = "fork" /\ xtoken = "br"
  /\ xpc' \in {"replaced", "returned"}
  /\ UNCHANGED <<xtoken, state, parent, status, inside, output, lpc, collected, error,
                 error_num>>

(* Mutant: the first process that ends is taken for the leader. *)
WaitFirst ==
  /\ xpc = "wait"
  /\ \E p \in Procs :
       /\ parent[p] = "init" /\ state[p] = "zombie"
       /\ state' = [state EXCEPT ![p] = "gone"]
       /\ error_num' = ExitStatus(status[p])
       /\ error' = IF error_num' = 0 THEN 0 ELSE 1
       /\ xpc' = "returned"
  /\ UNCHANGED <<xtoken, parent, status, inside, output, lpc, collected>>

(* Mutant: process 1 waits for the job, which is not its child. *)
WaitJob ==
  /\ xpc = "wait"
  /\ parent["job"] = "init" /\ state["job"] = "zombie"
  /\ state' = [state EXCEPT !["job"] = "gone"]
  /\ error_num' = ExitStatus(status["job"])
  /\ error' = IF error_num' = 0 THEN 0 ELSE 1
  /\ xpc' = "returned"
  /\ UNCHANGED <<xtoken, parent, status, inside, output, lpc, collected>>

(* wait() gives the status of any child, and stores it in error, until the *)
(* child is the leader.                                                    *)
Wait ==
  /\ xpc = "wait"
  /\ \E p \in Procs :
       /\ parent[p] = "init" /\ state[p] = "zombie"
       /\ state' = [state EXCEPT ![p] = "gone"]
       /\ IF p = "leader"
          THEN /\ error_num' = ExitStatus(status[p])
               /\ error' = IF error_num' = 0 THEN 0 ELSE 1
               /\ xpc' = "returned"
          ELSE error' = status[p] /\ UNCHANGED <<error_num, xpc>>
  /\ UNCHANGED <<xtoken, parent, status, inside, output, lpc, collected>>

----------------------------------------------------------------------------
(* The leader of the session.                                              *)

LeaderRuns == state["leader"] = "runs"

(* rx does not look at the result of chroot().                             *)
Chroot ==
  /\ LeaderRuns /\ lpc = "chroot"
  /\ inside' \in IF xtoken = "rx" THEN BOOLEAN ELSE {FALSE}
  /\ lpc' = "fork"
  /\ UNCHANGED <<xtoken, state, parent, status, output, xpc, collected, error, error_num>>

ForkJob ==
  /\ LeaderRuns /\ lpc = "fork"
  /\ \/ /\ state' = [state EXCEPT !["job"] = "runs"]
        /\ parent' = [parent EXCEPT !["job"] = "leader"]
        /\ lpc' = "wait"
        /\ status' = status
     \/ Ends("leader", 1) /\ lpc' = "exited"
  /\ UNCHANGED <<xtoken, inside, output, xpc, collected, error, error_num>>

Collect ==
  /\ LeaderRuns /\ lpc = "wait"
  /\ state["job"] = "zombie"
  /\ state' = [state EXCEPT !["job"] = "gone"]
  /\ collected' = ExitStatus(status["job"])
  /\ lpc' = "drain"
  /\ UNCHANGED <<xtoken, parent, status, inside, output, xpc, error, error_num>>

(* It exits with the job's status once everything is written.              *)
Drain ==
  /\ LeaderRuns /\ lpc = "drain" /\ ~output
  /\ Ends("leader", collected)
  /\ lpc' = "exited"
  /\ UNCHANGED <<xtoken, inside, output, xpc, collected, error, error_num>>

----------------------------------------------------------------------------
(* The programs and the kernel.                                            *)

Unmoved == UNCHANGED <<xtoken, inside, lpc, xpc, collected, error, error_num>>

(* The job, or a daemon, exits or is killed; the job may fail to start.    *)
ProgramEnds(p) ==
  /\ state[p] = "runs"
  /\ \E s \in Codes \cup {Killed} : Ends(p, s)
  /\ output' = output /\ Unmoved

LeaderKilled ==
  /\ LeaderRuns
  /\ Ends("leader", Killed)
  /\ output' = output /\ Unmoved

Spawn(d) ==
  /\ state["job"] = "runs" /\ state[d] = "none"
  /\ state' = [state EXCEPT ![d] = "runs"]
  /\ parent' = [parent EXCEPT ![d] = "job"]
  /\ UNCHANGED <<status, output>> /\ Unmoved

JobPrints ==
  /\ state["job"] = "runs" /\ ~output
  /\ output' = TRUE
  /\ UNCHANGED <<state, parent, status>> /\ Unmoved

Written ==
  /\ output
  /\ output' = FALSE
  /\ UNCHANGED <<state, parent, status>> /\ Unmoved

ExecStep == Fork \/ Become \/ Wait
LeaderStep == Chroot \/ ForkJob \/ Collect \/ Drain

ExecNext ==
  \/ ExecStep \/ LeaderStep \/ LeaderKilled \/ JobPrints \/ Written
  \/ \E p \in Procs \ {"leader"} : ProgramEnds(p)
  \/ \E d \in Daemons : Spawn(d)

ExecSpec == ExecInit /\ [][ExecNext]_xvars

(* Every process is given the processor, the terminal writes and jobs end;  *)
(* daemons need not.                                                       *)
ExecFairness ==
  /\ WF_xvars(ExecStep)
  /\ WF_xvars(LeaderStep)
  /\ WF_xvars(ProgramEnds("job"))
  /\ WF_xvars(Written)

----------------------------------------------------------------------------
(* Whatever other processes end meanwhile, the command has the status of   *)
(* the job, which has ended and all of whose output is written; or that of *)
(* a failed fork, or an error because the leader was killed.               *)
StatusIsJobs ==
  xpc = "returned" /\ lpc # "none" =>
    /\ state["leader"] = "gone"
    /\ error = IF error_num = 0 THEN 0 ELSE 1
    /\ IF status["leader"] = Killed \/ state["job"] = "none" THEN error_num = 1
       ELSE /\ state["job"] = "gone"
            /\ error_num = ExitStatus(status["job"])
            /\ ~output

(* The command ends although process 1 has other children.                 *)
CommandEnds == <>(xpc \in {"returned", "replaced"})
=============================================================================
