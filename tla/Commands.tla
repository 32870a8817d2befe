------------------------------ MODULE Commands ------------------------------
(***************************************************************************)
(* The commands of preinit (init/init.c) that act on the system, each from *)
(* every situation its module starts in.  Process 1 runs one at a time,    *)
(* with whatever else runs beside it; what a command leaves to the next is *)
(* in the modules of those that may be repeated: se and fp.                *)
(***************************************************************************)
EXTENDS TarExtract, Exec, WaitShutdown, Mounts, MultiDev, FindPart, EnvStore

VARIABLE token    \* the command

Tokens == {"ta", "ex", "ws", "mount", "mdev", "fp", "env"}

cvars == <<token, tar, xvars, wsvars, mvars, mdvars, fpvars, evvars>>

(* The state of a module whose command does not run: as after its end.     *)
NoTar ==
  /\ members = <<>> /\ archive = <<>> /\ refused = {} /\ into = <<>>
  /\ pipe = FALSE /\ pos = 0 /\ blk = Zero /\ size = 0 /\ outfd = 0 /\ ret = -1
  /\ fs = [p \in {} |-> Dir] /\ tarpc = "returned" /\ lost = {} /\ misread = FALSE

NoExec ==
  /\ xtoken = "br" /\ state = [p \in Procs |-> "none"]
  /\ parent = [p \in Procs |-> "init"] /\ status = [p \in Procs |-> 0]
  /\ inside = FALSE /\ output = FALSE /\ lpc = "none" /\ xpc = "returned"
  /\ collected = 0 /\ error = 0 /\ error_num = 0

NoWait ==
  /\ exists = FALSE /\ message = [w \in Writers |-> [kind |-> "other", pieces |-> 1]]
  /\ wpc = [w \in Writers |-> "done"] /\ sent = [w \in Writers |-> 0]
  /\ fifo = <<>> /\ arrived = FALSE /\ raw = <<>> /\ rpc = "exited" /\ code = 130

NoMount ==
  /\ cmd = "rb" /\ image = [short |-> TRUE] /\ step = End /\ cmderr = 1
  /\ world = World /\ fstype = Unknown /\ piped = FALSE /\ denied = {"reboot"}

NoMulti ==
  /\ rule = <<>> /\ base = 0 /\ var = <<>> /\ made = <<>> /\ field = 1 /\ mdpc = "idle"

NoFind ==
  /\ disks = <<>> /\ flags = <<>> /\ pref = <<>> /\ pc = "idle" /\ img = "image1"
  /\ types = <<>> /\ best_pos = MAX_CFG_ARGS /\ todo = {} /\ chosen = None
  /\ second = None /\ fresh = TRUE

NoEnv ==
  /\ envp = <<>> /\ block = 0 /\ slots = 1 /\ expected = {} /\ reused = FALSE

NoCommand ==
  NoTar /\ NoExec /\ NoWait /\ NoMount /\ NoMulti /\ NoFind /\ NoEnv

CommandsInit ==
  /\ token \in Tokens
  /\ IF token = "ta" THEN TarInit ELSE NoTar
  /\ IF token = "ex" THEN ExecInit ELSE NoExec
  /\ IF token = "ws" THEN ShutdownInit ELSE NoWait
  /\ IF token = "mount" THEN MountsInit ELSE NoMount
  /\ IF token = "mdev" THEN MultiInit ELSE NoMulti
  /\ IF token = "fp" THEN FindInit ELSE NoFind
  /\ IF token = "env" THEN EnvInit ELSE NoEnv

CommandsNext ==
  /\ token' = token
  /\ \/ /\ token = "ta" /\ TarNext
        /\ UNCHANGED <<xvars, wsvars, mvars, mdvars, fpvars, evvars>>
     \/ /\ token = "ex" /\ ExecNext
        /\ UNCHANGED <<tar, wsvars, mvars, mdvars, fpvars, evvars>>
     \/ /\ token = "ws" /\ ShutdownNext
        /\ UNCHANGED <<tar, xvars, mvars, mdvars, fpvars, evvars>>
     \/ /\ token = "mount" /\ MountsNext
        /\ UNCHANGED <<tar, xvars, wsvars, mdvars, fpvars, evvars>>
     \/ /\ token = "mdev" /\ MultiNext
        /\ UNCHANGED <<tar, xvars, wsvars, mvars, fpvars, evvars>>
     \/ /\ token = "fp" /\ FindNext
        /\ UNCHANGED <<tar, xvars, wsvars, mvars, mdvars, evvars>>
     \/ /\ token = "env" /\ EnvNext
        /\ UNCHANGED <<tar, xvars, wsvars, mvars, mdvars, fpvars>>

=============================================================================
