------------------------------ MODULE Preinit ------------------------------
(***************************************************************************)
(* The configuration interpreter of init/init.c: how preinit chooses what  *)
(* to do from the way it was started, the main loop that reads one command *)
(* per line from the configuration file or from the console, the nesting   *)
(* of command blocks and their conditions, and the choice of the program   *)
(* that replaces it at the end.                                            *)
(*                                                                         *)
(* The text of the lines is abstracted to what the loop tells apart: the   *)
(* family of the command, its |, & and ! prefixes, and whether the command *)
(* would fail if it were run.  A file is the sequence of lines the loop    *)
(* happens to read, of any length, and so is a console session.            *)
(***************************************************************************)
EXTENDS Integers

CONSTANTS MAX_BRACE_LEVEL,  (* number of entries of context[]              *)
          Lines,            (* the lines a file or a user may contain      *)
          DevTypes,         (* what /proc/mounts may say of /dev           *)
          Refusals          (* what the kernel may refuse at start-up      *)

(* The prefixes, TOK_COND_NEG, TOK_COND_OR and TOK_COND_AND. *)
Conditions == {"NEG", "OR", "AND"}

(* The command families, by the path they follow through the loop:        *)
(*   open, close  the braces          dot      the single dot             *)
(*   unknown      not a command, or too few arguments                     *)
(*   in           in <path>           rd       rd [<string>]              *)
(*   test         te en tn eq td he ec wk: a result, in every mode        *)
(*   build        the first switch, which "rebuild" may use (md ln bl ..) *)
(*   system       the second switch (mt ex um ta ..)                      *)
(*   plain        se and sl: done, then fall through both switches        *)
(*   branch       br: execve() in place   halt   ha po rb kx ws           *)
Commands == {"open", "close", "dot", "unknown", "in", "rd", "test", "build",
             "system", "plain", "branch", "halt"}

Line == [cmd : Commands, cond : SUBSET Conditions, fails : BOOLEAN]

(* get_dev_type() finds none, devtmpfs, tmpfs or ramfs, or another type; it *)
(* takes the first line of /dev, which a later mount may have covered.     *)
FileSystems == {"unread", "devtmpfs", "ram", "other"}

ASSUME LevelAssumption == MAX_BRACE_LEVEL \in Nat \ {0}
ASSUME LinesAssumption == Lines \subseteq Line
(* A mount of devtmpfs or of tmpfs, the nodes of /dev. *)
ASSUME DevAssumption ==
  /\ DevTypes \subseteq FileSystems
  /\ Refusals \subseteq {"devtmpfs", "tmpfs", "nodes"}

(* How the program was started: as process 1, as process 1 with the only   *)
(* argument "rebuild", as linuxrc, with "rebuild", with -z, or otherwise.  *)
Roles == {"pid1", "pid1rebuild", "linuxrc", "rebuild", "single", "other"}

VARIABLES
  role,         \* linuxrc, pid1, rebuild, single_cmd
  phase,        \* where the program is, see Phases
  cmd_input,    \* INPUT_FILE or INPUT_KBD
  brace_level,  \* number of blocks open
  run_level,    \* number of open blocks being executed, counted from outside
  kbd_level,    \* brace_level where the console was entered, -1 before
  saved,        \* the negation recorded in context[].cond
  error,        \* the last command failed
  conf_init,    \* origin of conf_init
  force_init,   \* origin of force_init
  did,          \* the family of the command the last step executed, "open"
                \* when an opening brace ended the configuration
  launch,       \* the final execve()
  dev,          \* the nodes of /dev that preinit relies on, see DevStates
  mounted       \* what start-up mounted on /dev

vars == <<role, phase, cmd_input, brace_level, run_level, kbd_level, saved,
          error, conf_init, force_init, did, launch, dev, mounted>>

devs == <<dev, mounted>>
levels == <<brace_level, run_level, saved>>
choice == <<conf_init, force_init>>

(* "undefined" stands for whatever follows an access to context[-1]. *)
Phases == {"start", "loop", "tail", "launched", "returned", "gone",
           "undefined"}

(* Missing, there since before, all made by start-up, or not for a refusal. *)
DevStates == {"absent", "found", "made", "denied"}

Levels == 0 .. MAX_BRACE_LEVEL - 1
NoLaunch == [prog |-> "none", args |-> TRUE, umounted |-> FALSE]
Programs == {"none", "default", "conf", "env", "kbd"}

-----------------------------------------------------------------------------

Init ==
  /\ role \in Roles
  /\ phase = "start"
  /\ cmd_input = "file"
  /\ brace_level = 0
  /\ run_level = 0
  /\ kbd_level = -1
  /\ saved = [l \in Levels |-> "unset"]
  /\ error = FALSE
  /\ conf_init = IF role = "linuxrc" THEN "none" ELSE "default"
  /\ force_init \in {"none", "env"}
  /\ did = "nothing"
  /\ launch = NoLaunch
  /\ dev \in {"absent", "found"}
  /\ mounted = "none"

Pid1 == role \in {"pid1", "pid1rebuild"}
Rebuild == role \in {"rebuild", "pid1rebuild"}

(* The file system put over /dev, of which /proc/mounts says the type:     *)
(* devtmpfs, else tmpfs.  If neither can be mounted, start-up goes on.     *)
MountOf(type, refused) ==
  IF type = "devtmpfs" THEN "none"
  ELSE IF "devtmpfs" \notin refused THEN "devtmpfs"
  ELSE IF type # "ram" /\ "tmpfs" \notin refused THEN "tmpfs" ELSE "none"

(* Mutant: the nodes are made before the mount, which hides them.          *)
NodesUnder(mount, refused) ==
  IF mount = "tmpfs" THEN "absent"
  ELSE IF dev = "found" /\ mount = "none" THEN "found"
  ELSE IF mount = "devtmpfs" \/ "nodes" \notin refused THEN "made"
  ELSE "denied"

(* The nodes are made in what /dev shows after the mount; the kernel fills *)
(* a devtmpfs by itself.                                                   *)
NodesOn(mount, refused) ==
  IF dev = "found" /\ mount = "none" THEN "found"
  ELSE IF mount = "devtmpfs" \/ "nodes" \notin refused THEN "made"
  ELSE "denied"

(* Mutant: a rebuild outside process 1 goes on whatever /dev holds.        *)
NothingToRebuildNever == FALSE

NothingToRebuild == role = "rebuild" /\ dev = "found"

(* Process 1, linuxrc and rebuild read their file and prepare /dev, the    *)
(* last one only if it is not populated, outside process 1; only linuxrc   *)
(* covers a populated one.  -z makes one line of the command line.         *)
Startup ==
  /\ phase = "start"
  /\ \/ /\ role \in {"single", "other"}
        /\ phase' = IF role = "single" THEN "loop" ELSE "tail"
        /\ UNCHANGED devs
     \/ /\ NothingToRebuild
        /\ phase' = "returned"
        /\ UNCHANGED devs
     \/ /\ role \notin {"single", "other"}
        /\ ~NothingToRebuild
        /\ \E cfg_ok \in BOOLEAN, type \in DevTypes,
              refused \in SUBSET Refusals :
             /\ mounted' = IF role = "linuxrc" \/ dev = "absent"
                           THEN MountOf(type, refused) ELSE "none"
             /\ dev' = NodesOn(mounted', refused)
             /\ phase' = IF cfg_ok THEN "loop" ELSE "tail"
  /\ UNCHANGED <<role, cmd_input, levels, kbd_level, error, choice, did,
                 launch>>

-----------------------------------------------------------------------------
(* The lines.  context[brace_level].error holds the error status at the    *)
(* top of every iteration and is only read before the end of it, hence it  *)
(* is the unprimed error here.                                             *)

Reads(l) == phase = "loop" /\ l \in Lines

Satisfied(l) == /\ "OR" \in l.cond => error
                /\ "AND" \in l.cond => ~error

Result(l, failed) == IF "NEG" \in l.cond THEN ~failed ELSE failed

(* A dot ends its input only without a prefix. *)
Terminator(l) == l.cmd = "dot" /\ l.cond = {}

(* End of the file, or a bare dot in it. *)
EndFile ==
  /\ phase = "loop"
  /\ cmd_input = "file"
  /\ phase' = "tail"
  /\ did' = "nothing"
  /\ UNCHANGED <<role, cmd_input, levels, kbd_level, error, choice, launch,
                 devs>>

(* Mutant: the console goes back to its level without its run_level.       *)
EndPromptOneLevel ==
  /\ phase = "loop"
  /\ cmd_input = "kbd"
  /\ cmd_input' = "file"
  /\ brace_level' = kbd_level
  /\ error' = FALSE
  /\ did' = "nothing"
  /\ UNCHANGED <<role, phase, run_level, kbd_level, saved, choice, launch,
                 devs>>

(* A bare dot on the console, or a console that cannot be read any more.   *)
(* The loop then reads the file in the same iteration.                     *)
EndPrompt ==
  /\ phase = "loop"
  /\ cmd_input = "kbd"
  /\ cmd_input' = "file"
  /\ brace_level' = kbd_level
  /\ run_level' = kbd_level
  /\ error' = FALSE
  /\ did' = "nothing"
  /\ UNCHANGED <<role, phase, kbd_level, saved, choice, launch, devs>>

(* An unknown command or a missing argument changes nothing, not even the  *)
(* error status.                                                           *)
Unknown(l) ==
  /\ Reads(l)
  /\ l.cmd = "unknown"
  /\ did' = "nothing"
  /\ UNCHANGED <<role, phase, cmd_input, levels, kbd_level, error, choice,
                 launch, devs>>

ExtraClose(l) ==
  /\ Reads(l)
  /\ l.cmd = "close"
  /\ brace_level = 0
  /\ l.cond = {}
  /\ did' = "nothing"
  /\ UNCHANGED <<role, phase, cmd_input, levels, kbd_level, error, choice,
                 launch, devs>>

(* The status of the block is that of its last command, negated if the     *)
(* block was.  The prefix of the closing brace itself is ignored.          *)
CloseBlock(l) ==
  /\ Reads(l)
  /\ l.cmd = "close"
  /\ brace_level > 0
  /\ brace_level' = brace_level - 1
  /\ run_level' = IF run_level > brace_level' THEN brace_level' ELSE run_level
  /\ error' = IF saved[brace_level'] = "flip" THEN ~error ELSE error
  /\ did' = "nothing"
  /\ UNCHANGED <<role, phase, cmd_input, kbd_level, saved, choice, launch,
                 devs>>

(* A prefixed closing brace skips the test for the outermost level, so the *)
(* loop goes on with context[-1].                                          *)
CloseNothing(l) ==
  /\ Reads(l)
  /\ l.cmd = "close"
  /\ brace_level = 0
  /\ l.cond # {}
  /\ phase' = "undefined"
  /\ did' = "nothing"
  /\ UNCHANGED <<role, cmd_input, levels, kbd_level, error, choice, launch,
                 devs>>

TooManyLevels(l) ==
  /\ Reads(l)
  /\ l.cmd = "open"
  /\ brace_level = MAX_BRACE_LEVEL - 1
  /\ phase' = "tail"
  /\ did' = "open"
  /\ UNCHANGED <<role, cmd_input, levels, kbd_level, error, choice, launch,
                 devs>>

(* Mutant: one level more than context[] has. *)
OpenBlockTooDeep(l) ==
  /\ Reads(l)
  /\ l.cmd = "open"
  /\ run_level = brace_level
  /\ Satisfied(l)
  /\ saved' = [saved EXCEPT ![brace_level] =
                 IF "NEG" \in l.cond THEN "flip" ELSE "keep"]
  /\ brace_level' = brace_level + 1
  /\ run_level' = brace_level'
  /\ error' = FALSE
  /\ did' = "nothing"
  /\ UNCHANGED <<role, phase, cmd_input, kbd_level, choice, launch, devs>>

OpenBlock(l) ==
  /\ Reads(l)
  /\ l.cmd = "open"
  /\ brace_level # MAX_BRACE_LEVEL - 1
  /\ run_level = brace_level
  /\ Satisfied(l)
  /\ saved' = [saved EXCEPT ![brace_level] =
                 IF "NEG" \in l.cond THEN "flip" ELSE "keep"]
  /\ brace_level' = brace_level + 1
  /\ run_level' = brace_level'
  /\ error' = FALSE
  /\ did' = "nothing"
  /\ UNCHANGED <<role, phase, cmd_input, kbd_level, choice, launch, devs>>

(* Mutant: the condition of a skipped block is not voided. *)
OpenSkippedBlockStale(l) ==
  /\ Reads(l)
  /\ l.cmd = "open"
  /\ brace_level # MAX_BRACE_LEVEL - 1
  /\ ~(run_level = brace_level /\ Satisfied(l))
  /\ brace_level' = brace_level + 1
  /\ did' = "nothing"
  /\ UNCHANGED <<role, phase, cmd_input, run_level, kbd_level, saved, error,
                 choice, launch, devs>>

OpenSkippedBlock(l) ==
  /\ Reads(l)
  /\ l.cmd = "open"
  /\ brace_level # MAX_BRACE_LEVEL - 1
  /\ ~(run_level = brace_level /\ Satisfied(l))
  /\ saved' = [saved EXCEPT ![brace_level] = "keep"]
  /\ brace_level' = brace_level + 1
  /\ did' = "nothing"
  /\ UNCHANGED <<role, phase, cmd_input, run_level, kbd_level, error, choice,
                 launch, devs>>

-----------------------------------------------------------------------------
(* The commands. *)

Command(l) == /\ Reads(l)
              /\ l.cmd \notin {"open", "close", "unknown"}
              /\ ~Terminator(l)

Skipped(l) == run_level < brace_level \/ ~Satisfied(l)

Executed(l) == Command(l) /\ ~Skipped(l)

Skip(l) ==
  /\ Command(l)
  /\ Skipped(l)
  /\ did' = "nothing"
  /\ UNCHANGED <<role, phase, cmd_input, levels, kbd_level, error, choice,
                 launch, devs>>

SetConfInit(l) ==
  /\ Executed(l)
  /\ l.cmd = "in"
  /\ cmd_input = "file"
  /\ conf_init' = "conf"
  /\ did' = "in"
  /\ UNCHANGED <<role, phase, cmd_input, levels, kbd_level, error, force_init,
                 launch, devs>>

(* Mutant: the console goes on after its init was chosen. *)
SetForceInitOnly(l) ==
  /\ Executed(l)
  /\ l.cmd = "in"
  /\ cmd_input = "kbd"
  /\ force_init' = "kbd"
  /\ error' = FALSE
  /\ did' = "in"
  /\ UNCHANGED <<role, phase, cmd_input, levels, conf_init, kbd_level, launch,
                 devs>>

(* On the console, in ends the whole configuration. *)
SetForceInit(l) ==
  /\ Executed(l)
  /\ l.cmd = "in"
  /\ cmd_input = "kbd"
  /\ force_init' = "kbd"
  /\ phase' = "tail"
  /\ error' = FALSE
  /\ did' = "in"
  /\ UNCHANGED <<role, cmd_input, levels, kbd_level, conf_init, launch, devs>>

EnterPrompt(l) ==
  /\ Executed(l)
  /\ l.cmd = "rd"
  /\ kbd_level' = IF cmd_input = "kbd" THEN kbd_level ELSE brace_level
  /\ cmd_input' = "kbd"
  /\ did' = "rd"
  /\ UNCHANGED <<role, phase, levels, error, choice, launch, devs>>

(* A rebuild does not go past the first switch while it reads the file. *)
Reserved == role = "rebuild" /\ cmd_input = "file"

(* test and build commands run in every mode, system ones unless reserved. *)
RunCommand(l) ==
  /\ Executed(l)
  /\ \/ l.cmd \in {"test", "build"}
     \/ l.cmd = "system" /\ ~Reserved
  /\ error' = Result(l, l.fails)
  /\ did' = l.cmd
  /\ UNCHANGED <<role, phase, cmd_input, levels, kbd_level, choice, launch,
                 devs>>

Refuse(l) ==
  /\ Executed(l)
  /\ l.cmd \in {"system", "branch", "halt"}
  /\ Reserved
  /\ did' = "nothing"
  /\ UNCHANGED <<role, phase, cmd_input, levels, kbd_level, error, choice,
                 launch, devs>>

(* se and sl are done before the switches and then end as the unknown      *)
(* command of the second one does: successfully, or refused.  A prefixed   *)
(* dot, which is no terminator, goes the same way.                         *)
FallThrough(l) ==
  /\ Executed(l)
  /\ l.cmd \in {"plain", "dot"}
  /\ error' = IF Reserved THEN error ELSE Result(l, FALSE)
  /\ did' = l.cmd
  /\ UNCHANGED <<role, phase, cmd_input, levels, kbd_level, choice, launch,
                 devs>>

(* br, ha, po, rb, kx and ws do not come back unless they fail; a failed   *)
(* br leaves the error status clear, the others set it.                    *)
LeaveForGood(l) ==
  /\ Executed(l)
  /\ l.cmd \in {"branch", "halt"}
  /\ ~Reserved
  /\ IF l.fails
       THEN phase' = phase /\ error' = Result(l, l.cmd = "halt")
       ELSE phase' = "gone" /\ error' = error
  /\ did' = l.cmd
  /\ UNCHANGED <<role, cmd_input, levels, kbd_level, choice, launch, devs>>

-----------------------------------------------------------------------------
(* After the loop: -z returns the status, a rebuild returns, and the       *)
(* others execute the program that was chosen, if there is one.            *)
Finish ==
  /\ phase = "tail"
  /\ IF role = "single" \/ Rebuild
       THEN phase' = "returned" /\ launch' = launch
       ELSE LET forced == force_init # "none"
                prog == IF forced THEN force_init ELSE conf_init
            IN /\ launch' = [prog |-> prog,
                             args |-> ~(forced /\ cmd_input = "kbd"),
                             umounted |-> role = "linuxrc" /\ ~forced]
               /\ phase' = IF prog = "none" THEN "returned" ELSE "launched"
  /\ did' = "nothing"
  /\ UNCHANGED <<role, cmd_input, levels, kbd_level, error, choice, devs>>

(* The program is over, or replaced. *)
Over == /\ phase \in {"launched", "returned", "gone", "undefined"}
        /\ UNCHANGED vars

Interpret(l) ==
  \/ Unknown(l) \/ ExtraClose(l) \/ CloseBlock(l) \/ CloseNothing(l)
  \/ TooManyLevels(l) \/ OpenBlock(l) \/ OpenSkippedBlock(l)
  \/ Skip(l) \/ SetConfInit(l) \/ SetForceInit(l) \/ EnterPrompt(l)
  \/ RunCommand(l) \/ Refuse(l) \/ FallThrough(l) \/ LeaveForGood(l)

Next == \/ Startup \/ EndFile \/ EndPrompt \/ Finish \/ Over
        \/ \E l \in Lines : Interpret(l)

Spec == Init /\ [][Next]_vars

(* After the loop nothing is waited for: the end of main() is reached.      *)
FairSpec == Spec /\ WF_vars(Finish)

-----------------------------------------------------------------------------
(* Properties. *)

(* Every variable keeps its type; in particular no brace ever moves        *)
(* brace_level, run_level or kbd_level out of the context[] array of       *)
(* main(), the undefined phase apart.                                      *)
TypeOK ==
  /\ role \in Roles
  /\ phase \in Phases
  /\ cmd_input \in {"file", "kbd"}
  /\ brace_level \in Levels
  /\ run_level \in Levels
  /\ kbd_level \in Levels \cup {-1}
  /\ saved \in [Levels -> {"unset", "keep", "flip"}]
  /\ error \in BOOLEAN
  /\ conf_init \in {"none", "default", "conf"}
  /\ force_init \in {"none", "env", "kbd"}
  /\ did \in Commands \cup {"nothing"}
  /\ launch \in [prog : Programs, args : BOOLEAN, umounted : BOOLEAN]
  /\ dev \in DevStates
  /\ mounted \in {"none", "tmpfs", "devtmpfs"}

(* The blocks being executed are the outermost ones: run_level never       *)
(* exceeds brace_level, whatever braces, prompts and returns from prompts  *)
(* come in between, so run_level < brace_level is a sound test for "inside *)
(* a skipped block".                                                       *)
RunLevelBounded == run_level <= brace_level

(* context[] and kbd_level are not initialised: a closing brace only reads *)
(* the entry of a block that was opened, and leaving the console only goes *)
(* back to a level that was recorded, all of whose blocks were opened.     *)
NoStaleContext ==
  /\ \A l \in Levels : l < brace_level => saved[l] # "unset"
  /\ cmd_input = "kbd" =>
       /\ kbd_level \in Levels
       /\ \A l \in Levels : l < kbd_level => saved[l] # "unset"

(* "rebuild" is meant for a tree that may be in use.  Outside process 1 it *)
(* does nothing at all where /dev is populated.  Elsewhere what it mounts  *)
(* is a file system for nodes that were missing, what it executes beyond   *)
(* building was typed by a user in a session that its file opened, however *)
(* many blocks, prompts and returns to the file came before, and it        *)
(* launches nothing at the end.                                            *)
RebuildSpares ==
  role = "rebuild" =>
    /\ dev = "found" => /\ phase \in {"start", "returned"}
                        /\ did = "nothing"
                        /\ mounted = "none"
    /\ mounted # "none" => dev \in {"made", "denied"}
    /\ did \in {"system", "branch", "halt"} => cmd_input = "kbd"
    /\ phase # "launched"

(* No line is read before preinit's own nodes are in the /dev that the     *)
(* commands see, whichever mount was refused and whatever was covered:     *)
(* only nodes that could not be made are missing.                          *)
DevReady ==
  (phase = "loop" /\ role # "single") => dev # "absent"

(* An init typed on the console is the one executed, without arguments,    *)
(* whatever the file or the environment said.                              *)
ConsoleInitWins ==
  (did = "in" /\ cmd_input = "kbd" /\ role \in {"pid1", "linuxrc"})
    ~> (phase = "launched" /\ launch.prog = "kbd" /\ ~launch.args)

(* What the comments and messages of init.c say, which the code contradicts. *)

(* Header comment: "rebuild" executes nothing.                             *)
RebuildNeverExecutes == Rebuild => did \notin {"system", "branch"}

(* "Too many closing braces." catches a brace that closes nothing.         *)
NoUnderflow == phase # "undefined"
=============================================================================
