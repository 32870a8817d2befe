--------------------------- MODULE PreinitProofs ---------------------------
(***************************************************************************)
(* What holds of the interpreter for every number of levels and every set  *)
(* of lines.                                                               *)
(***************************************************************************)
EXTENDS Preinit, TLAPS

(* The program has executed and mounted nothing before its start-up. *)
StartInv == phase = "start" => /\ did = "nothing"
                               /\ mounted = "none"
                               /\ dev \in {"absent", "found"}

(* The inductive invariant.  RunLevelBounded and NoStaleContext need each  *)
(* other's typing, and NoStaleContext itself records why going back from   *)
(* the console is safe: kbd_level was a brace_level, and console commands  *)
(* overwrite entries of context[] but never clear one.                     *)
IInv == TypeOK /\ RunLevelBounded /\ NoStaleContext /\ StartInv

LEMMA InitIInv == Init => IInv
<1> SUFFICES ASSUME Init PROVE IInv
  OBVIOUS
<1>1. 0 \in Levels
  BY LevelAssumption DEF Levels
<1>2. TypeOK
  BY <1>1 DEF Init, TypeOK, DevStates, Roles, Phases, NoLaunch, Programs, Commands
<1>3. RunLevelBounded /\ NoStaleContext /\ StartInv
  BY DEF Init, RunLevelBounded, NoStaleContext, StartInv, Levels
<1> QED
  BY <1>2, <1>3 DEF IInv

(* The lines that only set the error status, the choice of init or the     *)
(* phase leave the levels alone.                                           *)
LEMMA LevelsKept ==
  ASSUME IInv, UNCHANGED <<levels, kbd_level, cmd_input>>
  PROVE  RunLevelBounded' /\ NoStaleContext'
BY DEF IInv, levels, RunLevelBounded, NoStaleContext

LEMMA NextIInv == IInv /\ [Next]_vars => IInv'
<1> SUFFICES ASSUME IInv, [Next]_vars PROVE IInv'
  OBVIOUS
<1> USE DEF IInv
<1>a. TypeOK /\ RunLevelBounded /\ NoStaleContext
  OBVIOUS
<1>1. CASE Startup
  <2>1. UNCHANGED <<levels, kbd_level, cmd_input>> /\ phase' # "start"
    BY <1>1 DEF Startup, levels
  <2>2. /\ dev' \in DevStates
        /\ mounted' \in {"none", "tmpfs", "devtmpfs"}
    BY <1>1 DEF Startup, TypeOK, devs, NodesOn, MountOf, DevStates
  <2>3. TypeOK'
    BY <1>1, <2>2 DEF Startup, TypeOK, levels, choice, Phases
  <2> QED
    BY <2>1, <2>3, LevelsKept DEF StartInv
<1>2. CASE EndFile
  <2>1. UNCHANGED <<levels, kbd_level, cmd_input>> /\ phase' # "start"
    BY <1>2 DEF EndFile, levels
  <2>2. TypeOK'
    BY <1>2 DEF EndFile, TypeOK, levels, choice, devs, Phases
  <2> QED
    BY <2>1, <2>2, LevelsKept DEF StartInv
<1>3. CASE EndPrompt
  <2>1. kbd_level \in Levels
    BY <1>3 DEF EndPrompt, NoStaleContext
  <2>2. TypeOK'
    BY <1>3, <2>1 DEF EndPrompt, TypeOK, choice, devs
  <2>3. RunLevelBounded' /\ NoStaleContext' /\ StartInv'
    BY <1>3, <2>1 DEF EndPrompt, RunLevelBounded, NoStaleContext, StartInv, Levels
  <2> QED
    BY <2>2, <2>3
<1>4. CASE Finish
  <2>1. UNCHANGED <<levels, kbd_level, cmd_input>> /\ phase' # "start"
    BY <1>4 DEF Finish, levels
  <2>2. phase' \in Phases
    BY <1>4 DEF Finish, Phases
  <2>3. launch' \in [prog : Programs, args : BOOLEAN, umounted : BOOLEAN]
    <3>1. force_init \in Programs /\ conf_init \in Programs
      BY DEF TypeOK, Programs
    <3>2. CASE launch' = launch
      BY <3>2 DEF TypeOK
    <3>3. CASE launch' # launch
      <4> DEFINE forced == force_init # "none"
                 prog == IF forced THEN force_init ELSE conf_init
                 args == ~(forced /\ cmd_input = "kbd")
                 umounted == role = "linuxrc" /\ ~forced
      <4>1. launch' = [prog |-> prog, args |-> args, umounted |-> umounted]
        BY <1>4, <3>3 DEF Finish
      <4>2. prog \in Programs
        BY <3>1
      <4>3. args \in BOOLEAN /\ umounted \in BOOLEAN
        OBVIOUS
      <4> HIDE DEF prog, args, umounted
      <4> QED
        BY <4>1, <4>2, <4>3
    <3> QED
      BY <3>2, <3>3
  <2>4. TypeOK'
    BY <1>4, <2>2, <2>3 DEF Finish, TypeOK, levels, choice, devs
  <2> QED
    BY <2>1, <2>4, LevelsKept DEF StartInv
<1>5. CASE Over
  BY <1>5 DEF Over, vars, TypeOK, RunLevelBounded, NoStaleContext, StartInv
<1>6. ASSUME NEW l \in Lines, Interpret(l) PROVE IInv'
  <2>0. l \in Line /\ l.cmd \in Commands /\ l.fails \in BOOLEAN /\ phase = "loop"
    BY <1>6, LinesAssumption
       DEF Line, Interpret, Unknown, ExtraClose, CloseBlock, CloseNothing,
           TooManyLevels, OpenBlock, OpenSkippedBlock, Skip, SetConfInit,
           SetForceInit, EnterPrompt, RunCommand, Refuse, FallThrough,
           LeaveForGood, Reads, Command, Executed
  <2>1. CASE Unknown(l) \/ ExtraClose(l) \/ CloseNothing(l) \/ TooManyLevels(l)
             \/ Skip(l) \/ SetConfInit(l) \/ SetForceInit(l) \/ Refuse(l)
    <3>1. UNCHANGED <<levels, kbd_level, cmd_input>> /\ phase' # "start"
      BY <2>0, <2>1 DEF Unknown, ExtraClose, CloseNothing, TooManyLevels, Skip,
           SetConfInit, SetForceInit, Refuse, levels
    <3>2. TypeOK'
      BY <2>0, <2>1 DEF Unknown, ExtraClose, CloseNothing, TooManyLevels, Skip,
           SetConfInit, SetForceInit, Refuse, levels, choice, devs, TypeOK, Phases,
           Commands
    <3> QED
      BY <3>1, <3>2, LevelsKept DEF StartInv
  <2>2. CASE RunCommand(l) \/ FallThrough(l) \/ LeaveForGood(l)
    <3>1. UNCHANGED <<levels, kbd_level, cmd_input>> /\ phase' # "start"
      BY <2>0, <2>2 DEF RunCommand, FallThrough, LeaveForGood, levels
    <3>2. Result(l, l.fails) \in BOOLEAN /\ Result(l, FALSE) \in BOOLEAN
          /\ Result(l, l.cmd = "halt") \in BOOLEAN
      BY <2>0 DEF Result
    <3>3. TypeOK'
      BY <2>0, <2>2, <3>2 DEF RunCommand, FallThrough, LeaveForGood, levels,
           choice, devs, TypeOK, Phases
    <3> QED
      BY <3>1, <3>3, LevelsKept DEF StartInv
  <2>3. CASE CloseBlock(l)
    <3>1. brace_level' \in Levels /\ run_level' \in Levels
          /\ run_level' <= brace_level' /\ brace_level' <= brace_level
      BY <2>3, LevelAssumption DEF CloseBlock, TypeOK, RunLevelBounded, Levels
    <3>2. TypeOK'
      BY <2>3, <3>1 DEF CloseBlock, TypeOK, choice, devs, Commands
    <3>3. NoStaleContext'
      BY <2>3, <3>1 DEF CloseBlock, NoStaleContext, TypeOK, Levels
    <3> QED
      BY <2>0, <2>3, <3>1, <3>2, <3>3 DEF CloseBlock, RunLevelBounded, StartInv
  <2>4. CASE OpenBlock(l)
    <3>1. brace_level' \in Levels /\ run_level' = brace_level'
      BY <2>4, LevelAssumption DEF OpenBlock, TypeOK, Levels
    <3>2. TypeOK'
      BY <2>4, <3>1 DEF OpenBlock, TypeOK, choice, devs
    <3>3. NoStaleContext'
      BY <2>4, <3>1 DEF OpenBlock, NoStaleContext, TypeOK, Levels
    <3> QED
      BY <2>0, <2>4, <3>1, <3>2, <3>3
         DEF OpenBlock, RunLevelBounded, StartInv, Levels
  <2>5. CASE OpenSkippedBlock(l)
    <3>1. brace_level' \in Levels /\ run_level' <= brace_level'
      BY <2>5, LevelAssumption
         DEF OpenSkippedBlock, TypeOK, RunLevelBounded, Levels
    <3>2. TypeOK'
      BY <2>5, <3>1 DEF OpenSkippedBlock, TypeOK, choice, devs
    <3>3. NoStaleContext'
      BY <2>5, <3>1 DEF OpenSkippedBlock, NoStaleContext, TypeOK, Levels
    <3> QED
      BY <2>0, <2>5, <3>1, <3>2, <3>3
         DEF OpenSkippedBlock, RunLevelBounded, StartInv
  <2>6. CASE EnterPrompt(l)
    <3>1. TypeOK'
      BY <2>6 DEF EnterPrompt, TypeOK, levels, choice, devs, Commands
    <3>2. NoStaleContext'
      BY <2>6 DEF EnterPrompt, NoStaleContext, TypeOK, levels
    <3> QED
      BY <2>0, <2>6, <3>1, <3>2 DEF EnterPrompt, RunLevelBounded, levels, StartInv
  <2> QED
    BY <1>6, <2>1, <2>2, <2>3, <2>4, <2>5, <2>6 DEF Interpret
<1>7. CASE UNCHANGED vars
  BY <1>7 DEF vars, TypeOK, RunLevelBounded, NoStaleContext, StartInv
<1> QED
  BY <1>1, <1>2, <1>3, <1>4, <1>5, <1>6, <1>7 DEF Next

LEMMA Inductive == Spec => []IInv
BY InitIInv, NextIInv, PTL DEF Spec

(* Every brace, prompt and return keeps the levels inside context[]. *)
THEOREM TypeCorrect == Spec => []TypeOK
<1>1. IInv => TypeOK
  BY DEF IInv
<1> QED
  BY <1>1, Inductive, PTL

(* run_level never exceeds brace_level. *)
THEOREM RunLevelSafe == Spec => []RunLevelBounded
<1>1. IInv => RunLevelBounded
  BY DEF IInv
<1> QED
  BY <1>1, Inductive, PTL

(* No entry of context[] and no kbd_level is used before it was set. *)
THEOREM ContextInitialised == Spec => []NoStaleContext
<1>1. IInv => NoStaleContext
  BY DEF IInv
<1> QED
  BY <1>1, Inductive, PTL

-----------------------------------------------------------------------------
(* /dev and rebuild. *)

(* Lines are read in the loop and touch neither /dev nor the role; those   *)
(* that a rebuild reads from its file only build.                          *)
LEMMA LineKeeps ==
  ASSUME TypeOK, NEW l \in Lines, Interpret(l)
  PROVE  /\ phase = "loop" /\ UNCHANGED <<role, devs>>
         /\ phase' \notin {"start", "launched"}
         /\ (role = "rebuild" /\ did' \in {"system", "branch", "halt"})
              => cmd_input' = "kbd"
<1>1. CASE Unknown(l) \/ ExtraClose(l) \/ CloseBlock(l) \/ CloseNothing(l)
           \/ TooManyLevels(l) \/ OpenBlock(l) \/ OpenSkippedBlock(l)
  BY <1>1 DEF Reads, Unknown, ExtraClose, CloseBlock, CloseNothing,
       TooManyLevels, OpenBlock, OpenSkippedBlock
<1>2. CASE Skip(l) \/ SetConfInit(l) \/ SetForceInit(l) \/ EnterPrompt(l)
           \/ Refuse(l)
  BY <1>2 DEF Reads, Command, Executed, Skip, SetConfInit, SetForceInit,
       EnterPrompt, Refuse
<1>3. CASE RunCommand(l) \/ FallThrough(l) \/ LeaveForGood(l)
  <2>1. role = "rebuild" /\ ~Reserved => cmd_input = "kbd"
    BY DEF Reserved, TypeOK
  <2>2. /\ phase = "loop" /\ UNCHANGED <<role, devs, cmd_input>>
        /\ phase' \in {"loop", "gone"}
        /\ did' \in {"system", "branch", "halt"} => ~Reserved
    BY <1>3 DEF Reads, Command, Executed, RunCommand, FallThrough,
         LeaveForGood
  <2> QED
    BY <2>1, <2>2
<1> QED
  BY <1>1, <1>2, <1>3 DEF Interpret

(* A rebuild outside process 1 leaves a populated /dev and everything else *)
(* alone; elsewhere it mounts for nodes that were missing, and all that it *)
(* executes beyond building was typed on the console.                      *)
THEOREM RebuildSafe == Spec => []RebuildSpares
<1>1. Init => RebuildSpares
  BY DEF Init, RebuildSpares
<1>2. IInv /\ RebuildSpares /\ [Next]_vars => RebuildSpares'
  <2> SUFFICES ASSUME IInv, RebuildSpares, [Next]_vars PROVE RebuildSpares'
    OBVIOUS
  <2>1. CASE Startup
    <3>1. did' = "nothing" /\ phase' # "launched"
      BY <2>1 DEF Startup, IInv, StartInv
    <3>2. role' = "rebuild" /\ dev' = "found"
          => phase' = "returned" /\ mounted' = "none"
      BY <2>1 DEF Startup, IInv, StartInv, devs, NothingToRebuild, NodesOn
    <3>3. role' = "rebuild" /\ mounted' # "none" => dev' \in {"made", "denied"}
      BY <2>1 DEF Startup, IInv, StartInv, devs, NothingToRebuild, NodesOn
    <3> QED
      BY <3>1, <3>2, <3>3 DEF RebuildSpares
  <2>2. CASE EndFile \/ EndPrompt
    BY <2>2 DEF EndFile, EndPrompt, devs, RebuildSpares
  <2>3. CASE Finish
    BY <2>3 DEF Finish, devs, Rebuild, RebuildSpares
  <2>4. CASE Over \/ UNCHANGED vars
    BY <2>4 DEF Over, vars, RebuildSpares
  <2>5. ASSUME NEW l \in Lines, Interpret(l) PROVE RebuildSpares'
    BY <2>5, LineKeeps DEF IInv, devs, RebuildSpares
  <2> QED
    BY <2>1, <2>2, <2>3, <2>4, <2>5 DEF Next
<1> QED
  BY <1>1, <1>2, Inductive, PTL DEF Spec

(* Whatever is refused, covered or found, no line is read before the nodes *)
(* are in the /dev that the commands see, but those that cannot be made.   *)
THEOREM DevSafe == Spec => []DevReady
<1>1. Init => DevReady
  BY DEF Init, DevReady
<1>2. IInv /\ DevReady /\ [Next]_vars => DevReady'
  <2> SUFFICES ASSUME IInv, DevReady, [Next]_vars PROVE DevReady'
    OBVIOUS
  <2>1. CASE Startup
    BY <2>1 DEF Startup, NothingToRebuild, NodesOn, DevReady
  <2>2. CASE EndFile \/ EndPrompt \/ Finish
    BY <2>2 DEF EndFile, EndPrompt, Finish, devs, DevReady
  <2>3. CASE Over \/ UNCHANGED vars
    BY <2>3 DEF Over, vars, DevReady
  <2>4. ASSUME NEW l \in Lines, Interpret(l) PROVE DevReady'
    BY <2>4, LineKeeps DEF IInv, devs, DevReady
  <2> QED
    BY <2>1, <2>2, <2>3, <2>4 DEF Next
<1> QED
  BY <1>1, <1>2, Inductive, PTL DEF Spec
=============================================================================
