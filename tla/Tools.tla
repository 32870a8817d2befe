------------------------------- MODULE Tools -------------------------------
(***************************************************************************)
(* Small programs that are used beside preinit, each from every situation  *)
(* its module starts in: mklock, lcdwrite with lcdtee, signfs, flx with a  *)
(* line of a list, grub-mbr-default, the script of Ctrl-Alt-Del.           *)
(***************************************************************************)
EXTENDS SignFs, MkLock, LcdWrite, SignLine, GrubMbr,
        NoCtrlAltDel

VARIABLE tool

ToolNames == {"signfs", "mklock", "lcd", "line", "grub", "keys"}

tvars == <<tool, sgvars, lkvars, lcvars, slvars, gbvars, kavars>>

(* The state of a module whose program does not run.                       *)
NoSign ==
  /\ listing = <<>> /\ filesystem = [p \in {} |-> Nothing] /\ shown = {} /\ lines = <<>>
  /\ node = [p \in {} |-> Blank] /\ seen = [p \in {} |-> Nothing] /\ pending = {}
  /\ sgpc = "print"

NoLock ==
  /\ entries = {} /\ num = [p \in Lockers |-> 0]
  /\ lock = [p \in Lockers |-> NoNumber] /\ lkpc = [p \in Lockers |-> "failed"]

NoLcd ==
  /\ text = [p \in Displayers |-> <<>>] /\ piece = [p \in Displayers |-> 1]
  /\ done = [p \in Displayers |-> 0] /\ waits = [p \in Displayers |-> 0]
  /\ lcd = <<>> /\ lcpc = [p \in Displayers |-> "end"]

NoLine ==
  /\ desc = [path |-> <<>>, of |-> Plain] /\ human = FALSE
  /\ line = <<>> /\ numbers = <<>> /\ back = <<>> /\ slpc = "end"

NoGrub ==
  /\ round = 1 /\ saved = 0 /\ booted = Off /\ byhand = FALSE
  /\ asked = 0 /\ entryno = 0 /\ calls = 0 /\ written = <<>> /\ gbpc = "idle"

NoKeys ==
  /\ unseen = [p \in Presses |-> {}] /\ found = [p \in Presses |-> {}]
  /\ saw = [p \in Presses |-> FALSE] /\ process = [q \in Pids |-> "none"]

NoTool == NoSign /\ NoLock /\ NoLcd /\ NoLine /\ NoGrub /\ NoKeys

ToolsInit ==
  /\ tool \in ToolNames
  /\ IF tool = "signfs" THEN SignInit ELSE NoSign
  /\ IF tool = "mklock" THEN LockInit ELSE NoLock
  /\ IF tool = "lcd" THEN LcdInit ELSE NoLcd
  /\ IF tool = "line" THEN SignLineInit ELSE NoLine
  /\ IF tool = "grub" THEN GrubInit ELSE NoGrub
  /\ IF tool = "keys" THEN KeysInit ELSE NoKeys

ToolsNext ==
  /\ tool' = tool
  /\ \/ /\ tool = "signfs" /\ SignNext
        /\ UNCHANGED <<lkvars, lcvars, slvars, gbvars, kavars>>
     \/ /\ tool = "mklock" /\ LockNext
        /\ UNCHANGED <<sgvars, lcvars, slvars, gbvars, kavars>>
     \/ /\ tool = "lcd" /\ LcdNext
        /\ UNCHANGED <<sgvars, lkvars, slvars, gbvars, kavars>>
     \/ /\ tool = "line" /\ SignLineNext
        /\ UNCHANGED <<sgvars, lkvars, lcvars, gbvars, kavars>>
     \/ /\ tool = "grub" /\ GrubNext
        /\ UNCHANGED <<sgvars, lkvars, lcvars, slvars, kavars>>
     \/ /\ tool = "keys" /\ KeysNext
        /\ UNCHANGED <<sgvars, lkvars, lcvars, slvars, gbvars>>
=============================================================================
