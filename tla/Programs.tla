------------------------------ MODULE Programs ------------------------------
(***************************************************************************)
(* The programs that run once, from every situation their modules start    *)
(* in: a command of preinit, or one of the small programs beside it.  Each *)
(* is alone with the other actors of its module; what is shared between    *)
(* several calls (the environment, a directory of locks, the saved entry   *)
(* of GRUB) is in the module itself.                                       *)
(***************************************************************************)
EXTENDS Commands, Tools

ProgramsInit ==
  \/ CommandsInit /\ tool = "none" /\ NoTool
  \/ ToolsInit /\ token = "none" /\ NoCommand

ProgramsNext ==
  \/ CommandsNext /\ UNCHANGED tvars
  \/ ToolsNext /\ UNCHANGED cvars

(* Fairness is that of each module: its processes are scheduled.           *)
ProgramsSpec ==
  ProgramsInit /\ [][ProgramsNext]_<<cvars, tvars>>
    /\ ExecFairness /\ ShutdownFairness /\ LcdFairness
=============================================================================
