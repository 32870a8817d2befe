------------------------------- MODULE Mounts -------------------------------
(***************************************************************************)
(* The commands of preinit (init/init.c) that are a few system calls in a  *)
(* row: mt and re, bi, mv and um, cd, cr, sw and pr, lo, mp and mr, kx and *)
(* the ways to stop the machine.                                           *)
(*                                                                         *)
(* A command is a sequence of steps, each a system call with the step that *)
(* follows it when it succeeds and those that may follow when it fails.    *)
(***************************************************************************)
EXTENDS Integers, Sequences, FiniteSets

CONSTANTS
  Images,       \* what may be on the device: see FindFsType
  Filesystems   \* the types of /proc/filesystems that use a device, in order

ASSUME FilesystemsAssumption == Filesystems \in Seq(STRING)

End == 0

(* A failure that sets error, one that is ignored, and a success that       *)
(* clears error; as is the type of a mount that tries one of the kernel's.  *)
Attempt(call, ok, fails) ==
  [call |-> call, ok |-> ok, fails |-> fails, sets |-> 1, clears |-> FALSE, as |-> "none"]
Ask(call, ok, fails) == [Attempt(call, ok, fails) EXCEPT !.sets = 0]
Clear(call, ok, fails) == [Attempt(call, ok, fails) EXCEPT !.clears = TRUE]

----------------------------------------------------------------------------
(* What find_fs_type makes of the beginning of a device: the signature in  *)
(* its first bytes, that of an ext superblock, then that of a boot sector. *)

Heads == [empty |-> "empty", gzip |-> "gzip", xz |-> "xz", hsqs4 |-> "squashfs",
          hsqs3 |-> "squashfs3", xfs |-> "xfs", ubi |-> "ubi", ubifs |-> "ubifs",
          uimage |-> "uimage", ukernel |-> "ukernel", uinitrd |-> "uinitrd",
          jffs2 |-> "jffs2"]
ExtType(ext) ==
  IF "journal" \notin ext THEN "ext2"
  ELSE IF "extent" \in ext THEN "ext4" ELSE "ext3"
Unknown == "unknown"
FsTypes == {Heads[h] : h \in DOMAIN Heads} \cup {"ext2", "ext3", "ext4", "vfat", "mbr"}

FindFsType(i) ==
  IF i.short THEN Unknown
  ELSE IF i.head \in DOMAIN Heads THEN Heads[i.head]
  ELSE IF "magic" \in i.ext THEN ExtType(i.ext)
  ELSE CASE i.boot = "fat" -> "vfat" [] i.boot = "mbr" -> "mbr" [] OTHER -> Unknown

----------------------------------------------------------------------------
(* The steps of each command, called by variants of their arguments.       *)

(* mt and re: the node is made first if its numbers are given; with auto,  *)
(* the type is looked for, and every type of /proc/filesystems is tried if *)
(* none is found or the mount fails.                                        *)
TryFrom(n, k) == IF k \in DOMAIN Filesystems THEN n + k ELSE End
Tries(n) ==
  [k \in DOMAIN Filesystems |->
     [Clear("mount as", End, {TryFrom(n, k + 1)}) EXCEPT !.sets = 0, !.as = Filesystems[k]]]
ReadTypes(n) == Ask("read types", TryFrom(n, 1), {End})
Node == <<Attempt("mknod", 2, {2})>>

(* Mutant: other types are only tried if none was found. *)
MtAutoOnly(node) ==
  LET n == IF node THEN 1 ELSE 0
  IN (IF node THEN Node ELSE <<>>)
     \o <<Attempt("detect", n + 2, {n + 3}), Attempt("mount found", End, {End}), ReadTypes(n + 3)>>
     \o Tries(n + 3)

MtAuto(node) ==
  LET n == IF node THEN 1 ELSE 0
  IN (IF node THEN Node ELSE <<>>)
     \o <<Attempt("detect", n + 2, {n + 3}), Attempt("mount found", End, {n + 3}), ReadTypes(n + 3)>>
     \o Tries(n + 3)
Mt(node) ==
  (IF node THEN Node ELSE <<>>) \o <<Attempt("mount", End, {End})>>
Re == <<Attempt("remount", End, {End})>>

Bi == <<Attempt("bind", End, {End})>>
Um == <<Attempt("umount", End, {End})>>

(* mv binds and unmounts when it cannot move; it unmounts even if it could *)
(* not bind either.                                                        *)
Mv == <<Ask("move", End, {2}), Attempt("bind", 3, {3}), Attempt("umount", End, {End})>>

Cd == <<Attempt("chdir new", End, {End})>>
Cr == <<Attempt("chroot new", End, {End})>>

(* sw and pr go on after a failure.                                        *)
Sw == <<Attempt("chroot new", 2, {2}), Attempt("chdir /", 3, {3}), Ask("console", End, {End})>>
Pr == <<Attempt("chdir new", 2, {2}), Attempt("pivot_root", 3, {3}), Ask("chroot .", 4, {4}),
        Attempt("chdir /", 5, {5}), Ask("console", End, {End})>>

(* Mutant: the image stays attached when it could not be named. *)
LoKept == <<Attempt("open loop", 2, {End}), Attempt("open image", 3, {6}), Attempt("set fd", 4, {6}),
        Attempt("set status", 6, {6}), Ask("clear fd", 6, {6}), Ask("close loop", 7, {7}),
        Ask("close image", End, {End})>>

(* lo detaches the image again if it cannot be named.                      *)
Lo == <<Attempt("open loop", 2, {End}), Attempt("open image", 3, {6}), Attempt("set fd", 4, {6}),
        Attempt("set status", 6, {5}), Ask("clear fd", 6, {6}), Ask("close loop", 7, {7}),
        Ask("close image", End, {End})>>

(* The file of a module is never closed.                                   *)
Mp == <<Attempt("open module", 2, {End}), Attempt("finit_module", End, {End})>>
Mr == <<Attempt("delete_module", End, {End})>>

(* kx: a second try when the addresses were not available; what follows a   *)
(* success is the restart.                                                 *)
Kx(initrd) ==
  <<Attempt("open kernel", IF initrd THEN 2 ELSE 3, {End}), Attempt("open initrd", 3, {8}),
    Clear("kexec_file_load", 5, {4, 9}), Clear("kexec_file_load", 5, {9}),
    Ask("close initrd", 6, {6}), Ask("close kernel", 7, {7}), Attempt("reboot", End, {End}),
    Ask("close kernel", End, {End}), Ask("close initrd", 8, {8})>>

(* ha, po, rb and sp.                                                      *)
Rb == <<Attempt("reboot", End, {End})>>

Steps(c) ==
  CASE c = "mt auto" -> MtAuto(FALSE) [] c = "mt node auto" -> MtAuto(TRUE)
    [] c = "mt" -> Mt(FALSE) [] c = "mt node" -> Mt(TRUE) [] c = "re" -> Re
    [] c = "bi" -> Bi [] c = "um" -> Um [] c = "mv" -> Mv
    [] c = "cd" -> Cd [] c = "cr" -> Cr [] c = "sw" -> Sw [] c = "pr" -> Pr
    [] c = "lo" -> Lo [] c = "mp" -> Mp [] c = "mr" -> Mr
    [] c = "kx" -> Kx(FALSE) [] c = "kx initrd" -> Kx(TRUE) [] c = "rb" -> Rb

Autos == {"mt auto", "mt node auto"}
Cmds == Autos \cup {"mt", "mt node", "re", "bi", "um", "mv", "cd", "cr", "sw", "pr",
          "lo", "mp", "mr", "kx", "kx initrd", "rb"}

----------------------------------------------------------------------------
VARIABLES
  cmd, image,
  step,      \* the step that is next
  cmderr,    \* error
  world,
  fstype,     \* type, as find_fs_type gave it
  piped,     \* whether one of 0, 1 and 2 is a pipe, since preinit was called
  denied     \* calls that failed without a reason the model knows

mvars == <<cmd, image, step, cmderr, world, fstype, piped, denied>>

World == [node |-> FALSE,
          mounts |-> {<<"fs", "old">>},   \* what is mounted where
          root |-> "old root", cwd |-> "old root",
          console |-> "old", loop |-> "free",
          files |-> {}, module |-> "unknown", kernel |-> "none", stopped |-> FALSE]

MountsInit ==
  /\ cmd \in Cmds
  /\ image \in Images
  /\ step = 1
  /\ cmderr = 0
  /\ world = World
  /\ fstype = Unknown
  /\ piped \in BOOLEAN
  /\ denied = {}

(* The types the kernel reads a device as.                                 *)
Readable(i) ==
  {t \in {"squashfs", "xfs"} : i.head \in DOMAIN Heads /\ Heads[i.head] = t}
  \cup (IF "magic" \in i.ext THEN {"ext4"} ELSE {})
  \cup (IF i.boot = "fat" THEN {"vfat"} ELSE {})
(* Whether a call can succeed, and what it does.                           *)
Possible(call, as) ==
  CASE call = "detect" -> FindFsType(image) # Unknown
    [] call = "mount found" -> fstype \in Readable(image)
    [] call = "mount as" -> as \in Readable(image)
    [] call \in {"move", "bind", "umount"} -> <<"fs", "old">> \in world.mounts
    [] call = "pivot_root" -> world.cwd = "new root"
    [] OTHER -> TRUE

(* reopen_console: 0, 1 and 2 become the console of the current root, but   *)
(* not for a caller that reads or writes one of them.                      *)
ReopenConsole(w) == IF piped THEN w ELSE [w EXCEPT !.console = w.root]

Effect(call, w) ==
  CASE call = "mknod" -> [w EXCEPT !.node = TRUE]
    [] call \in {"mount", "mount found", "mount as", "remount"} ->
         [w EXCEPT !.mounts = @ \cup {<<"device", "target">>}]
    [] call = "move" -> [w EXCEPT !.mounts = (@ \ {<<"fs", "old">>}) \cup {<<"fs", "new">>}]
    [] call = "bind" -> [w EXCEPT !.mounts = @ \cup {<<"fs", "new">>}]
    [] call = "umount" -> [w EXCEPT !.mounts = @ \ {<<"fs", "old">>}]
    [] call = "chdir new" -> [w EXCEPT !.cwd = "new root"]
    [] call = "chroot new" -> [w EXCEPT !.root = "new root"]
    [] call = "chroot ." -> [w EXCEPT !.root = w.cwd]
    [] call = "chdir /" -> [w EXCEPT !.cwd = w.root]
    [] call = "pivot_root" ->
         [w EXCEPT !.root = w.cwd, !.mounts = @ \cup {<<"old root", "put_old">>}]
    [] call = "console" -> ReopenConsole(w)
    [] call = "open loop" -> [w EXCEPT !.files = @ \cup {"loop"}]
    [] call = "open image" -> [w EXCEPT !.files = @ \cup {"image"}]
    [] call = "set fd" -> [w EXCEPT !.loop = "attached"]
    [] call = "set status" -> [w EXCEPT !.loop = "named"]
    [] call = "clear fd" -> [w EXCEPT !.loop = "free"]
    [] call = "close loop" -> [w EXCEPT !.files = @ \ {"loop"}]
    [] call = "close image" -> [w EXCEPT !.files = @ \ {"image"}]
    [] call = "open module" -> [w EXCEPT !.files = @ \cup {"module"}]
    [] call = "finit_module" -> [w EXCEPT !.module = "in"]
    [] call = "delete_module" -> [w EXCEPT !.module = "out"]
    [] call = "open kernel" -> [w EXCEPT !.files = @ \cup {"kernel"}]
    [] call = "open initrd" -> [w EXCEPT !.files = @ \cup {"initrd"}]
    [] call = "kexec_file_load" -> [w EXCEPT !.kernel = "loaded"]
    [] call = "close initrd" -> [w EXCEPT !.files = @ \ {"initrd"}]
    [] call = "close kernel" -> [w EXCEPT !.files = @ \ {"kernel"}]
    [] call = "reboot" -> [w EXCEPT !.stopped = TRUE]
    [] OTHER -> w

Current == Steps(cmd)[step]

Succeeds ==
  /\ step # End
  /\ Possible(Current.call, Current.as)
  /\ step' = Current.ok
  /\ world' = Effect(Current.call, world)
  /\ cmderr' = IF Current.clears THEN 0 ELSE cmderr
  /\ fstype' = IF Current.call = "detect" THEN FindFsType(image) ELSE fstype
  /\ UNCHANGED <<cmd, image, piped, denied>>

(* Closing cannot fail, nor what is not done for a caller.                  *)
Fails ==
  /\ step # End
  /\ Current.call \notin {"close loop", "close image", "close kernel", "close initrd"}
  /\ Current.call = "console" => ~piped
  /\ step' \in Current.fails
  /\ cmderr' = IF Current.sets = 1 THEN 1 ELSE cmderr
  /\ denied' = IF Possible(Current.call, Current.as) THEN denied \cup {Current.call} ELSE denied
  /\ UNCHANGED <<cmd, image, fstype, piped, world>>

(* find_fs_type compares what was read as unsigned with the size of its     *)
(* buffer, so only a short read gives no type: after an open or a read     *)
(* that failed, what the buffer happens to hold is taken for the device,   *)
(* and may look like any type, or none, as in Fails.                       *)
Misreads ==
  /\ step # End
  /\ Current.call = "detect"
  /\ step' = Current.ok
  /\ fstype' \in FsTypes
  /\ denied' = denied \cup {"detect"}
  /\ UNCHANGED <<cmd, image, cmderr, piped, world>>

MountsNext == Succeeds \/ Fails \/ Misreads
MountsSpec == MountsInit /\ [][MountsNext]_mvars

----------------------------------------------------------------------------
(* What each command promises.                                             *)
Done ==
  CASE cmd \in Autos \cup {"mt", "mt node", "re"} -> <<"device", "target">> \in world.mounts
    [] cmd = "bi" -> <<"fs", "new">> \in world.mounts
    [] cmd = "um" -> <<"fs", "old">> \notin world.mounts
    [] cmd = "mv" -> <<"fs", "new">> \in world.mounts /\ <<"fs", "old">> \notin world.mounts
    [] cmd = "cd" -> world.cwd = "new root"
    [] cmd = "cr" -> world.root = "new root"
    [] cmd \in {"sw", "pr"} -> world.root = "new root" /\ world.cwd = "new root"
    [] cmd = "lo" -> world.loop = "named"
    [] cmd = "mp" -> world.module = "in"
    [] cmd = "mr" -> world.module = "out"
    [] cmd \in {"kx", "kx initrd", "rb"} -> world.stopped

(* A command without an error has done what it promises, whatever failed   *)
(* in between, a type that was only thought to be read included; and if    *)
(* nothing was denied but to read that type, it has no error, with auto as *)
(* long as some type of /proc/filesystems reads the device.  One that      *)
(* failed leaves nothing half done that its caller does not expect: the    *)
(* loop device is free again, the machine does not restart without the new *)
(* kernel, and no file stays open, but for that of mp.  And the console is *)
(* that of the new root, unless it has none or belongs to a caller.        *)
EffectTells ==
  step = End =>
    /\ cmderr = 0 => Done
    /\ denied \subseteq {"detect"} =>
         \/ cmderr = 0
         \/ cmd \in Autos
            /\ Readable(image) \cap {Filesystems[k] : k \in DOMAIN Filesystems} = {}
    /\ cmd = "lo" /\ cmderr = 1 => world.loop = "free" \/ "clear fd" \in denied
    /\ cmd \in {"kx", "kx initrd"} /\ world.stopped => world.kernel = "loaded"
    /\ world.files \subseteq IF cmd = "mp" THEN {"module"} ELSE {}
    /\ cmd \in {"sw", "pr"} /\ cmderr = 0 =>
         world.console = IF piped \/ "console" \in denied THEN "old" ELSE "new root"
=============================================================================
