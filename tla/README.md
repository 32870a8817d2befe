# Formal models of flxutils

flxutils is a set of small C programs and shell scripts for tiny Linux
systems: `preinit`, which is process 1 and prepares the system from a
configuration file, the watchdog daemon `wdd`, `ifenslave`, the file checker
`flx`, and a handful of helpers. This directory holds TLA+ modules translated
from that code, TLC configurations that check them on small instances, and
theorems that TLAPS proves for every value of the constants. `PROJECT.json`
lists the runs, the mutants (plausible bugs that each property detects), the
lines each definition stands for, the hazards of the code and the theorems.

Line numbers below are those of `src/init/init.c`, `src/wd/wdd.c`,
`src/ifenslave/ifenslave-1.1.0.c` and, for flx check, `src/flx/check.c`; others
are given with their file.

## 1. Inventory

### 1.1 preinit (`init/init.c`)

One process, mostly sequential, started by the kernel. What is hard is not
concurrency but the length of the sequences of commands it accepts and the
state that survives from one command to the next.

| Part | State | Operations | Hard | Correct when |
| --- | --- | --- | --- | --- |
| interpreter: `main()` 1626-1671, 2391-2740, 2849-2876, 3300-3307, 3807-3904 | `brace_level`, `run_level`, `kbd_level`, `context[]`, `error`, `cmd_input`, `conf_init`, `force_init`, `/dev` | one iteration per line, the start, the end | nesting through skipped blocks and console sessions; uninitialised arrays; roles; what is mounted over `/dev` | commands run exactly inside live blocks; nothing read before it is written; nodes where commands see them; rebuild spares a system in use |
| partition search: `lp`, `fp` 2895-3142 | the `blkdev` table with marks and ranks | `lp -r` restarts the table, `fp` marks and chooses | overlapping pairs; marks left by an earlier search | the pair named exists, has the best type, is the first one |
| environment: 702-738, 918-1023, 2762-2783, 3136-3177 | `envp`, its block of memory | `se` sets and unsets, `fp` sets four variables | sizes computed before and after; reuse of a block | no variable lost, nothing outside the block |
| line parser: `parse_cfg` 1749-1890 | `cfg_args[]`, the buffer it cuts in place | one line per call | quoting, variables, lack of a final newline | - |
| `ex`, `br`, `rx` 3410-3517 | children, the terminal | fork twice, exec, wait | process 1 reaps every orphan | the status is that of the program and its output is written |
| `ws` 2319-2397 | the fifo `/dev/initctl`, the message read so far | open, read, signals | messages in pieces, writers that come and go | a run level asked for is heard |
| `ta` 1086-1388 | position in the archive, the file being written | one header or piece of data at a time | short reads and writes, members that fail | success means that every member is there, those excepted whose own calls failed |
| `bl`, `ch` 1979-2164, `init/mkdev.c` | one position per field of the rule | make, increment with carry | bounds of bytes | every device of the ranges, once |
| `mt`, `re`, `bi`, `mv`, `um`, `cd`, `cr`, `sw`, `pr`, `lo`, `mp`, `mr`, `kx`, `ha` and others 2216-2295, 3309-3409, 3512-3805 | `error`; mounts, roots, loop devices, modules of the kernel | a row of system calls each | each call may fail, some are tried again otherwise | no error means done, an error leaves nothing half done |
| `rf`, `ls` 1393-1617 | none | feed `/dev/random`, list | - | - |

The interpreter calls the others; they share `error`, the environment (which
`parse_cfg` reads, `se` and `fp` change) and the table of partitions. The user
on the console and the configuration file are its environment.

### 1.2 wdd (`wd/wdd.c`)

A daemon that pings `/dev/watchdog` once per second as long as `malloc`,
`fork` and the `stat()` of its arguments, one per second in turn, succeed. Its
state is the list of arguments, pruned at the start by swapping with the last,
a cursor, the last `stat()` of an alive file and a count of the checks that
found it unchanged, and the device. It interacts with the kernel's watchdog
driver, which resets the machine when it is not pinged. Everything it checks
may break and be repaired between any two of its steps; it is correct when no
argument is lost, a lasting failure ends it, a healthy machine is not reset,
and its end leads to a reset.

### 1.3 ifenslave (`ifenslave/ifenslave-1.1.0.c`)

Enslaves or releases network interfaces by sequences of ioctls, each of which
may fail, with a partial rollback. Its state is what it read of the master,
once, and of each slave, and whether the master has a hardware address. It is
correct when a slave that could not be enslaved is left as it was and those
that were share the master's address.

### 1.4 flx (`flx/`)

One program with two commands. `flx sign` reads file systems and writes a
signature of each file; `flx check` compares two sources, each a file system
or a list of signatures. Both read a bounded number of entries at a time into
a tree (`flx.c`: sorted lists of names, each with a status, a description and
perhaps a list below it).

| Part | State | Operations | Hard | Correct when |
| --- | --- | --- | --- | --- |
| sources: `input.c`, `input_fs.c`, `input_file.c` | position in the directories or the list, a stack of directories left | `input_read` | directories continued in a later piece; files that vanish; lists without their directories | everything is read once, directories first |
| comparison: `check.c` | the trees `src1`, `src2` (just read), `tmp1`, `tmp2` (read before), `dst` (differences) | three `ft_find_diff`, two `ft_move` per round, `ft_diff_move` at the end | the pieces of both sources do not match; marks and descriptions go different ways | the report does not depend on the pieces |
| output: `output.c`, `output_file.c` | position in the tree, a stack of dumps | `output_write` and `ft_free`, in `flx sign` while it is read | what may already be written and freed; which dump is open | every file once, in order, in its dump |
| lines: `fct1.c`, `utils.c`, `input_file.c` | none | `build_line`, `get_field1`, `fill_from_signfs_line` | special characters in names, widths | what is read back is what was written |

The file system is its environment: files may vanish while they are read.

### 1.5 Others

| Program | State | Hard | Correct when |
| --- | --- | --- | --- |
| `signfs/` (the predecessor of flx) | a sorted list of what the list and the file system say of each name | lines in any order and repeated, a file system that changes | the report is the comparison |
| `mktmp/mktmp.c` (`mklock`) | a directory of numbered entries | concurrent processes, numbers used again | no entry is given twice |
| `lcd/lcdwrite.c`, `lcd/lcdtee.c` | a display | partial and refused writes, one second of waiting in all | what is shown is in order, everyone ends |
| `grub-mbr-default/` | the saved entry in a sector | failed boots, power failures, entries chosen by hand | the first entry of the series that works is the default |
| `scripts/noctrlaltdel` | the table of processes | presses at the same time kill each other | a confirmed request shuts down |
| `scripts/hotplug` | links in `/dev` | concurrent scripts without a lock | - |

`pause`, `remount`, `uname`, `res`, `findcdrom` are a few system calls in a
row, the installation scripts are sequential text handling, `mii` and the MD5
files are third-party. `PROJECT.json` "components" lists all of them with their
status, "hazards" what can go wrong in each.

## 2. Modules

| Module | Models | Composes |
| --- | --- | --- |
| `Preinit` | the interpreter | |
| `Blocks` | abstract specification: a stack of live and skipped blocks | |
| `PreinitBlocks` | the refinement mapping from `Preinit` to `Blocks` | both |
| `FindPart` | the table of partitions and `fp` | |
| `EnvStore` | the environment and its memory | |
| `Wdd` | the daemon, the driver, the scheduler and the failures | |
| `WddHistory` | `Wdd` with history variables for bounds over time | `Wdd` |
| `Ifenslave` | the ioctl sequences of ifenslave, the bonding driver's part | |
| `FlxCheck` | the rounds of `flx check` | |
| `FlxTree` | the tree of `flx` with its marks, and what is freed of it | |
| `FlxInput` | the sources of `flx sign`: file systems, lists, directories of lists | `FlxTree` |
| `FlxOutput` | the dumps of `flx sign` | `FlxTree` |
| `FlxSign` | the loop of `flx sign` | `FlxInput`, `FlxOutput` |
| `TarExtract` | `ta` | |
| `Exec` | `ex`, `rx`, `br`: process 1, the leader, the job, daemons | |
| `WaitShutdown` | `ws` and those who write to its fifo | |
| `Mounts` | the commands that are a row of system calls; the type of a file system | |
| `MultiDev` | families of devices | |
| `SignFs` | the list, the walk and the report of `signfs` | |
| `MkLock`, `LcdWrite`, `GrubMbr`, `NoCtrlAltDel` | the programs of 1.5 | |
| `SignLine` | a line of a list, written and read back | |
| `Commands` | the commands of preinit | `TarExtract`, `Exec`, `WaitShutdown`, `Mounts`, `MultiDev`, `FindPart`, `EnvStore` |
| `Tools` | the small programs | `SignFs`, `MkLock`, `LcdWrite`, `SignLine`, `GrubMbr`, `NoCtrlAltDel` |
| `Programs` | one of them at a time | `Commands`, `Tools` |
| `MC*` | instances for TLC | |
| `PreinitProofs`, `PreinitBlocksProofs`, `WddProofs`, `IfenslaveProofs`, `FlxCheckProofs`, `FlxSignProofs`, `CommandsProofs`, `ToolsProofs` | theorems | |

### 2.1 Preinit

One action per path of an iteration of the loop. A line is what the loop tells
apart: the family of the command, its prefixes `|`, `&`, `!`, and whether the
command would fail if it were run. So a configuration is whatever sequence of
lines the loop happens to read, of any length; every file and every console
session is a behaviour. `role` stands for the flags set from the process
number and the arguments (2425-2466). `saved[l]` is the negation recorded in
`context[l].cond`, `"unset"` until it is written since the array is a local
without initialiser. An access to `context[-1]` leads to the phase
`"undefined"`, where nothing further is claimed. `launch` is the `execve()` at
the end: which program, with or without the arguments, after unmounting or
not.

`Startup` is what comes before the first line (2467-2560). `dev` tells whether
`/dev` has the nodes preinit relies on (`is_dev_populated`), `mounted` what
was mounted over it: `MountOf` is the choice between devtmpfs and tmpfs from
the type `/proc/mounts` gives (`get_dev_type`) and from which mounts the kernel
refuses, and `NodesOn` what `/dev` then shows. A rebuild mounts too; outside
process 1 it leaves a populated `/dev` alone and returns
(`NothingToRebuild`). `DevTypes` and `Refusals` are the types and the
refusals tried.

`Blocks` says what `init/README` promises with no counters: the open blocks
are a stack, each live or skipped; a command runs only when all of them are
live and its prefix agrees with the last status; a block passes its status on,
possibly negated; a console session returns to the blocks of the file.
`PreinitBlocks` maps frame *i* to "live iff *i* <= `run_level`".

### 2.2 FindPart

The machine is a sequence of disks, each a sequence of partitions with a size
and a type; types do not change, as the code detects each once (2301). `fp`
examines candidates (a small ext partition followed by two of equal size) in
the order of detection, marks both images with the rank of their type, stops
early at the first rank, then looks for the first partition with each mark and
the best rank. Marks survive to the next `fp` unless `lp -r` clears them. A
missing image ends in the phase `"crashed"`, where the code follows a null
pointer.

### 2.3 EnvStore

A variable is what is read through its pointer: name, size of the text, place
in the current block. `se` copies everything into a new block; `fp` does so
too, or writes from `env_get_tail()` on when it finds the room sufficient.
`expected` is what a user of the environment relies on. Left out: `se` on the
four variables of `fp` itself, and a kernel environment with the same name
twice. `MaxVars` bounds the variables, since the code lets `fp` repeat some.

### 2.4 Wdd, WddHistory

One action per step of the daemon's loop. `Break(part)` and `Repair(part)` may
happen between any two of them, `Tick` is the second it sleeps for, `Stall` a
second during which the machine does not schedule it. The driver counts down
from its first opening and is not stopped by the end of the daemon, which
never writes the magic character. Distinct arguments and a count that is not
negative are assumed. `WddHistory` adds how often each broken file was
survived by a ping, how many checks found the alive file unchanged, and
whether anything was ever wrong; its counters stop at a cap just above the
bounds that are checked.

### 2.5 Ifenslave

One action per ioctl that changes something, each with a second disjunct in
which the kernel refuses it; `pc` names the next one. `master` is what the
program read of the bond before the first slave and never reads again,
`slave` what it read of the current one, `hwaddr_set` the flag that tells
whether the bond has an address. The driver's part (`Attach`, `Detach`) differs
with its ABI: from version 1 on it sets the address of the slave and brings it
up or down itself, before that the program does. `failed` and `undone` tell
whether the current attempt failed and whether its rollback went through. IP
addresses are left out: setting or clearing them matters only when it fails.

### 2.6 FlxCheck

One action per call of the loop in `flxcheck_main()` (485-511), then the
collection of what is left and the report. A tree is abstracted to what its
lists of names hold: which paths have a node, which of them are filled, and
their descriptions; so walking two sorted lists in step is an intersection.
`Parents[p]` are the directories above `p`, whose nodes exist as soon as `p` is
read. A piece is any part of what is still unread (not empty unless nothing
is left), in any number of pieces, and `ParentsFirst` says that both sources
show a directory before or together with what it holds, as reading a file
system does. `Gone` is a file that was listed but could not be examined any
more: it leaves a filled node without description, and comparing it ends in
the phase `"crashed"`. `show` are the options that choose what is reported.
Left out: the entries `.` and `..` (the option that ignores them is assumed),
patterns that exclude files, which differences count (`Same` is any relation),
the order of the list of differences, and the root of a source, which both
have.

### 2.7 FlxTree, FlxInput, FlxOutput, FlxSign

A path is a sequence of names, a name its rank among its brothers, so that the
order of the lists is that of the paths. The marks of the status word are the
sets `changed`, `sorting`, `reading` and `filled` of the tree. `FlxInput` has
one action per step of a source: an entry of a directory, in any order and
perhaps vanished, the pause when a piece is full, the next directory, a piece
of a list, the next list. `FlxOutput` has one action per step of
`output_file_write_`: an entry passed, a directory entered or left, a stop at
what is still being read; `fdstack`, `bpath` and `recursion` choose the dump.
`refused` are the dumps that cannot be made. `FlxSign` alternates reading,
writing and freeing as `flxsign_main` does.

### 2.8 The commands

`TarExtract` counts the archive in halves of a block, so that a member may end
inside one and an archive be cut anywhere; each member says where its header
is (`at`), and `Layout` is the archive as the sequence of its half blocks. The
code puts prefix and name, or prefix and target of a link, one behind the
other without a slash (1268, 1281), which is `Joined`: a text is what stands
between its slashes, each of these a sequence of pieces, and what two texts
make of the name in which they meet is one more name. Members go below the
directory given, while the target of a hard link is looked up from where
preinit is. `refused` are the paths that cannot be created; a read may fail
or be short, and a write may fail or take only a part of what it is given,
which nothing compensates (1363). `lost` are the members whose own calls
failed or wrote too little, `misread` that a read failed. Links share the data
of their file (`Owner`). Left out: paths through symbolic links, and names
longer than `name[]`. `Exec` has the four kinds of
processes with their parents and statuses; a zombie's status goes to whoever
waits, orphans to process 1, and anyone may be killed. In `WaitShutdown` a
message is two pieces, writers open, write and close the fifo at any time, and
an opening waits until there is somebody at the other end. `Mounts` gives each
command as a graph of system calls with what follows a success and a failure,
and a world they act on; `denied` are the calls that were refused. The
detection of a type has three outcomes: what a full read tells (`FindFsType`),
none after a short one, and after an open or a read that failed whatever the
buffer happens to hold (`Misreads`), since -1 is compared as unsigned (2227).
`piped` tells whether one of 0, 1 and 2 is a pipe, in which case
`reopen_console` keeps them. The list of
types in `/proc/filesystems` may be unreadable or empty; each type in it is a
step of its own. `MultiDev`
has the two loops of `multidev`: make a device, increment the fields.

### 2.9 The small programs

`SignFs` reads the lines one by one, then walks the file system one entry at a
time while files may be removed, then prints. `MkLock` has processes that try
the numbers in order while others remove their entries. `LcdWrite` has
processes that wait for a display: a write takes a part, or is refused.
`SignLine` has names as sequences of characters, those that are escaped or
read specially and digits. In `GrubMbr` the machine boots what is saved, or
what is chosen by hand, and may stop between any two steps; `Lowest` bounds
how far the number counts down. `NoCtrlAltDel` lets `pidof` look at one
process after the other while scripts start, kill, end and become the
shutdown.

`Commands` and `Tools` start in every initial state of one of their modules,
with the others at rest, and take its steps; `Programs` joins the two. What
outlives a call (the environment, the directory of locks, the saved entry) is
state of the module itself, so that nothing is lost by taking one at a time.

## 3. What is checked

| Run | Bounds | Shows |
| --- | --- | --- |
| `preinit` | 3 entries of `context[]`, 33 kinds of lines, all roles; a `/dev` on the root file system, devtmpfs and the nodes refused or not | `TypeOK`, `NoStaleContext`, `RebuildSpares`, the refinement `ImplementsBlocks`, and `ConsoleInitWins` under fairness of the end of `main()` |
| `wdd` | two files, one of which may break, as may memory, `fork()`, both names of the device and writing to it; counts 0 and 2, a driver timeout of 3 s | `ArgsPartition`, `DetectionBound`, `StillFileBound`, `NoFalseAlarm`, `BrokenFileEndsDaemon`, `ExitResets` |
| `ifenslave` | three slaves, lists of one to three names, repeated ones among them, two MTUs, all ABIs, both modes and `-c`, every ioctl refused or not | `StatusTells`, `OneAddress`, `AddressKnown`, `Restored` |
| `flx_check` | a directory with one file beside another path, two contents, files that vanish in one source, four sets of options, every way of cutting the sources | `LeaveTogether`, `Complete`, `CrashNeedsGone`, and `Ends` under fairness |
| `flx_sign` | eight entries in four directories, pieces of two; file systems of depth 0 to 3 at three places, sorted or not, lists of up to seven lines in both orders and one five levels deep, a directory of lists, a list with a file system; levels 0 to 2, one dump refused | `InOrder`, `WrittenIsFreed`, `Complete`, `RightDump`, `Ends` |
| `programs` | see below | for each command: `SuccessIsComplete`, `StatusIsJobs`, `CommandEnds`, `RunLevelHeard`, `EffectTells`, `AllDevices`, `BestIsLeast`, `RightPair`, `EnvKept`; for each program: `ReportIsComparison`, `OneHolder`, `TextInOrder`, `AllEnd`, `RoundTrip`, `SeriesKept`, `ConfirmedShutsDown` |

`programs` takes: archives of two or three members of every type, cut at every
place, with and without a prefix, over an empty or an occupied directory, extracted to the current directory or another; two daemons beside a job; two
writers; 96 kinds of devices to mount, each taken for any type when it cannot be read; rules of up to three fields from bases
0 and 250; 315 tables of partitions and four lists of types; three user
variables of two sizes, 8 variables at most; lists of up to three lines and
systems of up to three files; three locking processes with one number left
from before; one `lcdwrite` and one `lcdtee` with up to two pieces of text and
one wait; every name of up to three characters out of six; five GRUB entries in
series of one to three and two calls per boot; two presses beside the subshell
of an earlier one.

Why the bounds are enough. Three levels hold a live block in a live block, a
skipped one in a live one and one in a skipped one, a console session inside a
block that opens its own, and the refusal at the last level; the proofs cover
any number. The tables hold two overlapping pairs, two pairs on two disks, and
partitions too small for either place. Two sizes on either side of what `fp`
needs make both of its branches possible after every sequence of `se`. An
archive has every pair of kinds of members next to each other, each cut before,
inside and after; two writers of two pieces interleave, and a range of 255 to
0 passes the limit of a byte. Three lines with repetitions reach every order of
a directory, a file in it and a second line on one of them. Three processes are
the fewest of which one takes up what another left while the third still
looks. A name of three characters is a percent with two digits; five entries
hold a whole series of three and a part of one. Pieces of two entries cut a directory of
`flx sign` before, inside and after every other one. Two
files give all prunings (none, first, last, both, one replaced by the other)
and a round robin that is not trivial; a timeout of two seconds is the least
with which a single missed ping is survived. Three slaves, two of which may be
attached at the start, are enough for an attempt that fails between two that
do not. Three paths are read in one to three pieces from each source, so that
a file meets its counterpart in the same round, in a later one, on either
side, or never; the proofs cover any number.

Fairness. In `Preinit`, only the end of `main()`, which waits for nothing; the
reading of lines, from a user, is not assumed to go on. In `Wdd`, the daemon
is scheduled in the end (`WF_vars(Daemon)`) and time passes (`WF_vars(Tick)`);
nothing is assumed of the parts that break, so that `BrokenFileEndsDaemon`
speaks only of files that stay broken. Deadlock is not checked for `wdd`,
whose machine stops at the reset. `flx check` is one process that never waits
for another, hence `WF_vars(Next)`; the file system it reads has an end. The
same holds of `flx sign`. In `Exec` (`ExecFairness`) the three processes are
scheduled, the program run ends and its output is written in the end; in
`WaitShutdown` process 1 is scheduled and a writer closes the fifo in the end;
in `LcdWrite` each process is scheduled, and nothing is assumed of the display.
`programs` does not check for deadlock, since each program ends.

`preinit` keeps the type invariant of the interpreter, since the index of
`context[]` is what can go wrong there. Those of the other proved modules are
theorems, and no run repeats them; neither does one repeat `RunLevelBounded`,
`DevReady`, `NextFileExists`, `ExitIsDeserved`, `MasterUp` and `NoneMissed`,
which are proved for every value.

The violation runs show where the code does not do what its documentation or
its own comments say; `PROJECT.json` "findings" quotes both.

- `preinit_rebuild`: `rebuild` executes programs when the process is number 1,
  or after its file opened a console (16, 3302).
- `preinit_underflow`: `!}` with no open block reads `context[-1]` (2655).
- `find_part_null`: overlapping pairs of different types leave an image unset,
  which is then read through a null pointer (3136).
- `env_lost`: when `fp` reuses the block of the environment, it overwrites the
  last variable (944).
- `ifenslave_address`: a refused slave makes the program forget that the bond
  has an address, and the next slave gives it its own (824).
- `flx_sign_dump`: going up to a changed directory counts the level down, where
  leaving one counts it up; later a directory gets the dump of another one,
  made again, and what that held is lost (`flx/output_file.c:43`). It takes a
  sorted list five levels deep and three levels of dumps, hence `MadeAgain` in
  `Complete`; `RightDump` is said of file systems only, where nothing is
  climbed.

The models show further divergences that have no run: `rebuild` mounts
devtmpfs or tmpfs on a `/dev` without console, in process 1 or not, against
line 16 (2491), hence what `RebuildSpares` says of `mounted`; a block opened on the
console after closing one of the file's replaces the negation recorded for
the file's block (2689); a list that names a file before its directory loses
the directory, since `ft_move()` moves the description into the node that
exists but not its mark (`flx/check.c:274`), hence `ParentsFirst`; an `INIT=` of the
environment is launched with arguments, against line 55 (3869); the tenth
nested block is refused, against `init/README:221` (2673); a dot with a prefix
does not end its input (2632); marks of an earlier `fp` make a later one name
a pair of none of its types (3117), and pairs that overlap make it name
partitions of two disks, which are no pair (3112), hence the premises `fresh`
and `~Overlapping` in the properties of `FindPart`; a variable set between two
`fp` leaves the free room in the middle of the block, so that the second
writes past its end (3160), hence the premise `~reused` of `EnvKept`. With a driver of ABI 0, a bond without an
address gives its second slave the address read before the first, which is
zero (749), a bond whose address cannot be set stays down (777), and the
address given to a slave stays after its enslavement failed (824): hence the
premises on `abi` in the properties of `Ifenslave`.

In the commands of preinit: `br` leaves `error` at 0 when its program cannot be
executed; `rx` runs the program in the old root when `chroot()` fails (3435);
the status of tar members is reset by the next one, so that success is
reported although files were refused (1372), and a short write goes unnoticed
(1363), hence `lost` in `SuccessIsComplete`; a prefix is not separated from
the name behind it (1269), and the
target of a hard link gets the prefix, too, but not the directory below which
its file was put (1281, 1314); a read error after a header without data is taken for
another header (1247), hence `misread`; a device that cannot be opened or
read is not without type, as the comment on line 2228 has it, but of the type
that the buffer looks like (2227), hence what `EffectTells` says of `detect`; a message written between the end of the fifo and its
reopening is discarded (2384), hence the premise of `RunLevelHeard`; `mt` with
a node that cannot be made reports an error although it mounted, `mv` unmounts
even when the bind failed, and `mp` never closes its file.

In flx: the mark that makes the output wait for the rest of a list stays on its
directory when the next list of a directory of lists is read, and what follows
is freed unwritten (`flx/output_file.c:124` says "verify that all files are
readed"), hence `Directories` in `Complete`; a dump that cannot be made makes
that of the directory above be closed at its end (`flx/output_file.c:136`),
hence `refused` in `Complete`; names with a parenthesis are cut
when a list is read back (`flx/input_file.c:36`) and device numbers with minors
above 255 differ (`flx/input_file.c:115`), hence the premises of `RoundTrip`.

In the small programs: `signfs` keeps the sum of the list for a file that it
cannot open; `grub-mbr-default` run twice in one boot goes back two series, and
after an entry chosen by hand with 0 saved it stores -1; a confirmed
`noctrlaltdel` may kill the shutdown another one has just become, and then is
the shutdown itself.

## 4. What is proved

TLAPS proves the following for every value of the constants that satisfies the
modules' named assumptions (`MAX_BRACE_LEVEL` at least 1, lines that are
lines; any set of files, any number of them).

- `PreinitProofs`: `TypeOK`, `RunLevelBounded`, `NoStaleContext`,
  `RebuildSpares` and `DevReady`. The inductive invariant is `TypeOK`,
  `RunLevelBounded`, `NoStaleContext` and `StartInv` (before start-up nothing
  was executed nor mounted, and `/dev` is as it was found). They need each
  other: a closing brace keeps `run_level` in its range only since it does not exceed `brace_level`, and the return from the
  console keeps it bounded only since a level was recorded. With it,
  `RebuildSpares` and `DevReady` are inductive: they hold for any types of
  `/dev` and any refusals, one step for start-up and one for the lines.
- `PreinitBlocksProofs`: `Refinement`, that `Preinit` implements `Blocks`. The
  initial states map, and each action maps to one of `Blocks` or a stutter,
  one lemma for each action, using the invariants above.
- `WddProofs`: `ArgsPartition`, `NextFileExists`, `ExitIsDeserved` and
  `TypeOK`. The invariant `ArgsType /\ ArgsPartition /\ CursorInv /\ CountInv`
  states where the cursor is at each step and that the count of unchanged
  checks is positive whenever the alive file is about to be examined; without
  it the count could pass zero and never come back. The types of the rest and
  the driver's countdown, which is positive until the reset, follow
  separately. Then the three bounds of `WddHistory`: `NoFalseAlarm` with
  `CalmInv` (on a calm machine the driver has its whole time left whenever
  the daemon goes to sleep, hence a timeout of at least two seconds);
  `StillFileBound` with `StillInv` (what is left of the count and the checks
  that found the file unchanged make up the count of `-c`); `DetectionBound`
  with `PingsInv`, whose measure is the distance of a broken file from the
  cursor of the round robin: the pings since it broke and the files before its
  turn are never more than the files there are.
- `IfenslaveProofs`: `TypeOK`, `MasterUp` and `OneAddress`. The first two need
  only that the master is up except between being brought down and up again
  (`UpInv`). The last needs `AttachInv` (the slave at hand is not attached
  until the end of the attempt, and only a failure leads to a rollback) and
  `AddressInv`: while nothing has failed, either no slave is attached or
  `hwaddr_set` holds, and what was read of the master's address, if any, is
  still its address. `Restored` needs that the MTU and, with a newer driver,
  the address are those read until they are set (`RestoreInv`);
  `AddressKnown` that no slave's address is null, so that the bond is never
  given one after `hwaddr_set` (`KnownInv`); `StatusTells` that every
  name of the command line passed so far is treated as asked while the status
  is zero, also where a name occurs twice (`StatusInv`).
- `FlxCheckProofs`: `LeaveTogether`, `NoneMissed`, `CrashNeedsGone` and
  `Complete`, assuming `ParentsFirst`, and `TypeOK` without it. The invariant
  says where each file is (`Placed`: in one of the unread part, what was just
  read and what was read before, with its description), that `dst` has a
  verdict exactly on the files that left these places (`Judged`), and which
  pairs of trees have no file in common after each comparison (`Apart`).
  `ParentsFirst` is what makes `Placed` inductive: no node exists for a file
  that is still to be read. At the end `dst` is then a function of the whole
  sources (`Final`), and its lines are those expected.
- `CommandsProofs`, for the commands of preinit:
  - `StatusIsJobs` of `Exec`, for any daemons. `LeaderInv` ties the state of the
    job to where the leader is, and `WaitInv` the status of process 1 to the
    leader it has reaped; daemons may end, be orphaned or be killed at any time
    without touching either.
  - `BestIsLeast` and `RightPair` of `FindPart`, for any table of partitions
    and any lists of types. The first needs that the rank found is the least
    of the candidates examined so far, `RightPair` what the marks on the table
    say of them (`MarksInv`): only the first candidate of rank 0 was marked
    with it, and without overlap each mark belongs to one candidate.
  - `SuccessIsComplete` of `TarExtract`, for any archive, texts and files that
    were there before. The invariant (`TarInv`) says that two empty blocks
    stand before an end without error (`EndsInv`) and, as long as no read
    failed, that a header is read exactly where a member begins, that every
    member before the current one is there, replaced or lost to its own calls
    (`Covered`), and how much of the current one is in its file
    (`ProgressInv`). A short read may leave the position one unit beside the
    end of a member: then what is read next is no header, and the command
    fails unless the archive ends there.
  - `EffectTells` of `Mounts`, for any device and any list of types of the
    kernel: an invariant for each command, which says for each step what has
    been done, whether `error` is set, and which files may be open. That of
    `mt` with `auto` counts through the list: as long as nothing but the
    detection was refused, no type tried so far reads the device, whatever
    type was thought to be read before. `ConsoleInv` says where the console is
    once `sw` and `pr` have come to it.
  - `EnvKept` of `EnvStore`, for any environment and any sizes. The invariant
    (`EnvInv`) says that the variables differ in name, those that `fp` may
    repeat excepted once it has written in place (`Once`); that the texts lie
    one after the other within the block while every change copied (`Apart`);
    and that there is an entry for each pointer, always. It rests on what the sums of the sizes are
    (`OffsetsAre`, `OffsetsGrow`) and on what removing a variable leaves.
  - `AllDevices` of `MultiDev`, for any rule and any first minor. Each field
    has a rank among its values (`RankOf`), which `Next1` raises by one or,
    with a carry, resets from the last one to 0 (`NextOK`). The invariant
    (`MadeSoFar`) says that the devices made are as many as the ranks count to,
    each weighted by the devices that the fields before it make, and during a
    carry as many more as the fields already passed. The ranks are then the
    digits of that number (`DigitIs`), which is how the reference names the
    next device; the sum of the differences in bytes that the code forms for
    the minor is another number, but equal modulo 256 (`OffsetIs`,
    `TotalWraps`).
- `ToolsProofs`, for the small programs:
  - `OneHolder` for any number of processes and any entries left in the
    directory. It is inductive with the types alone.
  - `ConfirmedShutsDown` for any number of presses. The invariant adds that a
    script never finds itself (`NotItself`), that a subshell is only left by a
    script that found none (`TimerAlone`), and that of the scripts that found
    others one is always at work or has become the shutdown (`OneLeft`):
    whoever kills it is that one then.
  - `SeriesKept` for any entries and length of series, by arithmetic on
    quotients and remainders; it is inductive with the types and `SectorInv`
    (what is about to be written was computed from what the sector has).
  - `TextInOrder` for any processes and texts: the places written of a process
    are those before the one it has reached (`GivenInv`), in order
    (`OrderInv`), and of `lcdwrite` all of them (`WholeInv`).
  - `ReportIsComparison` of `SignFs`, for any list that names directories
    first and any file system: each node of the list is what the last line on
    its path and the walk so far make of it (`NodeInv`), no path is walked
    twice (`WalkInv`).
  - `RoundTrip` of `SignLine`, for any names, targets and numbers of devices.
    Reading is a loop over characters, so that the proof counts along the
    pieces a text is written as: the rounds that read the first of them leave
    the first characters of the text (`FieldReads`), whatever stands before
    (`EscapedLies`), up to a space or the end of the line (`TextReads`). No
    text begins with a space once it is written (`FirstWritten`), which is why
    the space between two fields is the only one passed. The invariant
    (`LineKnown`) only says what the line consists of.
- `FlxSignProofs`: `InOrder`, `WrittenIsFreed` and `Complete`, for a file system
  that is sorted, of any entries, base and depth, and for any file systems and
  lists that are not (`Plain`), and `RightDump` as it stands. The inductive
  invariant (`IInv`) relates the place of the
  reading, that of the output and the marks of the tree: what is in the tree
  when a piece is read is after every line that was written (`OrderOk`); a
  directory still to be read, or read in part, has the mark `sorting`, and no
  line comes after it (`FsOk`, `RoundOk`); while the output goes through the
  tree, what it has behind it is what `ft_free` can reach over changed nodes,
  and nothing marked is behind it. The rest is the order of paths (`Between`:
  between two entries of a directory there is only what the first one holds)
  and what `ft_free` leaves (`FreedMarks`).
  - `InOrder` and `WrittenIsFreed` also hold for one list that is sorted and
    has its lines in the order of the tree (`OrderedList`), as any dump has by
    the theorem before. The output may start a round further up there, and the
    invariant (`LInv`) is another one: the lines left are after those in the
    tree and those written (`FdOk`), and since nothing is marked `sorting`,
    every round ends with an empty tree (`ListFreed`).
  - `RightDump`: as long as all dumps can be made, each entry of `fdstack` is
    the dump of the directory at its depth, cut at the level (`StackOk`). That
    the output starts a round at the directory where it stopped (`ClimbedIs`)
    is what keeps the stack in step with the path; for the lists in which it
    starts further up, it is not (`OwnDump`).
  - `Complete`: what has arrived is written or still in the tree at every
    moment of a round (`Covered`). While the output walks, all that lies behind
    it is written (`VisitCover`); when a round ends, what `ft_free` takes lies
    behind, and what it leaves lies ahead (`FreeCover`, `ReadingCover`). A dump
    that is opened again loses what it held, so that no changed directory may
    lie where the output has been, unless the output is inside it: `changed`
    only holds directories above the place of the output and ones that are not
    passed. A line is lost too when its dump was closed, which no dump on the
    stack is (`ClosedOk`). And once the output has left the root, the stack is
    empty and nothing would be written any more: that only happens when the
    reading has nothing left (`EndRead`).

The assumptions on the constants are those of the code: a list of types has
fewer than `MAX_CFG_ARGS` elements, since a line has no more words
(`init/init.c:1811`); a member's header is a whole block and its data end at
one; a driver's timeout is at least two seconds (the daemon sleeps for one);
the names of daemons, interfaces and presses differ from those with a role of
their own; the kernel passes no variable twice; the bounds of a range
are bytes, as `multidev` parses them (`uint8_t`), and a set of characters is
not empty (an empty one, a mistake in the configuration, is left out); the
paths of `flx sign` are sequences of names, and a list names none that is
empty; scales
and first minors are natural numbers; sizes, counts and numbers are natural numbers; no file has an empty name.
TLC evaluates each on its instance.

Only model-checked, and why: liveness (`ConsoleInitWins`,
`BrokenFileEndsDaemon`, `ExitResets`, `Ends`, `CommandEnds`, `RunLevelHeard`,
`AllEnd`), which is out of the prover's reach; `Complete` for a list that is
sorted, where the output may go up when a round begins, so that it depends on
the order of the lines and on the level what is in a dump made again or
closed; and all three for a directory of lists that is sorted.

## 5. Plan

1. The interpreter, its abstract specification and their proofs (done).
2. The watchdog daemon and its proofs (done).
3. The partition search and the environment (done).
4. `Ifenslave` and its proofs (done).
5. `FlxCheck`, `FlxSign` and their proofs (done). Open: the lists behind the
   trees (`ft_add`, the place searched in `dst`) against the sets of
   `FlxCheck`.
6. The commands of preinit and their proofs (done).
7. The small programs, the script of the keys and their proofs (done).

## 6. Not modelled

- Quoting and variables of `parse_cfg`: work on single characters, without
  state between two lines.
- `rf` and `ls` of preinit: the first skips the argument after a file and may
  go past the last one (1596), adds to a size that was never set (1546); the
  second counts `.` and `..`, so that no directory is empty for it (1480). There
  is no order of steps to get wrong.
- Patterns, most options and the arguments of flx and signfs, the options of
  formats; `signfs/libtools.c`, which nothing calls.
- Earlier versions: `ifenslave-1.0.11.c`, `ifenslave-1.0.12.c`.
- `scripts/hotplug`: concurrent scripts share links without any lock; what
  could be said of one alone is a single `find` and `rm`.
- `mii`, MD5: third-party. `pause`, `remount`, `uname`, `res`, `findcdrom` and
  the installation scripts: a few steps in a row whose state ends with them.
