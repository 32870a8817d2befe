------------------------------ MODULE Ifenslave ------------------------------
(***************************************************************************)
(* ifenslave 1.1.0: the sequences of ioctls that attach network interfaces *)
(* to a bond, or detach them, with the rollback of an attempt that fails.  *)
(*                                                                         *)
(* Every ioctl is a step and may be refused.  The names of the slaves are  *)
(* taken from the command line one by one; what the program knows of the   *)
(* master it read once, before the first.  IP addresses are left out: the  *)
(* ioctls that set or clear them only matter by their failure.             *)
(***************************************************************************)
EXTENDS Naturals, Sequences

CONSTANTS
  Slaves,   \* the interfaces that may be attached
  Master,   \* the bond
  Zero,     \* the hardware address of a bond that has none
  Lists,    \* the lists of slaves a command line may give
  MTUs

ASSUME NamesAssumption == Master \notin Slaves /\ Zero \notin Slaves \cup {Master}
ASSUME ListsAssumption == Lists \subseteq Seq(Slaves) \ {<<>>}

(* An interface has its own hardware address, known by its name. *)
Interfaces == Slaves \cup {Master}
Addresses == Interfaces \cup {Zero}
DEFAULT_MTU == 1500
ASSUME MTUsAssumption == DEFAULT_MTU \in MTUs /\ MTUs \subseteq Nat

VARIABLES
  mode,        \* opt_d and opt_c, or neither
  abi,         \* abi_ver
  argv,        \* the slaves named
  todo,        \* the slaves to come, the current one first
  pc,
  res,         \* the exit status, 1 for any but zero
  failed,      \* the current slave's
  master,      \* master_hwaddr and master_mtu
  slave,       \* slave_hwaddr and slave_mtu
  hwaddr_set,
  undone,      \* no step of the current rollback failed
  up, mac, mtu, bonded  \* the interfaces in the kernel

command == <<mode, abi, argv>>
program == <<todo, res, master, slave, hwaddr_set>>
kernel == <<up, mac, mtu, bonded>>
vars == <<command, program, pc, failed, undone, kernel>>

Settings(i) == [mac |-> mac[i], mtu |-> mtu[i]]
Cur == Head(todo)

(* A bond that has slaves has an address, which is theirs. *)
Init ==
  /\ mode \in {"enslave", "detach", "change"}
  /\ abi \in 0 .. 2
  /\ argv \in Lists
  /\ todo = argv
  /\ pc = "start"
  /\ res = 0
  /\ failed = FALSE
  /\ master = [mac |-> Zero, mtu |-> 0]
  /\ slave = [mac |-> Zero, mtu |-> 0]
  /\ hwaddr_set = FALSE
  /\ undone = TRUE
  /\ bonded \in SUBSET Slaves
  /\ \E address \in (IF bonded = {} THEN {Zero, Master} ELSE bonded) :
       mac = [i \in Interfaces |-> IF i \in bonded \cup {Master} THEN address ELSE i]
  /\ mtu \in [Interfaces -> MTUs]
  /\ \A s \in bonded : mtu[s] = mtu[Master]
  /\ up = bonded \cup {Master}

Goto(next) == pc' = next /\ UNCHANGED <<failed, undone>>
Fail(next) == pc' = next /\ failed' = TRUE /\ UNCHANGED <<undone, kernel>>
Refused(next) == pc' = next /\ undone' = FALSE /\ UNCHANGED <<failed, kernel>>

-----------------------------------------------------------------------------
(* The command line. *)

(* No handshake with the driver, no settings, not a master that is up and  *)
(* of the right family. *)
Refuse ==
  /\ pc = "start"
  /\ Goto("exit")
  /\ res' = 1
  /\ UNCHANGED <<command, todo, master, slave, hwaddr_set, kernel>>

ReadMaster ==
  /\ pc = "start"
  /\ Goto("next")
  /\ master' = Settings(Master)
  /\ hwaddr_set' = (mode = "enslave" /\ mac[Master] # Zero)
  /\ UNCHANGED <<command, todo, res, slave, kernel>>

ReadSlave ==
  /\ pc = "next"
  /\ todo # <<>>
  /\ slave' = IF mode = "enslave" THEN Settings(Cur) ELSE slave
  /\ undone' = TRUE
  /\ LET wrong == (mode = "enslave") = (Cur \in bonded)
     IN /\ failed' = wrong
        /\ pc' = IF wrong THEN "return"
                 ELSE CASE mode = "enslave" -> "down"
                        [] mode = "detach" -> "release"
                        [] mode = "change" -> "change"
  /\ UNCHANGED <<command, todo, res, master, hwaddr_set, kernel>>

(* A slave whose settings cannot be read is skipped. *)
SkipSlave ==
  /\ pc = "next"
  /\ todo # <<>>
  /\ Goto(IF mode = "change" THEN "exit" ELSE "next")
  /\ res' = 1
  /\ todo' = Tail(todo)
  /\ UNCHANGED <<command, master, slave, hwaddr_set, kernel>>

(* Mutant: the status of the last slave only. *)
ReturnLast ==
  /\ pc = "return"
  /\ Goto(IF mode = "change" THEN "exit" ELSE "next")
  /\ res' = IF failed THEN 1 ELSE 0
  /\ todo' = Tail(todo)
  /\ UNCHANGED <<command, master, slave, hwaddr_set, kernel>>

Return ==
  /\ pc = "return"
  /\ Goto(IF mode = "change" THEN "exit" ELSE "next")
  /\ res' = IF failed THEN 1 ELSE res
  /\ todo' = Tail(todo)
  /\ UNCHANGED <<command, master, slave, hwaddr_set, kernel>>

AllDone ==
  /\ pc = "next"
  /\ todo = <<>>
  /\ Goto("exit")
  /\ UNCHANGED <<command, program, kernel>>

Exited == pc = "exit" /\ UNCHANGED vars

-----------------------------------------------------------------------------
(* enslave() *)

SetDown ==
  /\ pc = "down"
  /\ \/ Goto("address") /\ up' = up \ {Cur} /\ UNCHANGED <<mac, mtu, bonded>>
     \/ Fail("return")
  /\ UNCHANGED <<command, program>>

(* The addresses of the master are copied, or those of the slave cleared.  *)
SetAddress ==
  /\ pc = "address"
  /\ \/ Goto("mtu") /\ UNCHANGED kernel
     \/ Fail("return")
  /\ UNCHANGED <<command, program>>

Hwaddr == IF hwaddr_set THEN IF abi < 1 THEN "slavemac" ELSE "enslave"
          ELSE IF abi < 1 THEN "masterdown" ELSE "mastermac"

SetMtu ==
  /\ pc = "mtu"
  /\ \/ /\ Goto(Hwaddr)
        /\ mtu' = [mtu EXCEPT ![Cur] = master.mtu]
        /\ UNCHANGED <<up, mac, bonded>>
     \/ master.mtu # slave.mtu /\ Fail("return")
  /\ UNCHANGED <<command, program>>

(* With an old driver, the slave is given the address of the master and    *)
(* is brought up again: here. *)
SetSlaveMac ==
  /\ pc = "slavemac"
  /\ \/ /\ Goto("slaveup")
        /\ mac' = [mac EXCEPT ![Cur] = master.mac]
        /\ UNCHANGED <<up, mtu, bonded>>
     \/ Fail("undo_mtu")
  /\ UNCHANGED <<command, program>>

SetSlaveUp ==
  /\ pc = "slaveup"
  /\ \/ Goto("enslave") /\ up' = up \cup {Cur} /\ UNCHANGED <<mac, mtu, bonded>>
     \/ Fail("undo_slave_mac")
  /\ UNCHANGED <<command, program>>

(* A master without an address takes that of its first slave, for which an *)
(* old driver wants it down. *)
SetMasterDown ==
  /\ pc = "masterdown"
  /\ \/ Goto("mastermac") /\ up' = up \ {Master} /\ UNCHANGED <<mac, mtu, bonded>>
     \/ Fail("undo_mtu")
  /\ UNCHANGED <<command, program>>

(* Mutant: the next slave will give it its own address as well. *)
SetMasterMacEach ==
  /\ pc = "mastermac"
  /\ \/ /\ Goto(IF abi < 1 THEN "masterup" ELSE "enslave")
        /\ mac' = [mac EXCEPT ![Master] = slave.mac]
        /\ UNCHANGED <<up, mtu, bonded, hwaddr_set>>
     \/ Fail("undo_mtu") /\ UNCHANGED hwaddr_set
  /\ UNCHANGED <<command, todo, res, master, slave>>

SetMasterMac ==
  /\ pc = "mastermac"
  /\ \/ /\ Goto(IF abi < 1 THEN "masterup" ELSE "enslave")
        /\ mac' = [mac EXCEPT ![Master] = slave.mac]
        /\ hwaddr_set' = ~(abi < 1)
        /\ UNCHANGED <<up, mtu, bonded>>
     \/ Fail("undo_mtu") /\ UNCHANGED hwaddr_set
  /\ UNCHANGED <<command, todo, res, master, slave>>

SetMasterUp ==
  /\ pc = "masterup"
  /\ \/ /\ Goto("enslave")
        /\ up' = up \cup {Master}
        /\ hwaddr_set' = TRUE
        /\ UNCHANGED <<mac, mtu, bonded>>
     \/ Fail("undo_master_mac") /\ UNCHANGED hwaddr_set
  /\ UNCHANGED <<command, todo, res, master, slave>>

(* The driver's part: from its first ABI on, it gives the slave the        *)
(* master's address and brings it up.                                      *)
Attach ==
  /\ bonded' = bonded \cup {Cur}
  /\ mac' = IF abi >= 1 THEN [mac EXCEPT ![Cur] = mac[Master]] ELSE mac
  /\ up' = IF abi >= 1 THEN up \cup {Cur} ELSE up
  /\ UNCHANGED mtu

Enslave ==
  /\ pc = "enslave"
  /\ \/ Goto("return") /\ Attach
     \/ Fail("undo_master_mac")
  /\ UNCHANGED <<command, program>>

(* The rollback goes on whatever happens to its steps. *)

(* Mutant: the program still takes it that the master has its address.     *)
UndoMasterMacOnly ==
  /\ pc = "undo_master_mac"
  /\ \/ /\ Goto("undo_mtu")
        /\ mac' = [mac EXCEPT ![Master] = master.mac]
        /\ UNCHANGED <<up, mtu, bonded>>
     \/ Refused("undo_mtu")
  /\ UNCHANGED <<command, program>>

UndoMasterMac ==
  /\ pc = "undo_master_mac"
  /\ \/ /\ Goto("undo_mtu")
        /\ mac' = [mac EXCEPT ![Master] = master.mac]
        /\ UNCHANGED <<up, mtu, bonded>>
     \/ Refused("undo_mtu")
  /\ hwaddr_set' = FALSE
  /\ UNCHANGED <<command, todo, res, master, slave>>

UndoSlaveMac ==
  /\ pc = "undo_slave_mac"
  /\ \/ /\ Goto("undo_mtu")
        /\ mac' = [mac EXCEPT ![Cur] = slave.mac]
        /\ UNCHANGED <<up, mtu, bonded>>
     \/ Refused("undo_mtu")
  /\ UNCHANGED <<command, program>>

(* Mutant: the master's is set once more. *)
UndoMtuMaster ==
  /\ pc = "undo_mtu"
  /\ \/ /\ Goto("return")
        /\ mtu' = [mtu EXCEPT ![Cur] = master.mtu]
        /\ UNCHANGED <<up, mac, bonded>>
     \/ Refused("return")
  /\ UNCHANGED <<command, program>>

UndoMtu ==
  /\ pc = "undo_mtu"
  /\ \/ /\ Goto("return")
        /\ mtu' = [mtu EXCEPT ![Cur] = slave.mtu]
        /\ UNCHANGED <<up, mac, bonded>>
     \/ Refused("return")
  /\ UNCHANGED <<command, program>>

-----------------------------------------------------------------------------
(* release() and change_active() *)

(* The driver's part: from its first ABI on, it gives the slave its own    *)
(* address back and brings it down.                                        *)
Detach ==
  /\ bonded' = bonded \ {Cur}
  /\ mac' = IF abi >= 1 THEN [mac EXCEPT ![Cur] = Cur] ELSE mac
  /\ up' = IF abi >= 1 THEN up \ {Cur} ELSE up
  /\ UNCHANGED mtu

Release ==
  /\ pc = "release"
  /\ \/ Goto(IF abi < 1 THEN "releasedown" ELSE "defaultmtu") /\ Detach
     \/ Fail("return")
  /\ UNCHANGED <<command, program>>

(* With an old driver the program takes it down, to avoid a conflict of    *)
(* addresses. *)
ReleaseDown ==
  /\ pc = "releasedown"
  /\ \/ Goto("defaultmtu") /\ up' = up \ {Cur} /\ UNCHANGED <<mac, mtu, bonded>>
     \/ Fail("defaultmtu")
  /\ UNCHANGED <<command, program>>

SetDefaultMtu ==
  /\ pc = "defaultmtu"
  /\ Goto("return")
  /\ mtu' \in {mtu, [mtu EXCEPT ![Cur] = DEFAULT_MTU]}
  /\ UNCHANGED <<command, program, up, mac, bonded>>

(* Which slave is active is the driver's own affair. *)
ChangeActive ==
  /\ pc = "change"
  /\ \/ Goto("return") /\ UNCHANGED kernel
     \/ Fail("return")
  /\ UNCHANGED <<command, program>>

EnslaveStep ==
  \/ SetDown \/ SetAddress \/ SetMtu \/ SetSlaveMac \/ SetSlaveUp
  \/ SetMasterDown \/ SetMasterMac \/ SetMasterUp \/ Enslave
  \/ UndoMasterMac \/ UndoSlaveMac \/ UndoMtu

Next ==
  \/ Refuse \/ ReadMaster \/ ReadSlave \/ SkipSlave \/ Return \/ AllDone \/ Exited
  \/ EnslaveStep
  \/ Release \/ ReleaseDown \/ SetDefaultMtu \/ ChangeActive

Spec == Init /\ [][Next]_vars

-----------------------------------------------------------------------------
(* Properties. *)

AttachSteps ==
  {"down", "address", "mtu", "slavemac", "slaveup", "masterdown", "mastermac",
   "masterup", "enslave", "undo_master_mac", "undo_slave_mac", "undo_mtu"}

Steps ==
  AttachSteps \cup {"start", "next", "return", "exit", "release", "releasedown",
                   "defaultmtu", "change"}

(* Variables keep their types, a slave is at hand while one is worked on,  *)
(* and no MTU is set that was not read before. *)
TypeOK ==
  /\ mode \in {"enslave", "detach", "change"}
  /\ abi \in 0 .. 2
  /\ argv \in Seq(Slaves)
  /\ todo \in Seq(Slaves)
  /\ pc \in Steps
  /\ pc \notin {"start", "next", "exit"} => todo # <<>>
  /\ pc \notin {"start", "exit"} => master.mtu \in MTUs
  /\ pc \in AttachSteps => mode = "enslave" /\ slave.mtu \in MTUs
  /\ res \in {0, 1}
  /\ failed \in BOOLEAN
  /\ master \in [mac : Addresses, mtu : MTUs \cup {0}]
  /\ slave \in [mac : Addresses, mtu : MTUs \cup {0}]
  /\ hwaddr_set \in BOOLEAN
  /\ undone \in BOOLEAN
  /\ up \in SUBSET Interfaces
  /\ mac \in [Interfaces -> Addresses]
  /\ mtu \in [Interfaces -> MTUs]
  /\ bonded \in SUBSET Slaves

(* An exit status of zero tells that every slave named is attached, or     *)
(* detached, whatever was skipped, refused or named twice.                 *)
StatusTells ==
  pc = "exit" /\ res = 0 =>
    \A i \in DOMAIN argv : /\ mode = "enslave" => argv[i] \in bonded
                           /\ mode = "detach" => argv[i] \notin bonded

(* When nothing has failed so far, all slaves share the address of the     *)
(* master: the address it takes from the first is not taken again.  Of an  *)
(* old driver this holds for a master that has an address.                 *)
OneAddress ==
  mode = "enslave" /\ res = 0 /\ ~failed /\ (abi >= 1 \/ master.mac # Zero) =>
    \A s \in bonded : mac[s] = mac[Master]

(* As long as hwaddr_set says so, the master has an address, so that a     *)
(* slave attached after a failed attempt gives it one when it lost it.     *)
AddressKnown == abi >= 1 /\ hwaddr_set => mac[Master] # Zero

(* A slave that could not be attached has its own settings again, unless   *)
(* the rollback itself failed; with an old driver the address it was given *)
(* stays. *)
Restored ==
  mode = "enslave" /\ pc = "return" /\ failed /\ undone /\ Cur \notin bonded =>
    mtu[Cur] = slave.mtu /\ (abi >= 1 => mac[Cur] = slave.mac)

(* A slave is only attached to a master that is up, even when an earlier   *)
(* attempt left the master down. *)
MasterUp == pc = "enslave" => Master \in up

(* The help message: if the bond had no address it takes that of the first *)
(* interface, and all attached after that get the same.                    *)
SameAddress ==
  mode = "enslave" /\ pc = "exit" => \A s \in bonded : mac[s] = mac[Master]
=============================================================================
