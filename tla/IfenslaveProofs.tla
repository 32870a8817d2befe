-------------------------- MODULE IfenslaveProofs --------------------------
(***************************************************************************)
(* Proofs about ifenslave, for any set of interfaces, any lists of slaves  *)
(* and any failures of the ioctls.                                         *)
(***************************************************************************)
EXTENDS Ifenslave, SequenceTheorems, TLAPS

(* Type correctness, action by action. *)
LEMMA TypeInit == Init => TypeOK
<1> SUFFICES ASSUME Init PROVE TypeOK
  OBVIOUS
<1>1. argv \in Seq(Slaves) /\ todo \in Seq(Slaves) /\ todo # <<>>
  BY ListsAssumption DEF Init
<1>2. PICK address \in (IF bonded = {} THEN {Zero, Master} ELSE bonded) :
        mac = [i \in Interfaces |-> IF i \in bonded \cup {Master} THEN address ELSE i]
  BY DEF Init
<1>3. address \in Addresses
  BY <1>2 DEF Init, Addresses, Interfaces
<1>4. mac \in [Interfaces -> Addresses]
  BY <1>2, <1>3 DEF Addresses
<1>5. master \in [mac : Addresses, mtu : MTUs \cup {0}]
  BY DEF Init, Addresses
<1>6. slave \in [mac : Addresses, mtu : MTUs \cup {0}]
  BY DEF Init, Addresses
<1>7. /\ mode \in {"enslave", "detach", "change"} /\ abi \in 0 .. 2
      /\ pc \in Steps /\ pc = "start" /\ res \in {0, 1}
      /\ up \in SUBSET Interfaces /\ mtu \in [Interfaces -> MTUs]
      /\ bonded \in SUBSET Slaves
  BY DEF Init, Steps, AttachSteps, Interfaces
<1>8. failed \in BOOLEAN /\ hwaddr_set \in BOOLEAN /\ undone \in BOOLEAN
  BY Zenon DEF Init
<1> QED
  BY <1>1, <1>4, <1>5, <1>6, <1>7, <1>8 DEF TypeOK, AttachSteps

(* The parts of the type invariant that a step of one slave's sequence of  *)
(* ioctls can change. *)
LEMMA KernelStep ==
  ASSUME TypeOK,
         UNCHANGED <<command, todo, master, slave, res>>,
         pc' \in Steps \ {"start"}, todo # <<>>, master.mtu \in MTUs,
         pc' \in AttachSteps => mode = "enslave" /\ slave.mtu \in MTUs,
         failed' \in BOOLEAN, hwaddr_set' \in BOOLEAN, undone' \in BOOLEAN,
         up' \in SUBSET Interfaces, mac' \in [Interfaces -> Addresses],
         mtu' \in [Interfaces -> MTUs], bonded' \in SUBSET Slaves
  PROVE  TypeOK'
BY DEF TypeOK, command

LEMMA CurIsSlave == ASSUME TypeOK, todo # <<>> PROVE Cur \in Slaves /\ Cur \in Interfaces
BY HeadTailProperties DEF TypeOK, Cur, Interfaces

LEMMA Booleans ==
  ASSUME TypeOK
  PROVE  /\ failed \in BOOLEAN /\ undone \in BOOLEAN /\ hwaddr_set \in BOOLEAN
         /\ TRUE \in BOOLEAN /\ FALSE \in BOOLEAN
BY Zenon DEF TypeOK

LEMMA TypeStep == TypeOK /\ [Next]_vars => TypeOK'
<1> SUFFICES ASSUME TypeOK, [Next]_vars PROVE TypeOK'
  OBVIOUS
<1> USE DEF Goto, Fail, Refused
<1>0. CASE UNCHANGED vars
  BY <1>0 DEF TypeOK, vars, command, program, kernel
<1>1. CASE Refuse
  BY <1>1 DEF Refuse, TypeOK, Steps, AttachSteps, command, kernel
<1>2. CASE ReadMaster
  <2>1. master' \in [mac : Addresses, mtu : MTUs \cup {0}]
    BY <1>2 DEF ReadMaster, Settings, TypeOK, Interfaces
  <2>2. hwaddr_set' \in BOOLEAN
    BY <1>2, Zenon DEF ReadMaster
  <2>3. pc' = "next" /\ failed' \in BOOLEAN /\ undone' \in BOOLEAN
    BY <1>2, Booleans DEF ReadMaster
  <2>4. master'.mtu \in MTUs
    BY <1>2 DEF ReadMaster, Settings, TypeOK, Interfaces
  <2> QED
    BY <1>2, <2>1, <2>2, <2>3, <2>4 DEF ReadMaster, TypeOK, Steps, AttachSteps, command, kernel
<1>3. CASE ReadSlave
  <2>1. slave' \in [mac : Addresses, mtu : MTUs \cup {0}]
    BY <1>3, CurIsSlave DEF ReadSlave, Settings, TypeOK
  <2>2. failed' \in BOOLEAN /\ undone' \in BOOLEAN
    BY <1>3, Booleans, Zenon DEF ReadSlave
  <2>3. pc' \in Steps
    BY <1>3 DEF ReadSlave, TypeOK, Steps, AttachSteps
  <2>4. pc' \in AttachSteps => mode = "enslave" /\ slave'.mtu \in MTUs
    BY <1>3, CurIsSlave DEF ReadSlave, Settings, TypeOK, AttachSteps
  <2>5. pc' # "start" /\ master'.mtu \in MTUs
    BY <1>3 DEF ReadSlave, TypeOK
  <2> QED
    BY <1>3, <2>1, <2>2, <2>3, <2>4, <2>5 DEF ReadSlave, TypeOK, command, kernel
<1>4. CASE SkipSlave
  <2>1. todo' \in Seq(Slaves)
    BY <1>4, HeadTailProperties DEF SkipSlave, TypeOK
  <2>2. pc' \in {"exit", "next"}
    BY <1>4 DEF SkipSlave
  <2> QED
    BY <1>4, <2>1, <2>2 DEF SkipSlave, TypeOK, Steps, AttachSteps, command, kernel
<1>5. CASE Return
  <2>1. todo' \in Seq(Slaves)
    BY <1>5, HeadTailProperties DEF Return, TypeOK
  <2>2. pc' \in {"exit", "next"} /\ res' \in {0, 1}
    BY <1>5 DEF Return, TypeOK
  <2> QED
    BY <1>5, <2>1, <2>2 DEF Return, TypeOK, Steps, AttachSteps, command, kernel
<1>6. CASE AllDone
  BY <1>6 DEF AllDone, TypeOK, Steps, AttachSteps, command, program, kernel
<1>7. CASE Exited
  BY <1>7 DEF Exited, TypeOK, vars, command, program, kernel
<1> DEFINE Rest == /\ failed' \in BOOLEAN /\ hwaddr_set' \in BOOLEAN /\ undone' \in BOOLEAN
                   /\ UNCHANGED <<command, todo, master, slave, res>>
           Typed == /\ up' \in SUBSET Interfaces /\ mac' \in [Interfaces -> Addresses]
                    /\ mtu' \in [Interfaces -> MTUs] /\ bonded' \in SUBSET Slaves
<1>8. ASSUME todo # <<>>, Rest, Typed, pc' \in Steps \ {"start"}, master.mtu \in MTUs,
             pc' \in AttachSteps => pc \in AttachSteps
      PROVE  TypeOK'
  <2>1. pc' \in AttachSteps => mode = "enslave" /\ slave.mtu \in MTUs
    BY <1>8 DEF TypeOK
  <2> QED
    BY <1>8, <2>1, KernelStep
<1>9. CASE EnslaveStep
  <2>1. todo # <<>>
    BY <1>9 DEF EnslaveStep, TypeOK, SetDown, SetAddress, SetMtu, SetSlaveMac, SetSlaveUp,
         SetMasterDown, SetMasterMac, SetMasterUp, Enslave, UndoMasterMac, UndoSlaveMac, UndoMtu
  <2>2. Cur \in Slaves /\ Cur \in Interfaces /\ Master \in Interfaces
    BY <2>1, CurIsSlave DEF Interfaces
  <2>3. Rest
    BY <1>9, Booleans, Zenon
      DEF EnslaveStep, SetDown, SetAddress, SetMtu, SetSlaveMac, SetSlaveUp, SetMasterDown,
          SetMasterMac, SetMasterUp, Enslave, UndoMasterMac, UndoSlaveMac, UndoMtu, program
  <2>4. pc \in AttachSteps /\ pc' \in Steps \ {"start"}
    BY <1>9
      DEF EnslaveStep, SetDown, SetAddress, SetMtu, SetSlaveMac, SetSlaveUp, SetMasterDown,
          SetMasterMac, SetMasterUp, Enslave, UndoMasterMac, UndoSlaveMac, UndoMtu, Steps, AttachSteps, Hwaddr
  <2>8. master.mtu \in MTUs /\ slave.mtu \in MTUs
    BY <2>4 DEF TypeOK, AttachSteps
  <2>5. up' \in SUBSET Interfaces /\ bonded' \in SUBSET Slaves
    BY <1>9, <2>2
      DEF EnslaveStep, SetDown, SetAddress, SetMtu, SetSlaveMac, SetSlaveUp, SetMasterDown,
          SetMasterMac, SetMasterUp, Enslave, UndoMasterMac, UndoSlaveMac, UndoMtu, Attach,
          kernel, TypeOK
  <2>6. mac' \in [Interfaces -> Addresses]
    BY <1>9, <2>2
      DEF EnslaveStep, SetDown, SetAddress, SetMtu, SetSlaveMac, SetSlaveUp, SetMasterDown,
          SetMasterMac, SetMasterUp, Enslave, UndoMasterMac, UndoSlaveMac, UndoMtu, Attach,
          kernel, TypeOK
  <2>7. mtu' \in [Interfaces -> MTUs]
    BY <1>9, <2>2, <2>8
      DEF EnslaveStep, SetDown, SetAddress, SetMtu, SetSlaveMac, SetSlaveUp, SetMasterDown,
          SetMasterMac, SetMasterUp, Enslave, UndoMasterMac, UndoSlaveMac, UndoMtu, Attach,
          kernel, TypeOK
  <2> QED
    BY <1>8, <2>1, <2>3, <2>4, <2>5, <2>6, <2>7, <2>8
<1>10. CASE Release \/ ReleaseDown \/ SetDefaultMtu \/ ChangeActive
  <2>1. todo # <<>>
    BY <1>10 DEF TypeOK, Release, ReleaseDown, SetDefaultMtu, ChangeActive
  <2>2. Cur \in Slaves /\ Cur \in Interfaces /\ Cur \in Addresses
    BY <2>1, CurIsSlave DEF Addresses
  <2>3. Rest
    BY <1>10, Booleans, Zenon DEF Release, ReleaseDown, SetDefaultMtu, ChangeActive, program
  <2>4. /\ pc' \in Steps \ {"start"} /\ pc' \notin AttachSteps
        /\ pc \in {"release", "releasedown", "defaultmtu", "change"}
    BY <1>10 DEF Release, ReleaseDown, SetDefaultMtu, ChangeActive, Steps, AttachSteps
  <2>6. master.mtu \in MTUs
    BY <2>4 DEF TypeOK
  <2>5. Typed
    <3>1. up' \in SUBSET Interfaces /\ bonded' \in SUBSET Slaves
      BY <1>10, <2>2 DEF Release, ReleaseDown, SetDefaultMtu, ChangeActive, Detach, kernel, TypeOK
    <3>2. mac' \in [Interfaces -> Addresses]
      BY <1>10, <2>2 DEF Release, ReleaseDown, SetDefaultMtu, ChangeActive, Detach, kernel, TypeOK
    <3>3. mtu' \in [Interfaces -> MTUs]
      BY <1>10, <2>2, MTUsAssumption
        DEF Release, ReleaseDown, SetDefaultMtu, ChangeActive, Detach, kernel, TypeOK
    <3> QED
      BY <3>1, <3>2, <3>3
  <2> QED
    BY <1>8, <2>1, <2>3, <2>4, <2>5, <2>6
<1> QED
  BY <1>0, <1>1, <1>2, <1>3, <1>4, <1>5, <1>6, <1>7, <1>9, <1>10 DEF Next

(* The interfaces and the program's variables keep their types; a slave is *)
(* always at hand while one is worked on (main(), 434-491).                *)
THEOREM TypeCorrect == Spec => []TypeOK
BY TypeInit, TypeStep, PTL DEF Spec

-----------------------------------------------------------------------------
(* The master is up whenever the program takes it that it has its address, *)
(* which it does when it attaches a slave.                                 *)
UpInv ==
  /\ pc = "start" => Master \in up /\ hwaddr_set = FALSE
  /\ abi >= 1 => Master \in up
  /\ hwaddr_set => Master \in up
  /\ pc \in {"slavemac", "slaveup", "enslave"} => hwaddr_set
  /\ pc \in {"masterdown", "mastermac", "masterup"} => ~hwaddr_set
  /\ pc \in {"masterdown", "masterup", "slavemac", "slaveup"} => abi < 1

LEMMA UpInit == Init => UpInv
BY DEF Init, UpInv

LEMMA UpStep == TypeOK /\ UpInv /\ [Next]_vars => UpInv'
<1> SUFFICES ASSUME TypeOK, UpInv, [Next]_vars PROVE UpInv'
  OBVIOUS
<1> USE DEF Goto, Fail, Refused, UpInv
<1>0. CASE UNCHANGED vars
  BY <1>0 DEF vars, command, program, kernel
<1>1. CASE Refuse \/ ReadMaster \/ SkipSlave \/ Return \/ AllDone
  BY <1>1 DEF Refuse, ReadMaster, SkipSlave, Return, AllDone, command, program, kernel
<1>2. CASE ReadSlave
  <2>1. pc' \in {"return", "down", "release", "change"}
    BY <1>2 DEF ReadSlave, TypeOK
  <2>2. UNCHANGED <<abi, up>> /\ (hwaddr_set' <=> hwaddr_set)
    BY <1>2, Zenon DEF ReadSlave, command, kernel
  <2> QED
    BY <2>1, <2>2
<1>3. CASE Exited
  BY <1>3 DEF Exited, vars, command, program, kernel
<1> DEFINE Fields == Cur # Master /\ abi \in Nat
<1>4. ASSUME todo # <<>> PROVE Fields
  BY <1>4, CurIsSlave, NamesAssumption DEF TypeOK
<1>5. CASE EnslaveStep
  <2>1. Fields
    BY <1>5, <1>4
      DEF TypeOK, EnslaveStep, SetDown, SetAddress, SetMtu, SetSlaveMac, SetSlaveUp, SetMasterDown,
          SetMasterMac, SetMasterUp, Enslave, UndoMasterMac, UndoSlaveMac, UndoMtu
  <2>2. CASE SetDown \/ SetAddress \/ SetSlaveMac \/ SetSlaveUp \/ Enslave
    BY <2>1, <2>2 DEF SetDown, SetAddress, SetSlaveMac, SetSlaveUp, Enslave, Attach,
         command, program, kernel
  <2>3. CASE SetMtu
    BY <2>1, <2>3 DEF SetMtu, Hwaddr, command, program, kernel
  <2>4. CASE SetMasterDown \/ SetMasterUp
    BY <2>1, <2>4 DEF SetMasterDown, SetMasterUp, command, program, kernel
  <2>5. CASE SetMasterMac
    <3>1. ~hwaddr_set /\ abi' = abi /\ up' = up
      BY <2>5 DEF SetMasterMac, command, kernel
    <3>2. CASE /\ Goto(IF abi < 1 THEN "masterup" ELSE "enslave")
               /\ mac' = [mac EXCEPT ![Master] = slave.mac]
               /\ hwaddr_set' = ~(abi < 1)
               /\ UNCHANGED <<up, mtu, bonded>>
      <4>1. hwaddr_set' <=> ~(abi < 1)
        BY <3>2, Zenon
      <4>2. pc' = IF abi < 1 THEN "masterup" ELSE "enslave"
        BY <3>2, Zenon
      <4>3. CASE abi < 1
        BY <2>1, <3>1, <4>1, <4>2, <4>3
      <4>4. CASE ~(abi < 1)
        BY <2>1, <3>1, <4>1, <4>2, <4>4
      <4> QED
        BY <4>3, <4>4
    <3>3. CASE Fail("undo_mtu") /\ UNCHANGED hwaddr_set
      <4>1. ~hwaddr_set' /\ pc' = "undo_mtu"
        BY <3>1, <3>3, Zenon
      <4> QED
        BY <3>1, <4>1
    <3> QED
      BY <2>5, <3>2, <3>3, Zenon DEF SetMasterMac
  <2>6. CASE UndoMasterMac \/ UndoSlaveMac \/ UndoMtu
    BY <2>6 DEF UndoMasterMac, UndoSlaveMac, UndoMtu, command, program, kernel
  <2> QED
    BY <1>5, <2>2, <2>3, <2>4, <2>5, <2>6 DEF EnslaveStep
<1>6. CASE Release \/ ReleaseDown \/ SetDefaultMtu \/ ChangeActive
  <2>1. Fields
    BY <1>6, <1>4 DEF TypeOK, Release, ReleaseDown, SetDefaultMtu, ChangeActive
  <2> QED
    BY <1>6, <2>1 DEF Release, ReleaseDown, SetDefaultMtu, ChangeActive, Detach,
         command, program, kernel
<1> QED
  BY <1>0, <1>1, <1>2, <1>3, <1>5, <1>6 DEF Next

(* Whatever failed before, a slave is only attached to a master that is up *)
(* (enslave(), 753-806). *)
THEOREM AttachedToMasterUp == Spec => []MasterUp
<1>1. UpInv => MasterUp
  BY DEF UpInv, MasterUp
<1> QED
  BY <1>1, TypeInit, TypeStep, UpInit, UpStep, PTL DEF Spec

-----------------------------------------------------------------------------
(* While nothing fails, the master's address is only set when it has none, *)
(* hence no slave: what slaves were given stays that of the master.        *)
Undoing == {"undo_master_mac", "undo_slave_mac", "undo_mtu"}
Unfailed == mode = "enslave" /\ res = 0 /\ ~failed
Shared == \A s \in bonded : mac[s] = mac[Master]

AttachInv ==
  /\ pc \in AttachSteps => Cur \notin bonded
  /\ pc \in Undoing => failed
  /\ failed => pc \in Undoing \cup {"return", "defaultmtu"} \/ res = 1
  /\ pc \in {"release", "releasedown", "defaultmtu", "change"} => mode # "enslave"

AddressInv ==
  /\ pc = "start" => /\ Shared /\ (mac[Master] = Zero => bonded = {})
                     /\ ~failed /\ res = 0
  /\ pc # "start" /\ Unfailed /\ (abi >= 1 \/ master.mac # Zero) =>
       /\ Shared
       /\ master.mac # Zero => hwaddr_set /\ mac[Master] = master.mac
       /\ ~hwaddr_set => bonded = {}
       /\ abi < 1 /\ pc \in {"slaveup", "enslave"} => mac[Cur] = master.mac

LEMMA AttachInit == Init => AttachInv
<1> SUFFICES ASSUME Init PROVE AttachInv
  OBVIOUS
<1>1. pc = "start" /\ ~failed
  BY Zenon DEF Init
<1> QED
  BY <1>1 DEF AttachInv, AttachSteps, Undoing

LEMMA AttachStep == TypeOK /\ AttachInv /\ [Next]_vars => AttachInv'
<1> SUFFICES ASSUME TypeOK, AttachInv, [Next]_vars PROVE AttachInv'
  OBVIOUS
<1> USE DEF Goto, Fail, Refused, AttachInv, AttachSteps, Undoing
<1>0. CASE UNCHANGED vars
  BY <1>0 DEF vars, command, program, kernel, Cur
<1>1. CASE Refuse \/ ReadMaster \/ SkipSlave \/ AllDone
  BY <1>1 DEF Refuse, ReadMaster, SkipSlave, AllDone, command, program, kernel, Cur
<1>2. CASE Return
  BY <1>2 DEF Return, TypeOK, kernel, Cur
<1>3. CASE ReadSlave
  <2>1. CASE (mode = "enslave") = (Cur \in bonded)
    <3>1. pc' = "return"
      BY <1>3, <2>1 DEF ReadSlave
    <3> QED
      BY <3>1
  <2>2. CASE ~((mode = "enslave") = (Cur \in bonded))
    <3>1. \/ mode = "enslave" /\ pc' = "down"
          \/ mode # "enslave" /\ pc' \in {"release", "change"}
      BY <1>3, <2>2 DEF ReadSlave, TypeOK
    <3>4. mode' = mode
      BY <1>3 DEF ReadSlave, command
    <3>2. ~failed' /\ Cur' = Cur /\ bonded' = bonded
      BY <1>3, <2>2 DEF ReadSlave, kernel, Cur
    <3>3. mode = "enslave" => Cur \notin bonded
      BY <2>2
    <3> QED
      BY <3>1, <3>2, <3>3, <3>4
  <2> QED
    BY <2>1, <2>2
<1>4. CASE Exited
  BY <1>4 DEF Exited, vars, command, program, kernel, Cur
<1>5. CASE SetDown \/ SetAddress \/ SetSlaveMac \/ SetSlaveUp \/ SetMasterDown
  BY <1>5 DEF SetDown, SetAddress, SetSlaveMac, SetSlaveUp, SetMasterDown, program, kernel, Cur
<1>6. CASE SetMtu
  BY <1>6 DEF SetMtu, Hwaddr, program, kernel, Cur
<1>7. CASE SetMasterMac \/ SetMasterUp
  BY <1>7 DEF SetMasterMac, SetMasterUp, program, kernel, Cur
<1>8. CASE Enslave
  BY <1>8 DEF Enslave, Attach, program, kernel, Cur
<1>9. CASE UndoMasterMac \/ UndoSlaveMac \/ UndoMtu
  BY <1>9 DEF UndoMasterMac, UndoSlaveMac, UndoMtu, program, kernel, Cur
<1>10. CASE Release \/ ReleaseDown \/ SetDefaultMtu \/ ChangeActive
  BY <1>10 DEF Release, ReleaseDown, SetDefaultMtu, ChangeActive, Detach, command, program, kernel, Cur
<1> QED
  BY <1>0, <1>1, <1>2, <1>3, <1>4, <1>5, <1>6, <1>7, <1>8, <1>9, <1>10 DEF Next, EnslaveStep

LEMMA AddressInit == Init => AddressInv
<1> SUFFICES ASSUME Init PROVE AddressInv
  OBVIOUS
<1>1. PICK address \in (IF bonded = {} THEN {Zero, Master} ELSE bonded) :
        mac = [i \in Interfaces |-> IF i \in bonded \cup {Master} THEN address ELSE i]
  BY DEF Init
<1>2. Shared
  BY <1>1 DEF Shared, Init, Interfaces
<1>3. mac[Master] = Zero => bonded = {}
  BY <1>1, NamesAssumption DEF Init, Interfaces
<1>4. pc = "start" /\ res = 0
  BY DEF Init
<1>5. ~failed
  BY Zenon DEF Init
<1> QED
  BY <1>2, <1>3, <1>4, <1>5 DEF AddressInv

(* What a step that leaves the addresses and the bond alone has to keep.   *)
LEMMA AddressKept ==
  ASSUME AddressInv, abi \in Nat, pc # "start", UNCHANGED <<mode, abi, master, mac, bonded>>,
         Unfailed' => Unfailed, hwaddr_set' <=> hwaddr_set, pc' # "start",
         abi < 1 /\ pc' \in {"slaveup", "enslave"} =>
           Cur' = Cur /\ (pc \in {"slaveup", "enslave"} \/ (master.mac # Zero => ~hwaddr_set))
  PROVE  AddressInv'
<1>1. SUFFICES ASSUME Unfailed', abi >= 1 \/ master.mac # Zero
      PROVE  /\ Shared
             /\ master.mac # Zero => hwaddr_set /\ mac[Master] = master.mac
             /\ ~hwaddr_set => bonded = {}
             /\ abi < 1 /\ pc' \in {"slaveup", "enslave"} => mac[Cur'] = master.mac
  BY DEF AddressInv, Shared
<1> QED
  BY <1>1 DEF AddressInv

LEMMA AddressStep ==
  TypeOK /\ UpInv /\ AttachInv /\ AddressInv /\ [Next]_vars => AddressInv'
<1> SUFFICES ASSUME TypeOK, UpInv, AttachInv, AddressInv, [Next]_vars PROVE AddressInv'
  OBVIOUS
<1> USE DEF Goto, Fail, Refused
<1>0. CASE UNCHANGED vars
  BY <1>0 DEF AddressInv, Unfailed, Shared, vars, command, program, kernel, Cur
<1>1. CASE Refuse
  BY <1>1 DEF Refuse, AddressInv, Unfailed
<1>2. CASE ReadMaster
  <2>1. /\ master'.mac = mac[Master] /\ UNCHANGED <<mode, abi, mac, bonded, res>>
        /\ pc = "start" /\ pc' = "next"
    BY <1>2 DEF ReadMaster, Settings, command, kernel
  <2>2. hwaddr_set' <=> (mode = "enslave" /\ mac[Master] # Zero)
    BY <1>2, Zenon DEF ReadMaster
  <2> QED
    BY <2>1, <2>2 DEF AddressInv, Unfailed, Shared
<1>3. CASE ReadSlave
  <2>1. pc' \notin {"start", "slaveup", "enslave"} /\ pc = "next"
    BY <1>3 DEF ReadSlave, TypeOK
  <2>2. UNCHANGED <<mode, abi, master, mac, bonded, res>>
    BY <1>3 DEF ReadSlave, command, kernel
  <2>3. hwaddr_set' <=> hwaddr_set
    BY <1>3, Zenon DEF ReadSlave
  <2>4. Unfailed' => Unfailed
    BY <2>1, <2>2 DEF Unfailed, AttachInv, Undoing
  <2> QED
    BY <2>1, <2>2, <2>3, <2>4, AddressKept DEF TypeOK
<1>4. CASE SkipSlave
  BY <1>4 DEF SkipSlave, AddressInv, Unfailed
<1>5. CASE Return
  <2>1. pc' \notin {"start", "slaveup", "enslave"} /\ pc = "return"
    BY <1>5 DEF Return
  <2>2. UNCHANGED <<mode, abi, master, mac, bonded>>
    BY <1>5 DEF Return, command, kernel
  <2>3. hwaddr_set' <=> hwaddr_set
    BY <1>5, Zenon DEF Return
  <2>4. failed' <=> failed
    BY <1>5, Zenon DEF Return
  <2>5. Unfailed' => Unfailed
    BY <1>5, <2>2, <2>4 DEF Return, Unfailed
  <2> QED
    BY <2>1, <2>2, <2>3, <2>5, AddressKept DEF TypeOK
<1>6. CASE AllDone \/ Exited
  <2>1. pc' \notin {"start", "slaveup", "enslave"} /\ pc \in {"next", "exit"}
    BY <1>6 DEF AllDone, Exited, vars
  <2>2. UNCHANGED <<mode, abi, master, mac, bonded, res>>
    BY <1>6 DEF AllDone, Exited, vars, command, program, kernel
  <2>3. (hwaddr_set' <=> hwaddr_set) /\ (failed' <=> failed)
    BY <1>6 DEF AllDone, Exited, vars, program
  <2> QED
    BY <2>1, <2>2, <2>3, AddressKept DEF TypeOK, Unfailed
<1> DEFINE Failing == /\ failed' /\ UNCHANGED <<mode, abi>> /\ pc' # "start"
<1>7. ASSUME Failing PROVE AddressInv'
  BY <1>7 DEF AddressInv, Unfailed
<1>8. CASE SetDown \/ SetAddress \/ SetMtu \/ SetMasterDown
  <2>1. pc' \notin {"start", "slaveup"} /\ pc # "start" /\ UNCHANGED <<mode, abi>>
    BY <1>8 DEF SetDown, SetAddress, SetMtu, SetMasterDown, Hwaddr, command
  <2>2. UNCHANGED <<master, mac, bonded, res>>
    BY <1>8 DEF SetDown, SetAddress, SetMtu, SetMasterDown, program, kernel
  <2>3. hwaddr_set' <=> hwaddr_set
    BY <1>8 DEF SetDown, SetAddress, SetMtu, SetMasterDown, program
  <2>4. (failed' <=> failed) \/ failed'
    BY <1>8, Zenon DEF SetDown, SetAddress, SetMtu, SetMasterDown
  <2>5. pc' = "enslave" => ~(abi < 1)
    BY <1>8 DEF SetDown, SetAddress, SetMtu, SetMasterDown, Hwaddr
  <2>6. Unfailed' => Unfailed
    BY <2>1, <2>2, <2>4 DEF Unfailed
  <2> QED
    BY <2>1, <2>2, <2>3, <2>5, <2>6, AddressKept DEF TypeOK
<1> DEFINE Typed == Cur \in Slaves /\ Cur # Master /\ Cur \in Interfaces /\ Master \in Interfaces
<1>9. ASSUME todo # <<>> PROVE Typed
  BY <1>9, CurIsSlave, NamesAssumption DEF Interfaces
<1>10. CASE SetSlaveMac
  <2>1. CASE Fail("undo_mtu")
    BY <1>7, <1>10, <2>1 DEF SetSlaveMac, command
  <2>2. CASE Goto("slaveup")
    <3>1. /\ Typed /\ Cur \notin bonded /\ hwaddr_set
      BY <1>9, <1>10 DEF SetSlaveMac, TypeOK, AttachInv, AttachSteps, UpInv
    <3>2. /\ mac' = [mac EXCEPT ![Cur] = master.mac] /\ Cur' = Cur
          /\ UNCHANGED <<mode, abi, master, bonded, res>> /\ pc = "slavemac" /\ pc' = "slaveup"
      BY <1>10, <2>2 DEF SetSlaveMac, command, program, Cur
    <3>3. hwaddr_set' /\ (failed' <=> failed)
      BY <1>10, <2>2, <3>1, Zenon DEF SetSlaveMac, program
    <3>4. mac'[Cur] = master.mac /\ \A i \in Interfaces : i # Cur => mac'[i] = mac[i]
      BY <3>1, <3>2 DEF TypeOK
    <3>5. Shared => Shared'
      BY <3>1, <3>2, <3>4 DEF Shared, TypeOK, Interfaces
    <3> QED
      BY <3>1, <3>2, <3>3, <3>4, <3>5 DEF AddressInv, Unfailed
  <2> QED
    BY <1>10, <2>1, <2>2 DEF SetSlaveMac
<1>11. CASE SetSlaveUp
  <2>1. CASE Fail("undo_slave_mac")
    BY <1>7, <1>11, <2>1 DEF SetSlaveUp, command
  <2>2. CASE Goto("enslave")
    <3>1. /\ UNCHANGED <<mode, abi, master, mac, bonded, res>> /\ Cur' = Cur
          /\ pc = "slaveup" /\ pc' = "enslave"
      BY <1>11, <2>2 DEF SetSlaveUp, command, program, kernel, Cur
    <3>2. (hwaddr_set' <=> hwaddr_set) /\ (failed' <=> failed)
      BY <1>11, <2>2 DEF SetSlaveUp, program
    <3> QED
      BY <3>1, <3>2, AddressKept DEF TypeOK, Unfailed
  <2> QED
    BY <1>11, <2>1, <2>2 DEF SetSlaveUp
<1>12. CASE SetMasterMac
  <2>1. CASE Fail("undo_mtu")
    BY <1>7, <1>12, <2>1 DEF SetMasterMac, command
  <2>2. CASE Goto(IF abi < 1 THEN "masterup" ELSE "enslave")
    <3>1. /\ UNCHANGED <<mode, abi, master, bonded, res>>
          /\ pc = "mastermac" /\ pc' = IF abi < 1 THEN "masterup" ELSE "enslave"
      BY <1>12, <2>2 DEF SetMasterMac, command
    <3>2. ~hwaddr_set
      BY <1>12 DEF SetMasterMac, UpInv
    <3>3. failed' <=> failed
      BY <2>2, Zenon
    <3>4. Unfailed' => Unfailed
      BY <3>1, <3>3 DEF Unfailed
    <3>5. Unfailed' /\ (abi >= 1 \/ master.mac # Zero) => bonded = {} /\ abi >= 1 /\ master.mac = Zero
      BY <3>1, <3>2, <3>4 DEF AddressInv, TypeOK
    <3> QED
      BY <3>1, <3>5 DEF AddressInv, Shared, TypeOK
  <2> QED
    BY <1>12, <2>1, <2>2 DEF SetMasterMac
<1>13. CASE SetMasterUp
  <2>1. CASE Fail("undo_master_mac")
    BY <1>7, <1>13, <2>1 DEF SetMasterUp, command
  <2>2. CASE Goto("enslave")
    <3>1. /\ UNCHANGED <<mode, abi, master, bonded, res>> /\ pc = "masterup" /\ pc' = "enslave"
      BY <1>13, <2>2 DEF SetMasterUp, command
    <3>2. ~hwaddr_set /\ abi < 1 /\ (failed' <=> failed)
      BY <1>13, <2>2, <3>1 DEF SetMasterUp, UpInv
    <3>3. ~(Unfailed' /\ (abi >= 1 \/ master.mac # Zero))
      BY <3>1, <3>2 DEF AddressInv, Unfailed, TypeOK
    <3> QED
      BY <3>1, <3>3 DEF AddressInv
  <2> QED
    BY <1>13, <2>1, <2>2 DEF SetMasterUp
<1>14. CASE Enslave
  <2>1. CASE Fail("undo_master_mac")
    BY <1>7, <1>14, <2>1 DEF Enslave, command
  <2>2. CASE Goto("return") /\ Attach
    <3>1. Typed /\ hwaddr_set
      BY <1>9, <1>14 DEF Enslave, TypeOK, UpInv
    <3>2. /\ UNCHANGED <<mode, abi, master, res>> /\ bonded' = bonded \cup {Cur}
          /\ pc = "enslave" /\ pc' = "return"
      BY <1>14, <2>2 DEF Enslave, Attach, command, program
    <3>3. hwaddr_set' /\ (failed' <=> failed)
      BY <1>14, <2>2, <3>1, Zenon DEF Enslave, program
    <3>4. CASE abi >= 1
      <4>1. mac'[Cur] = mac[Master] /\ mac'[Master] = mac[Master]
            /\ \A i \in Interfaces : i # Cur => mac'[i] = mac[i]
        BY <2>2, <3>1, <3>4 DEF Attach, TypeOK
      <4>2. Shared => Shared'
        BY <3>1, <3>2, <4>1 DEF Shared, TypeOK, Interfaces
      <4> QED
        BY <3>2, <3>3, <3>4, <4>1, <4>2 DEF AddressInv, Unfailed
    <3>5. CASE ~(abi >= 1)
      <4>1. mac' = mac /\ abi < 1
        BY <2>2, <3>5 DEF Attach, TypeOK
      <4>2. SUFFICES ASSUME Unfailed', master.mac # Zero
            PROVE  Shared' /\ hwaddr_set' /\ mac'[Master] = master.mac
        BY <3>2, <3>3, <3>5 DEF AddressInv
      <4>3. Unfailed
        BY <3>2, <3>3, <4>2 DEF Unfailed
      <4>4. Shared /\ mac[Master] = master.mac /\ mac[Cur] = master.mac
        BY <3>2, <4>1, <4>2, <4>3 DEF AddressInv
      <4> QED
        BY <3>2, <3>3, <4>1, <4>4 DEF Shared
    <3> QED
      BY <3>4, <3>5
  <2> QED
    BY <1>14, <2>1, <2>2 DEF Enslave
<1>15. CASE UndoMasterMac \/ UndoSlaveMac \/ UndoMtu
  <2>1. failed /\ UNCHANGED <<mode, abi>> /\ pc' # "start"
    BY <1>15 DEF UndoMasterMac, UndoSlaveMac, UndoMtu, command, AttachInv, Undoing
  <2>2. failed' = failed
    BY <1>15 DEF UndoMasterMac, UndoSlaveMac, UndoMtu, kernel
  <2> QED
    BY <1>7, <2>1, <2>2
<1>16. CASE Release \/ ReleaseDown \/ SetDefaultMtu \/ ChangeActive
  <2>1. mode # "enslave" /\ mode' = mode /\ pc' # "start"
    BY <1>16 DEF Release, ReleaseDown, SetDefaultMtu, ChangeActive, command, AttachInv
  <2> QED
    BY <2>1 DEF AddressInv, Unfailed
<1> QED
  BY <1>0, <1>1, <1>2, <1>3, <1>4, <1>5, <1>6, <1>8, <1>10, <1>11, <1>12, <1>13, <1>14,
     <1>15, <1>16 DEF Next, EnslaveStep

(* As long as nothing fails, every slave attached has the address of the   *)
(* master (enslave(), 723-801, and the help message). *)
THEOREM SharesAddress == Spec => []OneAddress
<1>1. TypeOK /\ AddressInv => OneAddress
  BY DEF AddressInv, OneAddress, Unfailed, Shared
<1> QED
  BY <1>1, TypeInit, TypeStep, UpInit, UpStep, AttachInit, AttachStep, AddressInit, AddressStep,
     PTL DEF Spec

-----------------------------------------------------------------------------
(* The slave that is worked on has the settings that were read of it until *)
(* its MTU is set, and its address for good with a newer driver, which     *)
(* alone is told what the address is.                                      *)
RestoreInv ==
  mode = "enslave" =>
    /\ pc \in {"down", "address", "mtu"} => mtu[Cur] = slave.mtu
    /\ pc \in AttachSteps /\ abi >= 1 => mac[Cur] = slave.mac
    /\ pc = "return" /\ failed /\ undone /\ Cur \notin bonded =>
         mtu[Cur] = slave.mtu /\ (abi >= 1 => mac[Cur] = slave.mac)


LEMMA RestoreInit == Init => RestoreInv
<1> SUFFICES ASSUME Init PROVE RestoreInv
  OBVIOUS
<1>1. pc = "start"
  BY DEF Init
<1> QED
  BY <1>1 DEF RestoreInv, AttachSteps

LEMMA RestoreStep ==
  TypeOK /\ UpInv /\ AttachInv /\ RestoreInv /\ [Next]_vars => RestoreInv'
<1> SUFFICES ASSUME TypeOK, UpInv, AttachInv, RestoreInv, [Next]_vars PROVE RestoreInv'
  OBVIOUS
<1> USE DEF Goto, Fail, Refused
<1>0. CASE UNCHANGED vars
  BY <1>0 DEF RestoreInv, vars, command, program, kernel, Cur
<1>1. ASSUME pc' \in {"next", "exit", "release", "releasedown", "defaultmtu", "change"}
      PROVE  RestoreInv'
  BY <1>1 DEF RestoreInv, AttachSteps
<1>2. CASE Refuse \/ ReadMaster \/ SkipSlave \/ Return \/ AllDone
  BY <1>1, <1>2 DEF Refuse, ReadMaster, SkipSlave, Return, AllDone
<1>3. CASE Exited
  BY <1>1, <1>3 DEF Exited, vars
<1>4. CASE ReadSlave
  <2>1. /\ Cur' = Cur /\ mode' = mode /\ abi' = abi /\ mac' = mac /\ mtu' = mtu
        /\ bonded' = bonded
    BY <1>4 DEF ReadSlave, command, kernel, Cur
  <2>2. mode = "enslave" => slave' = Settings(Cur)
    BY <1>4 DEF ReadSlave
  <2> QED
    BY <2>1, <2>2 DEF RestoreInv, Settings
(* In the sequence of ioctls of a slave only the interfaces, failed and     *)
(* undone change.                                                          *)
<1>5. ASSUME EnslaveStep
      PROVE  /\ Cur' = Cur /\ Cur \in Interfaces /\ Cur # Master /\ mode' = mode /\ abi' = abi
             /\ slave' = slave /\ abi \in Nat /\ pc \in AttachSteps
  <2>1. pc \in AttachSteps
    BY <1>5
      DEF EnslaveStep, SetDown, SetAddress, SetMtu, SetSlaveMac, SetSlaveUp, SetMasterDown,
          SetMasterMac, SetMasterUp, Enslave, UndoMasterMac, UndoSlaveMac, UndoMtu, AttachSteps
  <2>2. todo # <<>>
    BY <2>1 DEF TypeOK, AttachSteps
  <2>3. Cur \in Interfaces /\ Cur # Master
    BY <2>2, CurIsSlave, NamesAssumption
  <2>4. Cur' = Cur /\ mode' = mode /\ abi' = abi /\ slave' = slave
    BY <1>5
      DEF EnslaveStep, SetDown, SetAddress, SetMtu, SetSlaveMac, SetSlaveUp, SetMasterDown,
          SetMasterMac, SetMasterUp, Enslave, UndoMasterMac, UndoSlaveMac, UndoMtu,
          command, program, Cur
  <2> QED
    BY <2>1, <2>3, <2>4 DEF TypeOK
<1> DEFINE Kept == mode = "enslave" =>
                     /\ pc \in {"down", "address", "mtu"} => mtu[Cur] = slave.mtu
                     /\ abi >= 1 => mac[Cur] = slave.mac
<1>6. ASSUME EnslaveStep PROVE Kept
  BY <1>5, <1>6 DEF RestoreInv
<1>7. CASE SetDown \/ SetAddress
  <2>1. EnslaveStep
    BY <1>7 DEF EnslaveStep
  <2> QED
    BY <1>5, <1>6, <1>7, <2>1 DEF SetDown, SetAddress, kernel, RestoreInv, AttachSteps
<1>8. CASE SetMtu
  <2>1. EnslaveStep
    BY <1>8 DEF EnslaveStep
  <2> QED
    BY <1>5, <1>6, <1>8, <2>1 DEF SetMtu, Hwaddr, kernel, RestoreInv, AttachSteps
<1>9. CASE SetSlaveMac \/ SetSlaveUp \/ SetMasterDown \/ SetMasterUp
  <2>1. EnslaveStep
    BY <1>9 DEF EnslaveStep
  <2> QED
    BY <1>5, <1>6, <1>9, <2>1
      DEF SetSlaveMac, SetSlaveUp, SetMasterDown, SetMasterUp, kernel, RestoreInv, AttachSteps, UpInv
<1>10. CASE SetMasterMac
  <2>1. EnslaveStep
    BY <1>10 DEF EnslaveStep
  <2>2. mac'[Cur] = mac[Cur] /\ pc' \in {"masterup", "enslave", "undo_mtu"}
    BY <1>5, <1>10, <2>1 DEF SetMasterMac, kernel, TypeOK
  <2> QED
    BY <1>5, <1>6, <2>1, <2>2 DEF RestoreInv, AttachSteps
<1>11. CASE Enslave
  <2>1. EnslaveStep
    BY <1>11 DEF EnslaveStep
  <2>2. CASE Goto("return") /\ Attach
    <3>1. Cur' \in bonded' /\ pc' = "return"
      BY <1>5, <2>1, <2>2 DEF Attach
    <3> QED
      BY <3>1 DEF RestoreInv, AttachSteps
  <2>3. CASE Fail("undo_master_mac")
    BY <1>5, <1>6, <2>1, <2>3 DEF kernel, RestoreInv, AttachSteps
  <2> QED
    BY <1>11, <2>2, <2>3 DEF Enslave
<1>12. CASE UndoMasterMac \/ UndoSlaveMac
  <2>1. EnslaveStep
    BY <1>12 DEF EnslaveStep
  <2>2. pc' = "undo_mtu" /\ (mac'[Cur] = mac[Cur] \/ mac'[Cur] = slave.mac)
    BY <1>5, <1>12, <2>1 DEF UndoMasterMac, UndoSlaveMac, kernel, TypeOK
  <2> QED
    BY <1>5, <1>6, <2>1, <2>2 DEF RestoreInv, AttachSteps
<1>13. CASE UndoMtu
  <2>1. EnslaveStep
    BY <1>13 DEF EnslaveStep
  <2>2. pc' = "return" /\ mac' = mac /\ (undone' => mtu'[Cur] = slave.mtu)
    BY <1>5, <1>13, <2>1 DEF UndoMtu, kernel, TypeOK
  <2> QED
    BY <1>5, <1>6, <2>1, <2>2 DEF RestoreInv, AttachSteps
<1>14. CASE Release \/ ReleaseDown \/ SetDefaultMtu \/ ChangeActive
  <2>1. mode # "enslave" /\ mode' = mode
    BY <1>14 DEF Release, ReleaseDown, SetDefaultMtu, ChangeActive, AttachInv, command
  <2> QED
    BY <2>1 DEF RestoreInv
<1> QED
  BY <1>0, <1>2, <1>3, <1>4, <1>7, <1>8, <1>9, <1>10, <1>11, <1>12, <1>13, <1>14
    DEF Next, EnslaveStep

(* Whatever step failed, a slave that could not be attached has its own    *)
(* MTU and, with a newer driver, its own address again, unless the rollback *)
(* failed as well (undo_master_mac and below, enslave()).                  *)
THEOREM RollbackRestores == Spec => []Restored
<1>1. RestoreInv => Restored
  BY DEF RestoreInv, Restored
<1> QED
  BY <1>1, TypeInit, TypeStep, UpInit, UpStep, AttachInit, AttachStep, RestoreInit, RestoreStep,
     PTL DEF Spec

-----------------------------------------------------------------------------
(* With a newer driver no slave ever has the address of a bond without one, *)
(* because it is only attached once the bond has one.                       *)
KnownInv ==
  abi >= 1 =>
    /\ hwaddr_set => mac[Master] # Zero
    /\ \A s \in Slaves : mac[s] # Zero
    /\ pc \in AttachSteps => slave.mac # Zero


LEMMA KnownInit == Init => KnownInv
<1> SUFFICES ASSUME Init PROVE KnownInv
  OBVIOUS
<1>1. PICK address \in (IF bonded = {} THEN {Zero, Master} ELSE bonded) :
        mac = [i \in Interfaces |-> IF i \in bonded \cup {Master} THEN address ELSE i]
  BY DEF Init
<1>2. \A s \in Slaves : mac[s] # Zero
  BY <1>1, NamesAssumption DEF Init, Interfaces
<1>3. ~hwaddr_set
  BY Zenon DEF Init
<1>4. pc = "start"
  BY DEF Init
<1> QED
  BY <1>2, <1>3, <1>4 DEF KnownInv, AttachSteps

LEMMA KnownStep == TypeOK /\ UpInv /\ AttachInv /\ KnownInv /\ [Next]_vars => KnownInv'
<1> SUFFICES ASSUME TypeOK, UpInv, AttachInv, KnownInv, [Next]_vars PROVE KnownInv'
  OBVIOUS
<1> USE DEF Goto, Fail, Refused
<1>0. CASE UNCHANGED vars
  BY <1>0 DEF KnownInv, vars, command, program, kernel
<1>1. CASE Refuse \/ SkipSlave \/ Return \/ AllDone \/ Exited
  <2>1. UNCHANGED <<abi, mac>> /\ pc' \in {"next", "exit"} /\ (hwaddr_set' <=> hwaddr_set)
    BY <1>1 DEF Refuse, SkipSlave, Return, AllDone, Exited, vars, command, program, kernel
  <2> QED
    BY <2>1 DEF KnownInv, AttachSteps
<1>2. CASE ReadMaster
  <2>1. UNCHANGED <<abi, mac>> /\ pc' = "next"
    BY <1>2 DEF ReadMaster, command, kernel
  <2>2. hwaddr_set' => mac[Master] # Zero
    BY <1>2, Zenon DEF ReadMaster
  <2> QED
    BY <2>1, <2>2 DEF KnownInv, AttachSteps
<1>3. CASE ReadSlave
  <2>1. UNCHANGED <<abi, mac>> /\ Cur \in Slaves
    BY <1>3, CurIsSlave DEF ReadSlave, command, kernel
  <2>2. hwaddr_set' <=> hwaddr_set
    BY <1>3, Zenon DEF ReadSlave
  <2>3. pc' \in AttachSteps => slave'.mac = mac[Cur]
    BY <1>3 DEF ReadSlave, AttachSteps, Settings, TypeOK
  <2> QED
    BY <2>1, <2>2, <2>3 DEF KnownInv
<1> DEFINE Driving == EnslaveStep \/ Release \/ ReleaseDown \/ SetDefaultMtu \/ ChangeActive
<1>4. ASSUME Driving
      PROVE  /\ Cur \in Slaves /\ Cur \in Interfaces /\ Cur # Master /\ Cur # Zero
             /\ Master \in Interfaces
             /\ abi' = abi /\ slave' = slave /\ (pc' \in AttachSteps => pc \in AttachSteps)
  <2>1. /\ abi' = abi /\ slave' = slave /\ (pc' \in AttachSteps => pc \in AttachSteps)
        /\ pc \notin {"start", "next", "exit"}
    BY <1>4
      DEF EnslaveStep, SetDown, SetAddress, SetMtu, SetSlaveMac, SetSlaveUp, SetMasterDown,
          SetMasterMac, SetMasterUp, Enslave, UndoMasterMac, UndoSlaveMac, UndoMtu,
          Release, ReleaseDown, SetDefaultMtu, ChangeActive, command, program, AttachSteps
  <2>2. todo # <<>>
    BY <2>1 DEF TypeOK
  <2> QED
    BY <2>1, <2>2, CurIsSlave, NamesAssumption DEF Interfaces
<1>5. SUFFICES ASSUME Driving, abi >= 1
      PROVE  /\ hwaddr_set' => mac'[Master] # Zero
             /\ \A s \in Slaves : mac'[s] # Zero
  BY <1>0, <1>1, <1>2, <1>3, <1>4 DEF Next, KnownInv
<1>6. /\ hwaddr_set => mac[Master] # Zero
      /\ \A s \in Slaves : mac[s] # Zero
      /\ pc \in AttachSteps => slave.mac # Zero
  BY <1>5 DEF KnownInv
<1>7. mac \in [Interfaces -> Addresses] /\ Slaves \subseteq Interfaces /\ Master \notin Slaves
      /\ abi \in Nat
  BY NamesAssumption DEF TypeOK, Interfaces
<1>8. CASE \/ SetDown \/ SetAddress \/ SetMtu \/ UndoMtu
           \/ ReleaseDown \/ SetDefaultMtu \/ ChangeActive
  <2>1. mac' = mac /\ (hwaddr_set' <=> hwaddr_set)
    BY <1>8 DEF SetDown, SetAddress, SetMtu, UndoMtu, ReleaseDown, SetDefaultMtu, ChangeActive,
         program, kernel
  <2> QED
    BY <1>6, <2>1
<1>9. CASE SetSlaveMac \/ SetSlaveUp \/ SetMasterDown \/ SetMasterUp
  BY <1>5, <1>7, <1>9 DEF SetSlaveMac, SetSlaveUp, SetMasterDown, SetMasterUp, UpInv
<1>10. CASE SetMasterMac
  <2>1. pc \in AttachSteps
    BY <1>10 DEF SetMasterMac, AttachSteps
  <2>2. \/ mac' = [mac EXCEPT ![Master] = slave.mac]
        \/ mac' = mac /\ (hwaddr_set' <=> hwaddr_set)
    BY <1>10, Zenon DEF SetMasterMac, kernel
  <2> QED
    BY <1>4, <1>5, <1>6, <1>7, <2>1, <2>2
<1>11. CASE Enslave
  <2>1. hwaddr_set /\ (hwaddr_set' <=> hwaddr_set)
    BY <1>11 DEF Enslave, UpInv, program
  <2>2. mac' = mac \/ mac' = [mac EXCEPT ![Cur] = mac[Master]]
    BY <1>11 DEF Enslave, Attach, kernel
  <2> QED
    BY <1>4, <1>5, <1>6, <1>7, <2>1, <2>2
<1>12. CASE UndoMasterMac
  <2>1. ~hwaddr_set'
    BY <1>12, Zenon DEF UndoMasterMac
  <2>2. mac' = mac \/ mac' = [mac EXCEPT ![Master] = master.mac]
    BY <1>12 DEF UndoMasterMac, kernel
  <2> QED
    BY <1>6, <1>7, <2>1, <2>2
<1>13. CASE UndoSlaveMac
  <2>1. (hwaddr_set' <=> hwaddr_set) /\ pc \in AttachSteps
    BY <1>13 DEF UndoSlaveMac, program, AttachSteps
  <2>2. mac' = mac \/ mac' = [mac EXCEPT ![Cur] = slave.mac]
    BY <1>13 DEF UndoSlaveMac, kernel
  <2> QED
    BY <1>4, <1>5, <1>6, <1>7, <2>1, <2>2
<1>14. CASE Release
  <2>1. hwaddr_set' <=> hwaddr_set
    BY <1>14 DEF Release, program
  <2>2. mac' = mac \/ mac' = [mac EXCEPT ![Cur] = Cur]
    BY <1>14 DEF Release, Detach, kernel
  <2> QED
    BY <1>4, <1>5, <1>6, <1>7, <2>1, <2>2
<1> QED
  BY <1>5, <1>8, <1>9, <1>10, <1>11, <1>12, <1>13, <1>14 DEF EnslaveStep

(* Whenever the program takes it that the master has an address, it has     *)
(* one: after an attempt that failed, the next slave gives it its own       *)
(* (hwaddr_set in enslave()).                                              *)
THEOREM AddressIsKnown == Spec => []AddressKnown
<1>1. KnownInv => AddressKnown
  BY DEF KnownInv, AddressKnown
<1> QED
  BY <1>1, TypeInit, TypeStep, UpInit, UpStep, AttachInit, AttachStep, KnownInit, KnownStep,
     PTL DEF Spec

-----------------------------------------------------------------------------
(* The slaves that were gone through are those before the ones to come; as  *)
(* long as the status is zero each of them is as the command wants it.      *)
Treated(s) == (mode = "enslave" => s \in bonded) /\ (mode = "detach" => s \notin bonded)
Passed == Len(argv) - Len(todo)

StatusInv ==
  /\ Len(todo) <= Len(argv)
  /\ \A k \in 1 .. Len(todo) : todo[k] = argv[Passed + k]
  /\ res = 0 => \A i \in 1 .. Passed : Treated(argv[i])
  /\ pc = "return" /\ ~failed => Treated(Cur)
  /\ pc \in {"releasedown", "defaultmtu"} => Cur \notin bonded
  /\ pc \in {"release", "releasedown", "defaultmtu"} => mode = "detach"
  /\ pc = "change" => mode = "change"
  /\ pc = "exit" /\ res = 0 => mode = "change" \/ todo = <<>>

(* What is left of a command line after the first name.                    *)
LEMMA TailSuffix ==
  ASSUME TypeOK, StatusInv, todo # <<>>
  PROVE  /\ Tail(todo) \in Seq(Slaves) /\ Len(Tail(todo)) = Len(todo) - 1
         /\ Len(todo) \in Nat \ {0} /\ Len(argv) \in Nat /\ Cur = argv[Passed + 1]
         /\ Passed \in Nat
         /\ \A k \in 1 .. Len(Tail(todo)) : Tail(todo)[k] = argv[Passed + 1 + k]
<1>1. /\ Tail(todo) \in Seq(Slaves) /\ Len(Tail(todo)) = Len(todo) - 1 /\ Cur = todo[1]
      /\ \A k \in 1 .. Len(Tail(todo)) : Tail(todo)[k] = todo[k + 1]
  BY HeadTailProperties DEF TypeOK, Cur
<1>2. Len(todo) \in Nat \ {0} /\ Len(argv) \in Nat /\ Len(todo) <= Len(argv)
  BY LenProperties, EmptySeq DEF TypeOK, StatusInv
<1>3. \A k \in 1 .. Len(todo) : todo[k] = argv[Passed + k]
  BY DEF StatusInv
<1> QED
  BY <1>1, <1>2, <1>3 DEF Passed

LEMMA StatusInit == Init => StatusInv
<1> SUFFICES ASSUME Init PROVE StatusInv
  OBVIOUS
<1>1. todo = argv /\ pc = "start" /\ Len(argv) \in Nat
  BY ListsAssumption, LenProperties DEF Init
<1> QED
  BY <1>1 DEF StatusInv, Passed

(* A step within the work on one slave, or between two of them.            *)
LEMMA StatusKept ==
  ASSUME TypeOK, StatusInv, UNCHANGED <<argv, todo, mode, res>>,
         \A s \in Slaves : Treated(s) => Treated(s)',
         pc' = "return" /\ ~failed' => Treated(Cur)',
         pc' \in {"releasedown", "defaultmtu"} => Cur \notin bonded',
         pc' \in {"release", "releasedown", "defaultmtu"} => mode = "detach",
         pc' = "change" => mode = "change",
         pc' = "exit" /\ res = 0 => mode = "change" \/ todo = <<>>
  PROVE  StatusInv'
<1>1. Passed' = Passed /\ Cur' = Cur
  BY DEF Passed, Cur
<1>2. \A i \in 1 .. Passed : argv[i] \in Slaves
  BY LenProperties, ElementOfSeq DEF TypeOK, StatusInv, Passed
<1>3. ASSUME res' = 0, NEW i \in 1 .. Passed
      PROVE  (mode = "enslave" => argv[i] \in bonded') /\ (mode = "detach" => argv[i] \notin bonded')
  <2>1. Treated(argv[i])
    BY <1>3 DEF StatusInv
  <2> QED
    BY <1>2, <2>1 DEF Treated
<1>4. (res = 0 => \A i \in 1 .. Passed : Treated(argv[i]))'
  BY <1>1, <1>3 DEF Treated
<1>5. (\A k \in 1 .. Len(todo) : todo[k] = argv[Passed + k])'
  BY <1>1 DEF StatusInv
<1>6. (Len(todo) <= Len(argv))'
  BY DEF StatusInv
<1> QED
  BY <1>1, <1>4, <1>5, <1>6, Zenon DEF StatusInv

LEMMA StatusStep ==
  TypeOK /\ AttachInv /\ StatusInv /\ [Next]_vars => StatusInv'
<1> SUFFICES ASSUME TypeOK, AttachInv, StatusInv, [Next]_vars PROVE StatusInv'
  OBVIOUS
<1> USE DEF Goto, Fail, Refused
<1>0. CASE UNCHANGED vars
  BY <1>0 DEF StatusInv, Treated, Passed, vars, command, program, kernel, Cur
<1>1. CASE Refuse
  BY <1>1 DEF Refuse, StatusInv, Treated, Passed, command, kernel, Cur
<1>2. CASE ReadMaster \/ Exited \/ AllDone
  BY <1>2 DEF ReadMaster, Exited, AllDone, StatusInv, Treated, Passed, vars, command, program,
              kernel, Cur
<1>3. CASE ReadSlave
  <2>1. UNCHANGED <<argv, todo, mode, res, bonded>> /\ Cur' = Cur
    BY <1>3 DEF ReadSlave, command, kernel, Cur
  <2>2. pc' \in {"return", "down", "release", "change"}
    BY <1>3 DEF ReadSlave, TypeOK
  <2>3. pc' = "return" => failed'
    BY <1>3 DEF ReadSlave, TypeOK
  <2>4. (pc' = "release" => mode = "detach") /\ (pc' = "change" => mode = "change")
    BY <1>3 DEF ReadSlave, TypeOK
  <2> QED
    BY <2>1, <2>2, <2>3, <2>4, StatusKept DEF Treated
<1>4. CASE SkipSlave
  <2>1. /\ todo # <<>> /\ todo' = Tail(todo) /\ argv' = argv /\ res' = 1
        /\ pc' \in {"exit", "next"}
    BY <1>4 DEF SkipSlave, command
  <2> QED
    BY <2>1, TailSuffix DEF StatusInv, Passed
(* The slave counts among those that were gone through, with its result.    *)
<1>5. CASE Return
  <2>1. /\ todo # <<>> /\ todo' = Tail(todo) /\ UNCHANGED <<argv, mode, bonded>>
        /\ pc = "return" /\ pc' = IF mode = "change" THEN "exit" ELSE "next"
    BY <1>5 DEF Return, command, kernel, TypeOK
  <2>2. res' = 0 => ~failed /\ res = 0
    BY <1>5 DEF Return
  <2>3. Passed' = Passed + 1
    BY <2>1, TailSuffix DEF Passed
  <2>4. ASSUME res' = 0, NEW i \in 1 .. Passed'
        PROVE  (mode = "enslave" => argv[i] \in bonded) /\ (mode = "detach" => argv[i] \notin bonded)
    <3>1. i \in 1 .. Passed \/ i = Passed + 1
      BY <2>1, <2>3, <2>4, TailSuffix
    <3>2. Treated(argv[i])
      BY <2>1, <2>2, <2>4, <3>1, TailSuffix DEF StatusInv
    <3> QED
      BY <2>1, <3>2 DEF Treated
  <2>5. Len(todo') <= Len(argv') /\ \A k \in 1 .. Len(todo') : todo'[k] = argv'[Passed' + k]
    BY <2>1, <2>3, TailSuffix DEF StatusInv
  <2>6. (res = 0 => \A i \in 1 .. Passed : Treated(argv[i]))'
    BY <2>1, <2>4 DEF Treated
  <2>7. (pc = "exit" /\ res = 0 => mode = "change" \/ todo = <<>>)'
    BY <2>1
  <2>8. pc' \in {"exit", "next"}
    BY <2>1
  <2> QED
    BY <2>5, <2>6, <2>7, <2>8 DEF StatusInv
<1> DEFINE Driving == EnslaveStep \/ Release \/ ReleaseDown \/ SetDefaultMtu \/ ChangeActive
<1>6. ASSUME Driving
      PROVE  UNCHANGED <<argv, todo, mode, res>> /\ Cur' = Cur /\ pc' # "exit"
  BY <1>6
    DEF EnslaveStep, SetDown, SetAddress, SetMtu, SetSlaveMac, SetSlaveUp,
        SetMasterDown, SetMasterMac, SetMasterUp, Enslave, UndoMasterMac, UndoSlaveMac, UndoMtu,
        Release, ReleaseDown, SetDefaultMtu, ChangeActive, command, program, Cur, Hwaddr
<1>7. CASE EnslaveStep
  <2>1. mode = "enslave"
    <3>1. pc \in AttachSteps
      BY <1>7 DEF AttachSteps, EnslaveStep, SetDown, SetAddress, SetMtu, SetSlaveMac, SetSlaveUp,
        SetMasterDown, SetMasterMac, SetMasterUp, Enslave, UndoMasterMac, UndoSlaveMac, UndoMtu
    <3> QED
      BY <3>1 DEF TypeOK
  <2>2. bonded \subseteq bonded'
    BY <1>7
      DEF EnslaveStep, SetDown, SetAddress, SetMtu, SetSlaveMac, SetSlaveUp, SetMasterDown,
          SetMasterMac, SetMasterUp, Enslave, UndoMasterMac, UndoSlaveMac, UndoMtu, Attach, kernel
  <2>3. pc' \in AttachSteps \cup {"return"}
    BY <1>7
      DEF EnslaveStep, SetDown, SetAddress, SetMtu, SetSlaveMac, SetSlaveUp, SetMasterDown,
          SetMasterMac, SetMasterUp, Enslave, UndoMasterMac, UndoSlaveMac, UndoMtu, Hwaddr,
          AttachSteps
  <2>4. pc' = "return" /\ ~failed' => Cur \in bonded'
    <3>1. CASE SetDown \/ SetAddress \/ SetMtu
      BY <3>1 DEF SetDown, SetAddress, SetMtu, Hwaddr
    <3>2. CASE SetSlaveMac \/ SetSlaveUp \/ SetMasterDown \/ SetMasterMac \/ SetMasterUp
      BY <3>2 DEF SetSlaveMac, SetSlaveUp, SetMasterDown, SetMasterMac, SetMasterUp
    <3>3. CASE Enslave
      BY <3>3 DEF Enslave, Attach
    <3>4. CASE UndoMasterMac \/ UndoSlaveMac
      BY <3>4 DEF UndoMasterMac, UndoSlaveMac
    <3>5. CASE UndoMtu
      <4>1. failed /\ failed' = failed
        BY <3>5 DEF UndoMtu, AttachInv, Undoing, kernel
      <4> QED
        BY <4>1
    <3> QED
      BY <1>7, <3>1, <3>2, <3>3, <3>4, <3>5 DEF EnslaveStep
  <2>5. UNCHANGED <<argv, todo, mode, res>> /\ Cur' = Cur
    BY <1>6, <1>7
  <2> QED
    BY <2>1, <2>2, <2>3, <2>4, <2>5, StatusKept DEF Treated, AttachSteps
<1>8. CASE Release
  <2>1. mode = "detach" /\ bonded' \subseteq bonded
    BY <1>8 DEF Release, Detach, kernel, StatusInv
  <2>2. pc' \in {"releasedown", "defaultmtu", "return"} /\ (pc' = "return" => failed')
    BY <1>8 DEF Release
  <2>3. pc' \in {"releasedown", "defaultmtu"} => Cur \notin bonded'
    BY <1>8 DEF Release, Detach
  <2>4. UNCHANGED <<argv, todo, mode, res>> /\ Cur' = Cur
    BY <1>6, <1>8
  <2> QED
    BY <2>1, <2>2, <2>3, <2>4, StatusKept DEF Treated
<1>9. CASE ReleaseDown \/ SetDefaultMtu
  <2>1. mode = "detach" /\ bonded' = bonded /\ Cur \notin bonded
    BY <1>9 DEF ReleaseDown, SetDefaultMtu, kernel, StatusInv
  <2>2. pc' \in {"defaultmtu", "return"}
    BY <1>9 DEF ReleaseDown, SetDefaultMtu
  <2>3. UNCHANGED <<argv, todo, mode, res>> /\ Cur' = Cur
    BY <1>6, <1>9
  <2> QED
    BY <2>1, <2>2, <2>3, StatusKept DEF Treated
<1>10. CASE ChangeActive
  <2>1. mode = "change" /\ bonded' = bonded /\ pc' = "return"
    BY <1>10 DEF ChangeActive, kernel, StatusInv
  <2>2. UNCHANGED <<argv, todo, mode, res>> /\ Cur' = Cur
    BY <1>6, <1>10
  <2> QED
    BY <2>1, <2>2, StatusKept DEF Treated
<1> QED
  BY <1>0, <1>1, <1>2, <1>3, <1>4, <1>5, <1>7, <1>8, <1>9, <1>10 DEF Next

(* An exit status of zero means that every slave of the command line is as *)
(* it was asked, for lists of any length, names given twice and slaves      *)
(* skipped or refused among them (main(), 434-491).                        *)
THEOREM StatusIsTold == Spec => []StatusTells
<1>1. TypeOK /\ StatusInv => StatusTells
  <2> SUFFICES ASSUME TypeOK, StatusInv, pc = "exit", res = 0, mode # "change",
                      NEW i \in DOMAIN argv
               PROVE  Treated(argv[i])
    BY DEF StatusTells, Treated, TypeOK
  <2>1. todo = <<>> /\ Passed = Len(argv)
    BY LenProperties, EmptySeq DEF StatusInv, Passed, TypeOK
  <2>2. i \in 1 .. Passed
    BY <2>1, LenProperties DEF TypeOK
  <2> QED
    BY <2>2 DEF StatusInv
<1> QED
  BY <1>1, TypeInit, TypeStep, AttachInit, AttachStep, StatusInit, StatusStep, PTL DEF Spec
=============================================================================
