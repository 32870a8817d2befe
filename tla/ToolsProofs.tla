----------------------------- MODULE ToolsProofs -----------------------------
(* Proofs about the small programs that are used beside preinit.           *)
EXTENDS MkLock, NoCtrlAltDel, GrubMbr, LcdWrite, SignFs, SignLine,
        SequenceTheorems, WellFoundedInduction, TLAPS

-----------------------------------------------------------------------------
(* mklock: no two processes hold the same lock, for any number of them and *)
(* any entries left in the directory.                                      *)

LkTypeOK ==
  /\ entries \subseteq Nat
  /\ num \in [Lockers -> Nat]
  /\ lock \in [Lockers -> Nat]
  /\ lkpc \in [Lockers -> {"try", "held", "failed", "released"}]

LkInv == LkTypeOK /\ OneHolder

(* Neither the entries left nor a number of a process is out of the        *)
(* numbers.                                                                *)
LEMMA LockInitial == LockInit => LkInv
  BY MaxNumAssumption, LeftAssumption
     DEF LockInit, LkInv, LkTypeOK, OneHolder, Holding, NoNumber

(* A process takes a number only if no entry has it, so that no one who    *)
(* holds an entry has it; and removes only its own.                        *)
LEMMA LockStep == LkInv /\ [LockNext]_lkvars => LkInv'
<1> SUFFICES ASSUME LkInv, [LockNext]_lkvars PROVE LkInv'
  OBVIOUS
<1> USE MaxNumAssumption DEF LkInv, LkTypeOK, OneHolder, Holding
<1>1. ASSUME NEW p \in Lockers, Try(p) PROVE LkInv'
  <2>1. LkTypeOK'
    <3>1. num' \in [Lockers -> Nat] /\ num[p] \in Nat
      BY <1>1 DEF Try
    <3>2. entries' \subseteq Nat /\ lock' \in [Lockers -> Nat]
      BY <1>1, <3>1 DEF Try
    <3>3. lkpc' \in [Lockers -> {"try", "held", "failed", "released"}]
      BY <1>1 DEF Try
    <3> QED
      BY <3>1, <3>2, <3>3
  <2>2. CASE num[p] \in entries
    <3>1. UNCHANGED <<entries, lock, lkpc>>
      BY <1>1, <2>2 DEF Try
    <3> QED
      BY <2>1, <3>1
  <2>3. CASE num[p] \notin entries
    <3>1. /\ entries' = entries \cup {num[p]}
          /\ lock' = [lock EXCEPT ![p] = num[p]]
          /\ lkpc' = [lkpc EXCEPT ![p] = "held"]
      BY <1>1, <2>3 DEF Try
    <3> QED
      BY <2>1, <2>3, <3>1
  <2> QED
    BY <2>2, <2>3
<1>2. ASSUME NEW p \in Lockers, GiveUp(p) PROVE LkInv'
  BY <1>2 DEF GiveUp
<1>3. ASSUME NEW p \in Lockers, Release(p) PROVE LkInv'
  <2>1. LkTypeOK'
    <3>1. num' \in [Lockers -> Nat]
      BY <1>3 DEF Release
    <3>2. entries' \subseteq Nat
      BY <1>3 DEF Release
    <3>3. lock' \in [Lockers -> Nat]
      <4>1. NoNumber \in Nat
        BY DEF NoNumber
      <4>2. lock' = [lock EXCEPT ![p] = NoNumber]
        BY <1>3 DEF Release
      <4> QED
        BY <4>1, <4>2
    <3>4. lkpc' \in [Lockers -> {"try", "held", "failed", "released"}]
      BY <1>3 DEF Release
    <3> QED
      BY <3>1, <3>2, <3>3, <3>4
  <2>2. OneHolder'
    BY <1>3 DEF Release
  <2> QED
    BY <2>1, <2>2
<1>4. ASSUME NEW p \in Lockers, LockAgain(p) PROVE LkInv'
  BY <1>4 DEF LockAgain
<1>5. CASE UNCHANGED lkvars
  BY <1>5 DEF lkvars
<1> QED
  BY <1>1, <1>2, <1>3, <1>4, <1>5 DEF LockNext

(* However mklock calls overlap, and whatever was in the directory, no two  *)
(* scripts are given the same entry at once and the entry given exists.    *)
THEOREM LockIsExclusive == LockSpec => []OneHolder
<1>1. LockInit => LkInv
  BY LockInitial
<1>2. LkInv /\ [LockNext]_lkvars => LkInv'
  BY LockStep
<1>3. LkInv => OneHolder
  BY DEF LkInv
<1> QED
  BY <1>1, <1>2, <1>3, PTL DEF LockSpec

-----------------------------------------------------------------------------
(* noctrlaltdel: a confirmed request shuts down, for any number of presses. *)

KaTypeOK ==
  /\ unseen \in [Presses -> SUBSET Pids]
  /\ found \in [Presses -> SUBSET Pids]
  /\ saw \in [Presses -> BOOLEAN]
  /\ process \in [Pids -> {"none", "script", "shutdown", "gone"}]

(* A script never looks at itself, and what it found exists or has existed. *)
NotItself ==
  \A p \in Presses :
    /\ Script(p) \notin unseen[p] \cup found[p]
    /\ found[p] # {} => saw[p]
    /\ \A q \in found[p] : process[q] # "none"

(* A subshell is only left by a script that looked and found none.          *)
TimerAlone ==
  \A p \in Presses : process[Timer(p)] # "none" =>
    process[Script(p)] # "none" /\ unseen[p] = {} /\ saw[p] = FALSE

(* The last script to kill others is not killed.                            *)
OneLeft ==
  (\E p \in Presses : saw[p]) =>
    \E p \in Presses : process[Script(p)] = "shutdown" \/ (Works(p) /\ saw[p])

KaInv == KaTypeOK /\ NotItself /\ TimerAlone /\ OneLeft

LEMMA PidsApart ==
  /\ \A p \in Presses : Script(p) \in Pids /\ Timer(p) \in Pids
  /\ \A p, r \in Presses : Script(p) # Timer(r)
  /\ \A p, r \in Presses : Script(p) = Script(r) => p = r
  /\ \A p, r \in Presses : Timer(p) = Timer(r) => p = r
  BY DEF Script, Timer, Pids

LEMMA KeysInitial == KeysInit => KaInv
<1> SUFFICES ASSUME KeysInit PROVE KaInv
  OBVIOUS
<1>1. KaTypeOK
  BY DEF KeysInit, KaTypeOK
<1>2. NotItself
  BY DEF KeysInit, NotItself
<1>3. TimerAlone
  <2> SUFFICES ASSUME NEW p \in Presses, process[Timer(p)] # "none"
               PROVE  /\ process[Script(p)] # "none"
                      /\ unseen[p] = {} /\ saw[p] = FALSE
    BY DEF TimerAlone
  <2>1. p \in Earlier
    <3>1. Timer(p)[1] = p
      BY DEF Timer
    <3>2. p \notin Earlier => process[Timer(p)] = "none"
      BY <3>1, PidsApart DEF KeysInit
    <3> QED
      BY <3>2
  <2>2. Script(p)[1] = p
    BY DEF Script
  <2>3. process[Script(p)] = "gone"
    BY <2>1, <2>2, PidsApart DEF KeysInit
  <2> QED
    BY <2>3 DEF KeysInit
<1>4. OneLeft
  BY DEF KeysInit, OneLeft
<1> QED
  BY <1>1, <1>2, <1>3, <1>4 DEF KaInv

LEMMA PressStep == ASSUME KaInv, NEW p \in Presses, Press(p) PROVE KaInv'
<1> USE DEF KaInv, Press
<1>1. KaTypeOK'
  BY PidsApart DEF KaTypeOK, Others
<1>2. NotItself'
  BY PidsApart DEF KaTypeOK, NotItself, Others
<1>3. TimerAlone'
  BY PidsApart DEF KaTypeOK, TimerAlone
<1>4. OneLeft'
  BY PidsApart DEF KaTypeOK, OneLeft, Works
<1> QED
  BY <1>1, <1>2, <1>3, <1>4

LEMMA LookStep == ASSUME KaInv, NEW p \in Presses, Look(p) PROVE KaInv'
<1> USE DEF KaInv
<1>1. PICK q \in unseen[p] :
        /\ Works(p) /\ process' = process
        /\ unseen' = [unseen EXCEPT ![p] = @ \ {q}]
        /\ \/ /\ process[q] = "script"
              /\ found' = [found EXCEPT ![p] = @ \cup {q}]
              /\ saw' = [saw EXCEPT ![p] = TRUE]
           \/ UNCHANGED <<found, saw>>
  BY DEF Look
<1>2. KaTypeOK'
  <2>1. q \in Pids /\ unseen[p] \ {q} \in SUBSET Pids /\ found[p] \cup {q} \in SUBSET Pids
    BY DEF KaTypeOK
  <2>2. unseen' \in [Presses -> SUBSET Pids] /\ process' \in [Pids -> {"none", "script", "shutdown", "gone"}]
    BY <1>1, <2>1 DEF KaTypeOK
  <2>3. found' \in [Presses -> SUBSET Pids] /\ saw' \in [Presses -> BOOLEAN]
    BY <1>1, <2>1 DEF KaTypeOK
  <2> QED
    BY <2>2, <2>3 DEF KaTypeOK
<1>3. NotItself'
  BY <1>1 DEF KaTypeOK, NotItself
<1>4. TimerAlone'
  BY <1>1 DEF KaTypeOK, TimerAlone
<1>5. OneLeft'
  BY <1>1 DEF KaTypeOK, OneLeft, Works
<1> QED
  BY <1>2, <1>3, <1>4, <1>5

(* The killer itself is what is left, unless there is a shutdown already.   *)
LEMMA KillStep == ASSUME KaInv, NEW p \in Presses, Kill(p) PROVE KaInv'
<1> USE DEF KaInv
<1>1. PICK q \in found[p] :
        /\ Works(p) /\ UNCHANGED <<unseen, saw>>
        /\ found' = [found EXCEPT ![p] = @ \ {q}]
        /\ process' = [process EXCEPT ![q] = "gone"] \/ process' = process
  BY DEF Kill, Looked
<1>2. q \in Pids /\ q # Script(p) /\ process[q] # "none" /\ saw[p]
  BY <1>1 DEF KaTypeOK, NotItself
<1>3. KaTypeOK'
  BY <1>1, <1>2 DEF KaTypeOK
<1>4. NotItself'
  BY <1>1, <1>2 DEF KaTypeOK, NotItself
<1>5. TimerAlone'
  BY <1>1, <1>2, PidsApart DEF KaTypeOK, TimerAlone
<1>6. OneLeft'
  BY <1>1, <1>2, PidsApart DEF KaTypeOK, OneLeft, Works
<1> QED
  BY <1>3, <1>4, <1>5, <1>6

LEMMA ExecStep == ASSUME KaInv, NEW p \in Presses, ExecShutdown(p) PROVE KaInv'
<1> USE PidsApart DEF KaInv, ExecShutdown
<1>1. KaTypeOK'
  BY DEF KaTypeOK
<1>2. NotItself'
  BY DEF KaTypeOK, NotItself
<1>3. TimerAlone'
  BY DEF KaTypeOK, TimerAlone
<1>4. OneLeft'
  BY DEF KaTypeOK, OneLeft
<1> QED
  BY <1>1, <1>2, <1>3, <1>4

LEMMA TimerStep == ASSUME KaInv, NEW p \in Presses, StartTimer(p) PROVE KaInv'
<1> USE PidsApart DEF KaInv, StartTimer, Looked, Works
<1>1. KaTypeOK'
  BY DEF KaTypeOK
<1>2. NotItself'
  BY DEF KaTypeOK, NotItself
<1>3. TimerAlone'
  BY DEF KaTypeOK, TimerAlone
<1>4. OneLeft'
  BY DEF KaTypeOK, OneLeft
<1> QED
  BY <1>1, <1>2, <1>3, <1>4

(* A script that found others does not end: it has no subshell.             *)
LEMMA EndStep == ASSUME KaInv, NEW q \in Pids, EndProcess(q) PROVE KaInv'
<1> USE DEF KaInv
<1>1. /\ process[q] = "script"
      /\ process' = [process EXCEPT ![q] = "gone"]
      /\ UNCHANGED <<unseen, found, saw>>
  BY DEF EndProcess
<1>2. KaTypeOK'
  BY <1>1 DEF KaTypeOK
<1>3. NotItself'
  BY <1>1 DEF KaTypeOK, NotItself
<1>4. TimerAlone'
  BY <1>1, PidsApart DEF KaTypeOK, TimerAlone
<1>5. \A p \in Presses : q = Script(p) => saw[p] = FALSE
  BY PidsApart DEF EndProcess, TimerAlone
<1>6. OneLeft'
  BY <1>1, <1>5, PidsApart DEF KaTypeOK, OneLeft, Works
<1> QED
  BY <1>2, <1>3, <1>4, <1>6

LEMMA KeysStep == KaInv /\ [KeysNext]_kavars => KaInv'
<1> SUFFICES ASSUME KaInv, [KeysNext]_kavars PROVE KaInv'
  OBVIOUS
<1>1. CASE UNCHANGED kavars
  BY <1>1 DEF kavars, KaInv, KaTypeOK, NotItself, TimerAlone, OneLeft, Works
<1>2. CASE KeysNext
  BY <1>2, PressStep, LookStep, KillStep, ExecStep, TimerStep, EndStep DEF KeysNext
<1> QED
  BY <1>1, <1>2

(* However many presses overlap, and whoever kills whom in which order:     *)
(* when all scripts are done and one of them found another, the shutdown   *)
(* runs.                                                                   *)
THEOREM ConfirmationKept == KeysSpec => []ConfirmedShutsDown
<1>1. KeysInit => KaInv
  BY KeysInitial
<1>2. KaInv /\ [KeysNext]_kavars => KaInv'
  BY KeysStep
<1>3. KaInv => ConfirmedShutsDown
  BY DEF KaInv, OneLeft, ConfirmedShutsDown
<1> QED
  BY <1>1, <1>2, <1>3, PTL DEF KeysSpec

-----------------------------------------------------------------------------
(* grub-mbr-default: what it saves is a multiple of the length of the       *)
(* series, found from the number of the entry after the one that runs.     *)

GrubTypeOK ==
  /\ round \in Rounds
  /\ saved \in Int /\ entryno \in Int /\ asked \in Int
  /\ booted \in {Off} \cup 0 .. LastEntry
  /\ byhand \in BOOLEAN
  /\ written \in Seq(Int)
  /\ gbpc \in {"idle", "write"}

(* What is about to be written is computed from what the sector still has. *)
SectorInv == gbpc = "write" => booted # Off /\ entryno = saved

GrubInv == GrubTypeOK /\ SectorInv /\ SeriesKept

LEMMA FirstOfSeries ==
  ASSUME NEW n \in Nat, NEW r \in Nat \ {0}
  PROVE  /\ Remainder(n, r) \in Int
         /\ n - Remainder(n, r) = (n \div r) * r
  BY DEF Remainder

LEMMA RemainderIsInt ==
  ASSUME NEW n \in Int, NEW r \in Nat \ {0}
  PROVE  Remainder(n, r) \in Int
  BY DEF Remainder

LEMMA GrubInitial == GrubInit => GrubInv
<1> SUFFICES ASSUME GrubInit PROVE GrubInv
  OBVIOUS
<1>1. written \in Seq(Int)
  BY EmptySeq DEF GrubInit
<1>2. /\ round \in Rounds /\ byhand \in BOOLEAN /\ gbpc \in {"idle", "write"}
      /\ saved \in 0 .. LastEntry /\ entryno = 0 /\ asked = 0
      /\ booted \in {Off} \cup 0 .. LastEntry
  BY Zenon DEF GrubInit
<1>3. saved \in Int /\ entryno \in Int /\ asked \in Int
  BY <1>2, LastAssumption
<1>4. GrubTypeOK
  BY <1>1, <1>2, <1>3, Zenon DEF GrubTypeOK
<1> QED
  BY <1>4 DEF GrubInit, GrubInv, SectorInv, SeriesKept

LEMMA GrubKept == GrubInv /\ [GrubNext]_gbvars => GrubInv'
<1> SUFFICES ASSUME GrubInv, [GrubNext]_gbvars PROVE GrubInv'
  OBVIOUS
<1> USE LastAssumption, RoundsAssumption DEF GrubInv
<1>1. CASE UNCHANGED gbvars
  BY <1>1 DEF gbvars, GrubTypeOK, SectorInv, SeriesKept
<1>2. CASE Boot
  <2>1. /\ UNCHANGED <<round, asked, entryno, gbpc>> /\ booted = Off
        /\ booted' = saved /\ saved' = saved + 1 /\ saved \in 0 .. LastEntry
        /\ byhand' = FALSE /\ written' = <<>>
    BY <1>2 DEF Boot, Boots
  <2>2. gbpc' # "write"
    BY <2>1 DEF SectorInv
  <2>3. written' \in Seq(Int)
    BY <2>1, EmptySeq
  <2>4. saved' \in Int /\ booted' \in {Off} \cup 0 .. LastEntry
    BY <2>1
  <2>5. GrubTypeOK'
    BY <2>1, <2>3, <2>4, Zenon DEF GrubTypeOK
  <2> QED
    BY <2>1, <2>2, <2>5 DEF SectorInv, SeriesKept
<1>3. CASE BootByHand
  BY <1>3 DEF BootByHand, Boots, GrubTypeOK, SectorInv, SeriesKept, Off
<1>4. CASE Stop
  BY <1>4 DEF Stop, GrubTypeOK, SectorInv, SeriesKept
<1>5. CASE ReadSector
  BY <1>5 DEF ReadSector, GrubTypeOK, SectorInv, SeriesKept, Series
<1>6. CASE WriteSector
  <2>1. UNCHANGED <<round, booted, byhand, asked, entryno>> /\ gbpc' = "idle"
        /\ booted # Off /\ entryno = saved
    BY <1>6 DEF WriteSector, SectorInv
  <2>2. CASE UNCHANGED <<saved, written>>
    BY <2>1, <2>2 DEF GrubTypeOK, SectorInv, SeriesKept
  <2>3. CASE saved' = NewEntry(entryno) /\ written' = Append(written, asked)
    <3>1. NewEntry(entryno) \in Int
      BY RemainderIsInt DEF NewEntry, GrubTypeOK
    <3>2. GrubTypeOK'
      BY <2>1, <2>3, <3>1 DEF GrubTypeOK
    <3>3. written' # <<>>
      BY <2>3 DEF GrubTypeOK
    <3>4. ASSUME written' = <<Series>>, ~byhand
          PROVE  saved' = (booted \div round) * round
      <4>1. written = <<>> /\ asked = Series
        <5>1. Len(written') = 1 /\ written'[1] = Series
          BY <3>4
        <5>2. /\ Len(written') = Len(written) + 1 /\ written'[Len(written) + 1] = asked
              /\ Len(written) \in Nat
          BY <2>3, AppendProperties, LenProperties DEF GrubTypeOK
        <5> QED
          BY <5>1, <5>2, EmptySeq DEF GrubTypeOK
      <4>2. entryno = booted + 1 /\ booted \in Nat
        BY <2>1, <3>4, <4>1 DEF SeriesKept, GrubTypeOK, Off
      <4>3. saved' = booted - Remainder(booted, round)
        BY <2>3, <4>1, <4>2 DEF NewEntry
      <4> QED
        BY <4>2, <4>3, FirstOfSeries DEF GrubTypeOK
    <3> QED
      BY <2>1, <3>2, <3>3, <3>4 DEF SectorInv, SeriesKept
  <2> QED
    BY <1>6, <2>2, <2>3 DEF WriteSector
<1> QED
  BY <1>1, <1>2, <1>3, <1>4, <1>5, <1>6 DEF GrubNext

(* However many boots failed before and wherever the power failed, a system *)
(* that came up and ran the program once leaves the first entry of its own *)
(* series as the default, for any number of entries and length of series.  *)
THEOREM SeriesIsKept == GrubSpec => []SeriesKept
<1>1. GrubInv => SeriesKept
  BY DEF GrubInv
<1> QED
  BY <1>1, GrubInitial, GrubKept, PTL DEF GrubSpec

-----------------------------------------------------------------------------
(* lcdwrite and lcdtee: what the display was given of a process is what is  *)
(* before the place it has reached.                                        *)

LcdTypeOK ==
  /\ text \in [Displayers -> Seq(Nat \ {0})]
  /\ piece \in [Displayers -> Nat \ {0}]
  /\ done \in [Displayers -> Nat]
  /\ lcd \in Seq(Displayers \X Nat \X Nat)
  /\ lcpc \in [Displayers -> {"open", "write", "gone", "end"}]

PlaceInv ==
  \A p \in Displayers :
    /\ lcpc[p] = "open" => piece[p] = 1 /\ done[p] = 0
    /\ lcpc[p] = "write" => piece[p] <= Len(text[p]) /\ done[p] < text[p][piece[p]]
    /\ lcpc[p] = "end" => piece[p] = Len(text[p]) + 1
    /\ p \in Tees => done[p] = 0

(* With `upto` places of piece `at` written, so is place k of piece n.      *)
Reached(at, upto, n, k) == n < at \/ (n = at /\ k <= upto)

GivenInv ==
  \A i \in 1 .. Len(lcd) :
    /\ lcd[i][2] \in 1 .. Len(text[lcd[i][1]])
    /\ lcd[i][3] \in 1 .. text[lcd[i][1]][lcd[i][2]]
    /\ Reached(piece[lcd[i][1]], done[lcd[i][1]], lcd[i][2], lcd[i][3])

OrderInv ==
  \A i, j \in 1 .. Len(lcd) : i < j /\ lcd[i][1] = lcd[j][1] => Later(lcd[i], lcd[j])

WholeInv ==
  \A p \in Displayers \ Tees : \A n \in 1 .. Len(text[p]) : \A k \in 1 .. text[p][n] :
    Reached(piece[p], done[p], n, k) => \E i \in 1 .. Len(lcd) : lcd[i] = <<p, n, k>>

LcdInv == LcdTypeOK /\ PlaceInv /\ GivenInv /\ OrderInv /\ WholeInv

(* Places of a text are counted in natural numbers.                        *)
LEMMA TextTyped ==
  ASSUME LcdTypeOK, NEW p \in Displayers
  PROVE  /\ Len(text[p]) \in Nat /\ DOMAIN text[p] = 1 .. Len(text[p])
         /\ \A n \in 1 .. Len(text[p]) : text[p][n] \in Nat \ {0}
         /\ piece[p] \in Nat \ {0} /\ done[p] \in Nat
<1>1. text[p] \in Seq(Nat \ {0})
  BY DEF LcdTypeOK
<1>2. Len(text[p]) \in Nat /\ DOMAIN text[p] = 1 .. Len(text[p])
  BY <1>1, LenProperties
<1>3. \A n \in 1 .. Len(text[p]) : text[p][n] \in Nat \ {0}
  BY <1>1, ElementOfSeq
<1> QED
  BY <1>2, <1>3 DEF LcdTypeOK

LEMMA LcdTyped ==
  ASSUME LcdTypeOK
  PROVE  /\ Len(lcd) \in Nat /\ DOMAIN lcd = 1 .. Len(lcd)
         /\ \A i \in 1 .. Len(lcd) :
              lcd[i] \in Displayers \X Nat \X Nat
<1>1. lcd \in Seq(Displayers \X Nat \X Nat)
  BY DEF LcdTypeOK
<1> QED
  BY <1>1, LenProperties, ElementOfSeq

(* The display after it was given n places of p.                           *)
LEMMA GivenIs ==
  ASSUME LcdTypeOK, NEW p \in Displayers, NEW n \in Nat
  PROVE  /\ Given(p, n) \in Seq(Displayers \X Nat \X Nat)
         /\ Len(Given(p, n)) = Len(lcd) + n
         /\ \A i \in 1 .. Len(lcd) : Given(p, n)[i] = lcd[i]
         /\ \A i \in Len(lcd) + 1 .. Len(lcd) + n :
              Given(p, n)[i] = <<p, piece[p], done[p] + (i - Len(lcd))>>
<1> DEFINE new == [k \in 1 .. n |-> <<p, piece[p], done[p] + k>>]
<1>1. lcd \in Seq(Displayers \X Nat \X Nat) /\ Len(lcd) \in Nat
  BY LcdTyped DEF LcdTypeOK
<1>2. new \in Seq(Displayers \X Nat \X Nat) /\ Len(new) = n
  <2>1. \A k \in 1 .. n : <<p, piece[p], done[p] + k>> \in Displayers \X Nat \X Nat
    BY TextTyped
  <2> HIDE DEF new
  <2>2. new \in [1 .. n -> Displayers \X Nat \X Nat]
    BY <2>1 DEF new
  <2> QED
    BY <2>2
<1>3. \A k \in 1 .. n : new[k] = <<p, piece[p], done[p] + k>>
  OBVIOUS
<1>4. Given(p, n) = lcd \o new
  BY DEF Given
<1> HIDE DEF new
<1>5. /\ lcd \o new \in Seq(Displayers \X Nat \X Nat)
      /\ Len(lcd \o new) = Len(lcd) + Len(new)
      /\ \A i \in 1 .. Len(lcd) + Len(new) :
           (lcd \o new)[i] = IF i <= Len(lcd) THEN lcd[i] ELSE new[i - Len(lcd)]
  BY <1>1, <1>2, ConcatProperties
<1> QED
  BY <1>1, <1>2, <1>3, <1>4, <1>5

(* A process that writes gives places up to one that it then has reached.  *)
NextAt(p) == piece' = [piece EXCEPT ![p] = @ + 1] /\ done' = [done EXCEPT ![p] = 0]
Further(p, n) == piece' = piece /\ done' = [done EXCEPT ![p] = @ + n]

LEMMA ReachedKept ==
  ASSUME LcdTypeOK, NEW p \in Displayers, NEW n \in Nat, NextAt(p) \/ Further(p, n),
         NEW q \in Displayers, NEW m \in Nat, NEW k \in Nat,
         Reached(piece[q], done[q], m, k)
  PROVE  Reached(piece'[q], done'[q], m, k)
<1>1. /\ piece \in [Displayers -> Nat \ {0}] /\ done \in [Displayers -> Nat]
      /\ piece[q] \in Nat /\ done[q] \in Nat
  BY DEF LcdTypeOK
<1>2. CASE NextAt(p)
  <2>1. \/ piece'[q] = piece[q] + 1
        \/ piece'[q] = piece[q] /\ done'[q] = done[q]
    BY <1>1, <1>2 DEF NextAt
  <2> QED
    BY <1>1, <2>1 DEF Reached
<1>3. CASE Further(p, n)
  <2>1. piece'[q] = piece[q] /\ (done'[q] = done[q] + n \/ done'[q] = done[q])
    BY <1>1, <1>3 DEF Further
  <2> QED
    BY <1>1, <2>1 DEF Reached
<1> QED
  BY <1>2, <1>3

LEMMA PlaceOnLcd ==
  ASSUME NEW l \in Nat, NEW d \in Nat, NEW n \in Nat, NEW k \in d + 1 .. d + n
  PROVE  /\ l + (k - d) \in l + 1 .. l + n /\ d + ((l + (k - d)) - l) = k
         /\ l + (k - d) \in 1 .. l + n
  OBVIOUS

LEMMA Gives ==
  ASSUME LcdInv, NEW p \in Displayers, NEW n \in Nat,
         lcpc[p] = "write", done[p] + n <= text[p][piece[p]],
         text' = text, lcd' = Given(p, n),
         lcpc' \in [Displayers -> {"open", "write", "gone", "end"}],
         NextAt(p) \/ Further(p, n),
         NextAt(p) /\ p \notin Tees => done[p] + n = text[p][piece[p]]
  PROVE  LcdTypeOK' /\ GivenInv' /\ OrderInv' /\ WholeInv'
<1>0. LcdTypeOK /\ PlaceInv /\ GivenInv /\ OrderInv /\ WholeInv
  BY DEF LcdInv
<1>1. /\ lcd' \in Seq(Displayers \X Nat \X Nat)
      /\ Len(lcd') = Len(lcd) + n /\ Len(lcd) \in Nat
      /\ \A i \in 1 .. Len(lcd) : lcd'[i] = lcd[i]
      /\ \A i \in Len(lcd) + 1 .. Len(lcd) + n :
           lcd'[i] = <<p, piece[p], done[p] + (i - Len(lcd))>>
  <2>1. Len(lcd) \in Nat
    BY <1>0, LcdTyped
  <2> QED
    BY <1>0, <2>1, GivenIs
<1>2. LcdTypeOK'
  <2>1. piece \in [Displayers -> Nat \ {0}] /\ done \in [Displayers -> Nat]
        /\ text' \in [Displayers -> Seq(Nat \ {0})]
    BY <1>0 DEF LcdTypeOK
  <2>2. piece[p] + 1 \in Nat \ {0} /\ done[p] + n \in Nat
    BY <2>1
  <2>3. piece' \in [Displayers -> Nat \ {0}] /\ done' \in [Displayers -> Nat]
    <3>1. CASE NextAt(p)
      BY <2>1, <2>2, <3>1 DEF NextAt
    <3>2. CASE Further(p, n)
      BY <2>1, <2>2, <3>2 DEF Further
    <3> QED
      BY <3>1, <3>2
  <2> QED
    BY <1>1, <2>1, <2>3, Zenon DEF LcdTypeOK
<1>3. /\ piece[p] \in 1 .. Len(text[p]) /\ done[p] < text[p][piece[p]]
      /\ piece[p] \in Nat /\ done[p] \in Nat /\ text[p][piece[p]] \in Nat
  <2>1. piece[p] <= Len(text[p]) /\ done[p] < text[p][piece[p]]
    BY <1>0 DEF PlaceInv
  <2>2. piece[p] \in 1 .. Len(text[p])
    BY <1>0, <2>1, TextTyped
  <2> QED
    BY <1>0, <2>1, <2>2, TextTyped
<1>4. \A i \in 1 .. Len(lcd) :
         /\ lcd[i][1] \in Displayers /\ lcd[i][2] \in Nat /\ lcd[i][3] \in Nat
  BY <1>0, LcdTyped
<1>5. \/ piece'[p] = piece[p] + 1 /\ done'[p] = 0 /\ NextAt(p)
      \/ piece'[p] = piece[p] /\ done'[p] = done[p] + n
  BY <1>0 DEF LcdTypeOK, NextAt, Further
<1>6. \A q \in Displayers \ {p} : piece'[q] = piece[q] /\ done'[q] = done[q]
  BY <1>0 DEF LcdTypeOK, NextAt, Further
<1>7. \A i \in 1 .. Len(lcd') : i \in 1 .. Len(lcd) \/ i \in Len(lcd) + 1 .. Len(lcd) + n
  BY <1>1
<1>8. \A i \in Len(lcd) + 1 .. Len(lcd) + n : i - Len(lcd) \in 1 .. n
  BY <1>1
<1>9. GivenInv'
  <2> SUFFICES ASSUME NEW i \in 1 .. Len(lcd')
               PROVE  /\ lcd'[i][2] \in 1 .. Len(text[lcd'[i][1]])
                      /\ lcd'[i][3] \in 1 .. text[lcd'[i][1]][lcd'[i][2]]
                      /\ Reached(piece'[lcd'[i][1]], done'[lcd'[i][1]], lcd'[i][2], lcd'[i][3])
    BY DEF GivenInv
  <2>1. CASE i \in 1 .. Len(lcd)
    <3>1. lcd'[i] = lcd[i]
      BY <1>1, <2>1
    <3>2. /\ lcd[i][2] \in 1 .. Len(text[lcd[i][1]])
          /\ lcd[i][3] \in 1 .. text[lcd[i][1]][lcd[i][2]]
          /\ Reached(piece[lcd[i][1]], done[lcd[i][1]], lcd[i][2], lcd[i][3])
      BY <1>0, <2>1 DEF GivenInv
    <3>3. Reached(piece'[lcd[i][1]], done'[lcd[i][1]], lcd[i][2], lcd[i][3])
      BY <1>0, <1>4, <2>1, <3>2, ReachedKept
    <3> QED
      BY <3>1, <3>2, <3>3
  <2>2. CASE i \in Len(lcd) + 1 .. Len(lcd) + n
    <3>1. lcd'[i] = <<p, piece[p], done[p] + (i - Len(lcd))>>
      BY <1>1, <2>2
    <3> DEFINE k == i - Len(lcd)
    <3>2. k \in 1 .. n
      BY <1>8, <2>2
    <3> HIDE DEF k
    <3>3. done[p] + k \in 1 .. text[p][piece[p]]
      BY <1>3, <3>2
    <3>4. Reached(piece'[p], done'[p], piece[p], done[p] + k)
      BY <1>3, <1>5, <3>2 DEF Reached
    <3>5. lcd'[i][1] = p /\ lcd'[i][2] = piece[p] /\ lcd'[i][3] = done[p] + k
      BY <3>1 DEF k
    <3> QED
      BY <1>3, <3>3, <3>4, <3>5
  <2> QED
    BY <1>7, <2>1, <2>2
<1>10. Len(lcd') = Len(lcd) + n /\ Len(lcd) \in Nat
  BY <1>1
<1>11. OrderInv'
  <2> SUFFICES ASSUME NEW i \in 1 .. Len(lcd'), NEW j \in 1 .. Len(lcd'),
                      i < j, lcd'[i][1] = lcd'[j][1]
               PROVE  Later(lcd'[i], lcd'[j])
    BY DEF OrderInv
  <2>1. CASE j \in 1 .. Len(lcd)
    <3>1. i \in 1 .. Len(lcd)
      BY <1>10, <2>1
    <3>2. lcd'[i] = lcd[i] /\ lcd'[j] = lcd[j]
      BY <1>1, <2>1, <3>1
    <3> QED
      BY <1>0, <2>1, <3>1, <3>2 DEF OrderInv
  <2>2. CASE i \in 1 .. Len(lcd) /\ j \in Len(lcd) + 1 .. Len(lcd) + n
    <3> DEFINE k == j - Len(lcd)
    <3>1. lcd'[i] = lcd[i] /\ lcd'[j] = <<p, piece[p], done[p] + k>>
      BY <1>1, <2>2
    <3>2. k \in 1 .. n
      BY <1>8, <2>2
    <3> HIDE DEF k
    <3>3. lcd[i][1] = p
      BY <3>1
    <3>4. Reached(piece[p], done[p], lcd[i][2], lcd[i][3])
      BY <1>0, <2>2, <3>3 DEF GivenInv
    <3>5. lcd[i][2] \in Nat /\ lcd[i][3] \in Nat
      BY <1>4, <2>2
    <3>6. lcd[i][2] < piece[p] \/ (lcd[i][2] = piece[p] /\ lcd[i][3] < done[p] + k)
      <4> DEFINE a == lcd[i][2]
                 b == lcd[i][3]
      <4>1. a \in Nat /\ b \in Nat /\ (a < piece[p] \/ (a = piece[p] /\ b <= done[p]))
        BY <3>4, <3>5 DEF Reached
      <4>2. b <= done[p] => b < done[p] + k
        <5> HIDE DEF a, b
        <5> QED
          BY <1>3, <3>2, <4>1
      <4> QED
        BY <4>1, <4>2
    <3>7. lcd'[j][2] = piece[p] /\ lcd'[j][3] = done[p] + k
      BY <3>1
    <3> QED
      BY <3>1, <3>6, <3>7 DEF Later
  <2>3. CASE i \in Len(lcd) + 1 .. Len(lcd) + n /\ j \in Len(lcd) + 1 .. Len(lcd) + n
    <3>1. /\ lcd'[i] = <<p, piece[p], done[p] + (i - Len(lcd))>>
          /\ lcd'[j] = <<p, piece[p], done[p] + (j - Len(lcd))>>
      BY <1>1, <2>3
    <3>2. done[p] + (i - Len(lcd)) < done[p] + (j - Len(lcd))
      BY <1>3, <1>10, <2>3
    <3> QED
      BY <3>1, <3>2 DEF Later
  <2> QED
    BY <1>7, <1>1, <2>1, <2>2, <2>3
<1>12. WholeInv'
  <2> SUFFICES ASSUME NEW q \in Displayers \ Tees, NEW m \in 1 .. Len(text[q]),
                      NEW k \in 1 .. text[q][m], Reached(piece'[q], done'[q], m, k)
               PROVE  \E i \in 1 .. Len(lcd') : lcd'[i] = <<q, m, k>>
    BY DEF WholeInv
  <2>1. CASE Reached(piece[q], done[q], m, k)
    <3>1. PICK i \in 1 .. Len(lcd) : lcd[i] = <<q, m, k>>
      BY <1>0, <2>1 DEF WholeInv
    <3>2. i \in 1 .. Len(lcd') /\ lcd'[i] = lcd[i]
      BY <1>1
    <3> QED
      BY <3>1, <3>2
  <2>2. CASE ~Reached(piece[q], done[q], m, k)
    <3>1. m \in Nat /\ k \in Nat
      BY <1>0, TextTyped
    <3>2. q = p
      BY <1>6, <2>2
    <3>3. m = piece[p] /\ k \in done[p] + 1 .. done[p] + n
      <4>1. CASE piece'[p] = piece[p] + 1 /\ done'[p] = 0 /\ NextAt(p)
        <5>1. m = piece[p] /\ k > done[p]
          BY <1>3, <2>2, <3>1, <3>2, <4>1 DEF Reached
        <5>2. done[p] + n = text[p][piece[p]]
          BY <3>2, <4>1
        <5> QED
          BY <1>3, <3>1, <3>2, <5>1, <5>2
      <4>2. CASE piece'[p] = piece[p] /\ done'[p] = done[p] + n
        BY <1>3, <2>2, <3>1, <3>2, <4>2 DEF Reached
      <4> QED
        BY <1>5, <4>1, <4>2
    <3> DEFINE i == Len(lcd) + (k - done[p])
    <3>4. /\ i \in Len(lcd) + 1 .. Len(lcd) + n /\ done[p] + (i - Len(lcd)) = k
          /\ i \in 1 .. Len(lcd')
      <4>1. k \in done[p] + 1 .. done[p] + n /\ Len(lcd) \in Nat /\ done[p] \in Nat
        BY <1>3, <1>10, <3>3
      <4>2. /\ i \in Len(lcd) + 1 .. Len(lcd) + n /\ done[p] + (i - Len(lcd)) = k
            /\ i \in 1 .. Len(lcd) + n
        BY <4>1, PlaceOnLcd
      <4> QED
        BY <1>10, <4>2
    <3> HIDE DEF i
    <3>5. lcd'[i] = <<q, m, k>>
      BY <1>1, <3>2, <3>3, <3>4
    <3> QED
      BY <3>4, <3>5
  <2> QED
    BY <2>1, <2>2
<1> QED
  BY <1>2, <1>9, <1>11, <1>12

LEMMA LcdInitial == LcdInit => LcdInv
<1> SUFFICES ASSUME LcdInit PROVE LcdInv
  OBVIOUS
<1>1. lcd \in Seq(Displayers \X Nat \X Nat) /\ Len(lcd) = 0
  BY EmptySeq DEF LcdInit
<1>2. /\ text \in [Displayers -> Seq(Nat \ {0})]
      /\ piece \in [Displayers -> Nat \ {0}] /\ done \in [Displayers -> Nat]
      /\ lcpc \in [Displayers -> {"open", "write", "gone", "end"}]
  BY TextsAssumption DEF LcdInit
<1>3. LcdTypeOK
  BY <1>1, <1>2, Zenon DEF LcdTypeOK
<1>4. PlaceInv
  BY DEF LcdInit, PlaceInv
<1>5. GivenInv /\ OrderInv
  BY <1>1 DEF GivenInv, OrderInv
<1>6. WholeInv
  <2> SUFFICES ASSUME NEW p \in Displayers, NEW n \in 1 .. Len(text[p]), NEW k \in 1 .. text[p][n],
                      Reached(piece[p], done[p], n, k)
               PROVE  FALSE
    BY DEF WholeInv
  <2>1. n \in Nat \ {0} /\ k \in Nat \ {0}
    BY <1>3, TextTyped
  <2> QED
    BY <2>1 DEF LcdInit, Reached
<1> QED
  BY <1>3, <1>4, <1>5, <1>6 DEF LcdInv

(* A step that gives the display nothing.                                  *)
LEMMA Silent ==
  ASSUME LcdInv, UNCHANGED <<text, piece, done, lcd>>,
         lcpc' \in [Displayers -> {"open", "write", "gone", "end"}],
         PlaceInv'
  PROVE  LcdInv'
<1>1. LcdTypeOK'
  BY DEF LcdInv, LcdTypeOK
<1>2. GivenInv' /\ OrderInv'
  BY DEF LcdInv, GivenInv, OrderInv
<1>3. WholeInv'
  BY DEF LcdInv, WholeInv
<1> QED
  BY <1>1, <1>2, <1>3 DEF LcdInv

LEMMA LcdKept == LcdInv /\ [LcdNext]_lcvars => LcdInv'
<1> SUFFICES ASSUME LcdInv, [LcdNext]_lcvars PROVE LcdInv'
  OBVIOUS
<1>1. LcdTypeOK /\ PlaceInv
  BY DEF LcdInv
<1>2. CASE UNCHANGED lcvars
  <2>1. lcpc' \in [Displayers -> {"open", "write", "gone", "end"}] /\ PlaceInv'
    BY <1>1, <1>2 DEF lcvars, LcdTypeOK, PlaceInv
  <2> QED
    BY <1>2, <2>1, Silent DEF lcvars
<1>3. ASSUME NEW p \in Displayers, LcdStep(p) PROVE LcdInv'
  <2>1. /\ Len(text[p]) \in Nat
        /\ \A n \in 1 .. Len(text[p]) : text[p][n] \in Nat \ {0}
        /\ piece[p] \in Nat \ {0} /\ done[p] \in Nat
    BY <1>1, TextTyped
  <2>2. CASE Open(p)
    <3>1. Starts(p) \in {"write", "end"} /\ lcpc[p] = "open"
      BY <2>2 DEF Open, Starts
    <3>2. lcpc' = [lcpc EXCEPT ![p] = Starts(p)] /\ UNCHANGED <<text, piece, done, lcd>>
      BY <2>2 DEF Open, Goes
    <3>3. lcpc' \in [Displayers -> {"open", "write", "gone", "end"}]
      BY <1>1, <3>1, <3>2 DEF LcdTypeOK
    <3>4. IF text[p] = <<>> THEN Starts(p) = "end" /\ Len(text[p]) = 0
          ELSE Starts(p) = "write" /\ Len(text[p]) > 0
      BY <1>1, EmptySeq DEF Starts, LcdTypeOK
    <3>5. piece[p] = 1 /\ done[p] = 0
      BY <1>1, <3>1 DEF PlaceInv
    <3>6. /\ Starts(p) = "end" => piece[p] = Len(text[p]) + 1
          /\ Starts(p) = "write" => piece[p] <= Len(text[p]) /\ done[p] < text[p][piece[p]]
      BY <2>1, <3>4, <3>5
    <3>7. PlaceInv'
      BY <1>1, <3>1, <3>2, <3>5, <3>6 DEF PlaceInv, LcdTypeOK
    <3> QED
      BY <3>2, <3>3, <3>7, Silent
  <2>3. CASE OpenFails(p) \/ OpenBusy(p) \/ WriteBusy(p) \/ WriteFails(p)
    <3>1. /\ UNCHANGED <<text, piece, done, lcd>>
          /\ lcpc' = lcpc \/ lcpc' = [lcpc EXCEPT ![p] = "gone"]
      BY <2>3 DEF OpenFails, OpenBusy, WriteBusy, WriteFails, WaitAgain, Goes
    <3>2. lcpc' \in [Displayers -> {"open", "write", "gone", "end"}]
      BY <1>1, <3>1 DEF LcdTypeOK
    <3>3. PlaceInv'
      BY <1>1, <3>1 DEF PlaceInv, LcdTypeOK
    <3> QED
      BY <3>1, <3>2, <3>3, Silent
  (* A piece that is written whole is followed by the next, or by the end.  *)
  <2>4. ASSUME NextPiece(p), lcpc[p] = "write", text' = text PROVE PlaceInv'
    <3>1. NextAt(p) /\ (lcpc' = lcpc \/ lcpc' = [lcpc EXCEPT ![p] = "end"])
      BY <2>4 DEF NextPiece, NextAt, Goes
    <3>2. piece[p] <= Len(text[p])
      BY <1>1, <2>4 DEF PlaceInv
    <3>3. IF piece[p] = Len(text[p]) THEN lcpc'[p] = "end" ELSE lcpc'[p] = "write"
      BY <1>1, <2>4 DEF NextPiece, Goes, LcdTypeOK
    <3>4. piece'[p] = piece[p] + 1 /\ done'[p] = 0
      BY <1>1, <3>1 DEF NextAt, LcdTypeOK
    <3>5. \A q \in Displayers \ {p} :
            piece'[q] = piece[q] /\ done'[q] = done[q] /\ lcpc'[q] = lcpc[q]
      BY <1>1, <3>1 DEF NextAt, LcdTypeOK
    <3>6. /\ lcpc'[p] = "write" => piece'[p] <= Len(text[p]) /\ done'[p] < text[p][piece'[p]]
          /\ lcpc'[p] = "end" => piece'[p] = Len(text[p]) + 1
          /\ lcpc'[p] # "open"
      BY <2>1, <3>2, <3>3, <3>4
    <3> QED
      BY <1>1, <2>4, <3>4, <3>5, <3>6 DEF PlaceInv
  <2>5. ASSUME NextPiece(p)
        PROVE  NextAt(p) /\ lcpc' \in [Displayers -> {"open", "write", "gone", "end"}]
    BY <1>1, <2>5 DEF NextPiece, NextAt, Goes, LcdTypeOK
  <2>6. CASE TeeWrite(p)
    <3>1. PICK n \in 0 .. text[p][piece[p]] : lcd' = Given(p, n)
      BY <2>6 DEF TeeWrite
    <3>2. NextPiece(p) /\ text' = text /\ p \in Tees /\ lcpc[p] = "write"
      BY <2>6 DEF TeeWrite
    <3>3. done[p] = 0 /\ piece[p] <= Len(text[p])
      BY <1>1, <3>2 DEF PlaceInv
    <3>4. n \in Nat /\ done[p] + n <= text[p][piece[p]]
      BY <2>1, <3>1, <3>3
    <3>5. LcdTypeOK' /\ GivenInv' /\ OrderInv' /\ WholeInv'
      BY <2>5, <3>1, <3>2, <3>4, Gives
    <3> QED
      BY <2>4, <3>2, <3>5 DEF LcdInv
  <2>7. CASE Write(p)
    <3>1. PICK n \in 1 .. text[p][piece[p]] - done[p] :
            /\ lcd' = Given(p, n)
            /\ IF done[p] + n = text[p][piece[p]] THEN NextPiece(p)
               ELSE done' = [done EXCEPT ![p] = @ + n] /\ UNCHANGED <<piece, lcpc>>
      BY <2>7 DEF Write
    <3>2. text' = text /\ p \notin Tees /\ lcpc[p] = "write"
      BY <2>7 DEF Write
    <3>3. piece[p] <= Len(text[p]) /\ text[p][piece[p]] \in Nat
      BY <1>1, <2>1, <3>2 DEF PlaceInv
    <3>4. n \in Nat \ {0} /\ done[p] + n <= text[p][piece[p]]
      BY <2>1, <3>1, <3>3
    <3>5. CASE done[p] + n = text[p][piece[p]]
      <4>1. NextPiece(p)
        BY <3>1, <3>5
      <4>2. LcdTypeOK' /\ GivenInv' /\ OrderInv' /\ WholeInv'
        BY <2>5, <3>1, <3>2, <3>4, <3>5, <4>1, Gives
      <4> QED
        BY <2>4, <3>2, <4>1, <4>2 DEF LcdInv
    <3>6. CASE done[p] + n # text[p][piece[p]]
      <4>1. Further(p, n) /\ lcpc' = lcpc
        BY <3>1, <3>6 DEF Further
      <4>2. done'[p] = done[p] + n /\ \A q \in Displayers \ {p} : done'[q] = done[q]
        BY <1>1, <4>1 DEF Further, LcdTypeOK
      <4>3. ~NextAt(p)
        BY <2>1, <3>4, <4>2, <1>1 DEF NextAt, LcdTypeOK
      <4>4. LcdTypeOK' /\ GivenInv' /\ OrderInv' /\ WholeInv'
        BY <1>1, <3>1, <3>2, <3>4, <4>1, <4>3, Gives DEF LcdTypeOK
      <4>5. done'[p] < text[p][piece[p]]
        <5>1. done[p] \in Nat /\ n \in Nat
          BY <2>1, <3>4
        <5>2. done[p] + n < text[p][piece[p]]
          BY ONLY <3>3, <3>4, <3>6, <5>1
        <5> QED
          BY <4>2, <5>2
      <4>6. PlaceInv'
        BY <1>1, <3>2, <4>1, <4>2, <4>5 DEF PlaceInv, Further
      <4> QED
        BY <4>4, <4>6 DEF LcdInv
    <3> QED
      BY <3>5, <3>6
  <2> QED
    BY <1>3, <2>2, <2>3, <2>6, <2>7 DEF LcdStep
<1> QED
  BY <1>2, <1>3 DEF LcdNext

(* For any number of processes and any texts, however the writes of each    *)
(* are cut and however they take turns: what the display was given of each *)
(* is in order, nothing twice; of lcdwrite without a gap, and all of it     *)
(* unless it gave up.                                                      *)
THEOREM TextIsInOrder == LcdSpec => []TextInOrder
<1>1. LcdInv => TextInOrder
  <2> SUFFICES ASSUME LcdInv PROVE TextInOrder
    OBVIOUS
  <2>1. LcdTypeOK /\ PlaceInv /\ GivenInv /\ OrderInv /\ WholeInv
    BY DEF LcdInv
  <2>2. Len(lcd) \in Nat /\ DOMAIN lcd = 1 .. Len(lcd)
    BY <2>1, LcdTyped
  <2>3. \A i, j \in DOMAIN lcd : i < j /\ lcd[i][1] = lcd[j][1] => Later(lcd[i], lcd[j])
    BY <2>1, <2>2 DEF OrderInv
  <2>4. ASSUME NEW p \in Displayers \ Tees, NEW i \in DOMAIN lcd, lcd[i][1] = p
        PROVE  NoGap(p, lcd[i])
    <3> DEFINE n == lcd[i][2]
               k == lcd[i][3]
    <3>1. /\ n \in 1 .. Len(text[p]) /\ k \in 1 .. text[p][n]
          /\ Reached(piece[p], done[p], n, k)
      BY <2>1, <2>2, <2>4 DEF GivenInv
    <3> HIDE DEF n, k
    <3>2. /\ Len(text[p]) \in Nat /\ \A m \in 1 .. Len(text[p]) : text[p][m] \in Nat \ {0}
          /\ piece[p] \in Nat /\ done[p] \in Nat
      BY <2>1, TextTyped
    <3>3. ASSUME k > 1 PROVE Shown(<<p, n, k - 1>>)
      <4>1. k - 1 \in 1 .. text[p][n] /\ Reached(piece[p], done[p], n, k - 1)
        BY <3>1, <3>2, <3>3 DEF Reached
      <4> QED
        BY <2>1, <2>2, <3>1, <4>1 DEF WholeInv, Shown
    <3>4. ASSUME n > 1 PROVE Shown(<<p, n - 1, text[p][n - 1]>>)
      <4>1. n - 1 \in 1 .. Len(text[p])
        BY <3>1, <3>2, <3>4
      <4>2. text[p][n - 1] \in 1 .. text[p][n - 1]
        BY <3>2, <4>1
      <4>3. Reached(piece[p], done[p], n - 1, text[p][n - 1])
        BY <3>1, <3>2, <3>4 DEF Reached
      <4> QED
        BY <2>1, <2>2, <4>1, <4>2, <4>3 DEF WholeInv, Shown
    <3> QED
      BY <3>3, <3>4 DEF NoGap, n, k
  <2>5. ASSUME NEW p \in Displayers \ Tees, lcpc[p] = "end", NEW n \in DOMAIN text[p]
        PROVE  Shown(<<p, n, text[p][n]>>)
    <3>1. /\ n \in 1 .. Len(text[p]) /\ text[p][n] \in 1 .. text[p][n]
          /\ n < Len(text[p]) + 1
      BY <2>1, TextTyped
    <3>2. Reached(piece[p], done[p], n, text[p][n])
      BY <2>1, <2>5, <3>1 DEF PlaceInv, Reached
    <3> QED
      BY <2>1, <2>2, <3>1, <3>2 DEF WholeInv, Shown
  <2> QED
    BY <2>3, <2>4, <2>5 DEF TextInOrder
<1> QED
  BY <1>1, LcdInitial, LcdKept, PTL DEF LcdSpec

-----------------------------------------------------------------------------
(* signfs: a node of the tree tells whether its path was in the list, on    *)
(* the file system, or both, and whether its last line says what was seen.  *)

Node == [data : Status, listed : BOOLEAN, filled : SUBSET {"file", "fs"}, diff : BOOLEAN]

SgTypeOK ==
  /\ listing \in Seq(ListLine) /\ lines \in Seq(ListLine)
  /\ filesystem \in [DOMAIN filesystem -> Status] /\ DOMAIN filesystem \subseteq FilePaths
  /\ node \in [DOMAIN node -> Node]
  /\ seen \in [DOMAIN seen -> Status]
  /\ sgpc \in {"list", "walk", "print", "crashed"}

(* What is left of the list is its end.                                    *)
LinesRead == Len(listing) - Len(lines)

LinesInv ==
  /\ Len(lines) <= Len(listing)
  /\ \A k \in 1 .. Len(lines) : lines[k] = listing[LinesRead + k]
  /\ sgpc # "list" => lines = <<>>
  /\ sgpc = "list" => seen = [p \in {} |-> Nothing] /\ pending = {}

(* No path is walked twice: it comes from a directory that was walked.     *)
ChildOf(q, p) == Len(q) = Len(p) + 1 /\ IsPrefix(p, q)

WalkInv ==
  /\ DOMAIN seen \cap pending = {}
  /\ DOMAIN seen \subseteq FilePaths /\ pending \subseteq FilePaths
  /\ \A q \in pending \cup DOMAIN seen : Len(q) = 1 \/ \E p \in DOMAIN seen : ChildOf(q, p)

(* Line i is the last of the first n lines that is on path p.              *)
IsLast(i, p, n) == i \in 1 .. n /\ listing[i].path = p /\ \A j \in i + 1 .. n : listing[j].path # p
Unlisted(p, n) == \A j \in 1 .. n : listing[j].path # p

ListedNode(p, i) ==
  IF p \in DOMAIN seen
  THEN node[p].filled = {"file", "fs"} /\ (node[p].diff <=> ~Same(listing[i], p))
  ELSE /\ node[p].filled = {"file"} /\ ~node[p].diff /\ node[p].listed
       /\ node[p].data = [type |-> listing[i].type, content |-> listing[i].content]

UnlistedNode(p) ==
  /\ ~node[p].diff
  /\ IF p \in DOMAIN seen THEN node[p].filled = {"fs"}
     ELSE /\ node[p].filled = {}
          /\ \E j \in 1 .. LinesRead : IsStrictPrefix(p, listing[j].path)

NodeInv ==
  /\ DOMAIN seen \subseteq DOMAIN node
  /\ \A j \in 1 .. LinesRead : listing[j].path \in DOMAIN node
  /\ \A p \in DOMAIN node :
       \/ \E i \in 1 .. LinesRead : IsLast(i, p, LinesRead) /\ ListedNode(p, i)
       \/ Unlisted(p, LinesRead) /\ UnlistedNode(p)

SgInv == SgTypeOK /\ LinesInv /\ WalkInv /\ (DirectoriesFirst => NodeInv)

LEMMA AboveIsPrefix ==
  ASSUME NEW p \in FilePaths, NEW q \in Above(p)
  PROVE  q \in FilePaths /\ IsStrictPrefix(q, p)
<1>1. PICK l \in 0 .. Len(p) : q = SubSeq(p, 1, l)
  BY DEF Above, Prefixes
<1>2. p \in Seq(STRING) /\ Len(p) \in Nat
  BY LenProperties DEF FilePaths
<1>3. \A i \in 1 .. l : p[i] \in STRING
  BY <1>2, ElementOfSeq
<1>4. q \in Seq(STRING) /\ Len(q) = l /\ \A i \in 1 .. l : q[i] = p[i]
  <2>1. /\ SubSeq(p, 1, l) \in Seq(STRING)
        /\ Len(SubSeq(p, 1, l)) = IF 1 <= l THEN l - 1 + 1 ELSE 0
        /\ \A i \in 1 .. l - 1 + 1 : SubSeq(p, 1, l)[i] = p[1 + i - 1]
    BY <1>3, SubSeqProperties
  <2> QED
    BY <1>1, <1>2, <2>1
<1>5. SubSeq(q, 1, l) = q
  BY <1>4, SubSeqFull
<1>6. Len(q) <= Len(p) /\ SubSeq(q, 1, Len(q)) = SubSeq(p, 1, Len(q))
  BY <1>1, <1>2, <1>4, <1>5
<1> QED
  BY <1>4, <1>6 DEF Above, IsPrefix, IsStrictPrefix, FilePaths

(* A path is directly in one directory.                                    *)
LEMMA OneParent ==
  ASSUME NEW p \in FilePaths, NEW q \in FilePaths, NEW r \in FilePaths,
         ChildOf(r, p), ChildOf(r, q)
  PROVE  p = q
<1>1. p \in Seq(STRING) /\ q \in Seq(STRING) /\ Len(p) \in Nat /\ Len(q) \in Nat
  BY LenProperties DEF FilePaths
<1>2. Len(p) = Len(q)
  BY <1>1 DEF ChildOf
<1>3. SubSeq(p, 1, Len(p)) = p /\ SubSeq(q, 1, Len(q)) = q
  BY <1>1, SubSeqFull
<1> QED
  BY <1>2, <1>3 DEF ChildOf, IsPrefix

LEMMA ListTyped ==
  ASSUME SgTypeOK, LinesInv
  PROVE  /\ Len(listing) \in Nat /\ DOMAIN listing = 1 .. Len(listing) /\ Len(lines) \in Nat
         /\ LinesRead \in 0 .. Len(listing)
         /\ \A j \in 1 .. Len(listing) : listing[j] \in ListLine /\ listing[j].path \in FilePaths
<1>1. Len(listing) \in Nat /\ DOMAIN listing = 1 .. Len(listing) /\ Len(lines) \in Nat
  BY LenProperties DEF SgTypeOK
<1>2. \A j \in 1 .. Len(listing) : listing[j] \in ListLine
  BY ElementOfSeq DEF SgTypeOK
<1>3. \A j \in 1 .. Len(listing) : listing[j].path \in FilePaths
  BY <1>2 DEF ListLine
<1>4. Len(lines) <= Len(listing)
  BY DEF LinesInv
<1> QED
  BY <1>1, <1>2, <1>3, <1>4 DEF LinesRead

LEMMA NextLine ==
  ASSUME SgTypeOK, LinesInv, lines # <<>>
  PROVE  /\ Head(lines) = listing[LinesRead + 1] /\ LinesRead + 1 \in 1 .. Len(listing)
         /\ Tail(lines) \in Seq(ListLine) /\ Len(Tail(lines)) = Len(lines) - 1
         /\ Len(listing) - Len(Tail(lines)) = LinesRead + 1
         /\ \A k \in 1 .. Len(Tail(lines)) : Tail(lines)[k] = listing[LinesRead + 1 + k]
<1>1. /\ Len(lines) \in Nat \ {0} /\ Len(listing) \in Nat /\ LinesRead = Len(listing) - Len(lines)
      /\ Len(lines) <= Len(listing)
  BY ListTyped, EmptySeq DEF SgTypeOK, LinesInv, LinesRead
<1>2. /\ Tail(lines) \in Seq(ListLine) /\ Len(Tail(lines)) = Len(lines) - 1
      /\ \A k \in 1 .. Len(Tail(lines)) : Tail(lines)[k] = lines[k + 1]
  BY HeadTailProperties DEF SgTypeOK
<1>3. \A k \in 1 .. Len(lines) : lines[k] = listing[LinesRead + k]
  BY DEF LinesInv
<1>4. Head(lines) = lines[1]
  BY DEF SgTypeOK
<1>5. Head(lines) = listing[LinesRead + 1]
  BY <1>1, <1>3, <1>4
<1>6. \A k \in 1 .. Len(Tail(lines)) : Tail(lines)[k] = listing[LinesRead + 1 + k]
  <2> SUFFICES ASSUME NEW k \in 1 .. Len(Tail(lines)) PROVE lines[k + 1] = listing[LinesRead + 1 + k]
    BY <1>2
  <2>1. k + 1 \in 1 .. Len(lines) /\ LinesRead + (k + 1) = LinesRead + 1 + k
    BY <1>1, <1>2
  <2> QED
    BY <1>3, <2>1
<1> QED
  BY <1>1, <1>2, <1>5, <1>6

(* One more line leaves the last line on any other path.                   *)
LEMMA OneMore ==
  ASSUME NEW n \in Nat, NEW p, listing[n + 1].path # p
  PROVE  /\ \A i \in 1 .. n : IsLast(i, p, n) => i \in 1 .. n + 1 /\ IsLast(i, p, n + 1)
         /\ Unlisted(p, n) => Unlisted(p, n + 1)
<1>1. \A j : j \in 1 .. n + 1 => j \in 1 .. n \/ j = n + 1
  OBVIOUS
<1>2. \A i \in 1 .. n : \A j : j \in i + 1 .. n + 1 => j \in i + 1 .. n \/ j = n + 1
  OBVIOUS
<1> QED
  BY <1>1, <1>2 DEF IsLast, Unlisted

LEMMA SignInitial == SignInit => SgInv
<1> SUFFICES ASSUME SignInit PROVE SgInv
  OBVIOUS
<1>1. listing \in Seq(ListLine) /\ lines = listing /\ Len(listing) \in Nat
  BY ListingsAssumption, LenProperties DEF SignInit
<1>2. /\ filesystem \in [DOMAIN filesystem -> Status] /\ DOMAIN filesystem \subseteq FilePaths
  BY SystemsAssumption DEF SignInit
<1>3. /\ DOMAIN node = {} /\ node \in [{} -> Node] /\ seen \in [{} -> Status] /\ DOMAIN seen = {}
      /\ pending = {} /\ sgpc = "list" /\ seen = [p \in {} |-> Nothing]
  BY DEF SignInit
<1>4. SgTypeOK
  BY <1>1, <1>2, <1>3 DEF SgTypeOK
<1>5. LinesRead = 0
  BY <1>1 DEF LinesRead
<1>6. LinesInv
  BY <1>1, <1>3, <1>5 DEF LinesInv
<1> QED
  BY <1>3, <1>4, <1>5, <1>6 DEF SgInv, WalkInv, NodeInv

LEMMA ReadLineKeeps == SgInv /\ ReadLine => SgInv'
<1> SUFFICES ASSUME SgInv, ReadLine PROVE SgInv'
  OBVIOUS
<1>0. SgTypeOK /\ LinesInv /\ WalkInv /\ (DirectoriesFirst => NodeInv)
  BY DEF SgInv
<1>1. PICK l : l = Head(lines)
  OBVIOUS
<1>2. PICK n : n = LinesRead
  OBVIOUS
<1> DEFINE tree == WithParents(node, l.path)
<1>3. /\ lines # <<>> /\ sgpc = "list" /\ lines' = Tail(lines)
      /\ node' = Keep(tree, l.path, Listed(tree, l))
      /\ UNCHANGED <<listing, filesystem, seen, pending, sgpc>>
  BY <1>1 DEF ReadLine
<1>4. /\ l = listing[n + 1] /\ n + 1 \in 1 .. Len(listing) /\ n \in Nat /\ LinesRead' = n + 1
      /\ l \in ListLine /\ l.path \in FilePaths
  BY <1>0, <1>1, <1>2, <1>3, NextLine, ListTyped DEF LinesRead
<1>5. DOMAIN seen = {}
  BY <1>0, <1>3 DEF LinesInv
<1>6. Directory \in Node
  BY DEF Directory, Node, Status, FileTypes, Contents
<1>7. /\ DOMAIN tree = DOMAIN node \cup Above(l.path)
      /\ \A q \in DOMAIN node : tree[q] = node[q]
      /\ \A q \in Above(l.path) \ DOMAIN node : tree[q] = Directory
      /\ \A q \in DOMAIN tree : tree[q] \in Node
  BY <1>0, <1>6 DEF WithParents, SgTypeOK
<1> HIDE DEF tree
<1>8. Listed(tree, l) \in Node
  <2>1. l.type \in FileTypes /\ l.content \in Contents
    BY <1>4 DEF ListLine
  <2>2. l.path \in DOMAIN tree => tree[l.path].filled \in SUBSET {"file", "fs"}
    BY <1>7 DEF Node
  <2> QED
    BY <2>1, <2>2 DEF Listed, Node, Status
<1>9. /\ DOMAIN node' = DOMAIN tree \cup {l.path}
      /\ node'[l.path] = Listed(tree, l)
      /\ \A q \in DOMAIN tree \ {l.path} : node'[q] = tree[q]
      /\ node' \in [DOMAIN node' -> Node]
  BY <1>3, <1>7, <1>8 DEF Keep
<1>10. SgTypeOK'
  BY <1>0, <1>3, <1>9, NextLine DEF SgTypeOK
<1>11. LinesInv'
  <2>1. Len(lines') = Len(lines) - 1 /\ Len(lines) <= Len(listing) /\ Len(lines) \in Nat
    BY <1>0, <1>3, NextLine, ListTyped DEF LinesInv
  <2>2. \A k \in 1 .. Len(lines') : lines'[k] = listing'[LinesRead' + k]
    BY <1>0, <1>2, <1>3, <1>4, NextLine
  <2> QED
    BY <1>0, <1>3, <2>1, <2>2, ListTyped DEF LinesInv
<1>12. WalkInv'
  BY <1>0, <1>3 DEF WalkInv, ChildOf
<1>13. ASSUME DirectoriesFirst PROVE NodeInv'
  <2>1. NodeInv
    BY <1>0, <1>13
  <2>2. \A j \in 1 .. n + 1 : listing[j].path \in DOMAIN node'
    <3> SUFFICES ASSUME NEW j \in 1 .. n + 1 PROVE listing[j].path \in DOMAIN node'
      OBVIOUS
    <3>1. CASE j = n + 1
      BY <1>4, <1>9, <3>1
    <3>2. CASE j \in 1 .. n
      BY <1>2, <1>7, <1>9, <2>1, <3>2 DEF NodeInv
    <3> QED
      BY <1>4, <3>1, <3>2
  (* The line's own path: it was not in the tree, or by an earlier line.    *)
  <2>3. IsLast(n + 1, l.path, n + 1) /\ n + 1 \in 1 .. n + 1
    BY <1>4 DEF IsLast
  <2>4. l.path \notin Above(l.path)
    BY DEF Above
  <2>5. l.path \in DOMAIN tree => tree[l.path].filled = {"file"}
    <3> SUFFICES ASSUME l.path \in DOMAIN node PROVE node[l.path].filled = {"file"}
      BY <1>7, <2>4
    <3>1. ASSUME Unlisted(l.path, n), NEW j \in 1 .. n, IsStrictPrefix(l.path, listing[j].path)
          PROVE  FALSE
      <4>1. /\ n + 1 \in DOMAIN listing /\ j \in 1 .. n + 1
            /\ IsStrictPrefix(listing[n + 1].path, listing[j].path)
        BY <1>0, <1>4, <3>1, ListTyped
      <4>2. PICK k \in 1 .. j - 1 : listing[k].path = listing[n + 1].path
        BY <1>13, <4>1 DEF DirectoriesFirst
      <4>3. k \in 1 .. n
        BY <1>4, <4>2
      <4> QED
        BY <1>4, <3>1, <4>2, <4>3 DEF Unlisted
    <3>2. \/ \E i \in 1 .. n : IsLast(i, l.path, n) /\ ListedNode(l.path, i)
          \/ Unlisted(l.path, n) /\ UnlistedNode(l.path)
      BY <1>2, <2>1 DEF NodeInv
    <3>3. ~(Unlisted(l.path, n) /\ UnlistedNode(l.path))
      BY <1>2, <1>5, <3>1 DEF UnlistedNode
    <3> QED
      BY <1>5, <3>2, <3>3 DEF ListedNode
  <2>6. ListedNode(l.path, n + 1)'
    <3>1. Listed(tree, l).filled = {"file"}
      BY <2>5 DEF Listed
    <3>2. /\ ~Listed(tree, l).diff /\ Listed(tree, l).listed
          /\ Listed(tree, l).data = [type |-> l.type, content |-> l.content]
      BY DEF Listed
    <3>3. l.path \notin DOMAIN seen' /\ listing'[n + 1] = l
      BY <1>3, <1>4, <1>5
    <3> QED
      BY <1>9, <3>1, <3>2, <3>3 DEF ListedNode
  <2>7. ASSUME NEW p \in DOMAIN node' \ {l.path}
        PROVE  \/ \E i \in 1 .. n + 1 : IsLast(i, p, n + 1) /\ ListedNode(p, i)'
               \/ Unlisted(p, n + 1) /\ UnlistedNode(p)'
    <3>1. listing[n + 1].path # p
      BY <1>4
    <3>2. CASE p \in DOMAIN node
      <4>1. node'[p] = node[p]
        BY <1>7, <1>9, <3>2
      <4>2. ASSUME NEW i \in 1 .. n, IsLast(i, p, n), ListedNode(p, i)
            PROVE  i \in 1 .. n + 1 /\ IsLast(i, p, n + 1) /\ ListedNode(p, i)'
        BY <1>3, <1>4, <1>5, <3>1, <4>1, <4>2, OneMore DEF ListedNode
      <4>3. ASSUME Unlisted(p, n), UnlistedNode(p)
            PROVE  Unlisted(p, n + 1) /\ UnlistedNode(p)'
        <5>1. \A j \in 1 .. n : j \in 1 .. n + 1
          BY <1>4
        <5> QED
          BY <1>2, <1>3, <1>4, <1>5, <3>1, <4>1, <4>3, <5>1, OneMore DEF UnlistedNode
      <4> QED
        BY <1>2, <2>1, <3>2, <4>2, <4>3 DEF NodeInv
    <3>3. CASE p \notin DOMAIN node
      <4>1. p \in Above(l.path) /\ node'[p] = Directory
        BY <1>7, <1>9, <3>3
      <4>2. Unlisted(p, n)
        BY <1>2, <2>1, <3>3 DEF NodeInv, Unlisted
      <4>3. IsStrictPrefix(p, listing[n + 1].path) /\ n + 1 \in 1 .. n + 1
        BY <1>4, <4>1, AboveIsPrefix
      <4>4. UnlistedNode(p)'
        BY <1>3, <1>4, <1>5, <4>1, <4>3 DEF UnlistedNode, Directory, Blank
      <4> QED
        BY <1>4, <3>1, <4>2, <4>4, OneMore
    <3> QED
      BY <3>2, <3>3
  <2>8. \A p \in DOMAIN node' :
          \/ \E i \in 1 .. n + 1 : IsLast(i, p, n + 1) /\ ListedNode(p, i)'
          \/ Unlisted(p, n + 1) /\ UnlistedNode(p)'
    BY <2>3, <2>6, <2>7
  <2> QED
    BY <1>3, <1>4, <1>5, <2>2, <2>8 DEF NodeInv, IsLast, Unlisted
<1>14. DirectoriesFirst' <=> DirectoriesFirst
  BY <1>3 DEF DirectoriesFirst
<1> QED
  BY <1>10, <1>11, <1>12, <1>13, <1>14 DEF SgInv

(* A step that reads no line and walks nothing.                            *)
LEMMA TreeKept ==
  ASSUME SgInv, UNCHANGED <<listing, lines, node, seen>>,
         filesystem' \in [DOMAIN filesystem' -> Status], DOMAIN filesystem' \subseteq FilePaths,
         sgpc' \in {"list", "walk", "print", "crashed"},
         sgpc' # "list" => lines = <<>>,
         sgpc' = "list" => sgpc = "list" /\ pending' = {},
         WalkInv'
  PROVE  SgInv'
<1>1. SgTypeOK'
  BY DEF SgInv, SgTypeOK
<1>2. LinesRead' = LinesRead
  BY DEF LinesRead
<1>3. LinesInv'
  BY <1>2 DEF SgInv, LinesInv
<1>4. DirectoriesFirst' => NodeInv'
  <2>1. DirectoriesFirst' <=> DirectoriesFirst
    BY DEF DirectoriesFirst
  <2>2. ASSUME NodeInv PROVE NodeInv'
    <3>1. \A p, i : (ListedNode(p, i)' <=> ListedNode(p, i)) /\ (UnlistedNode(p)' <=> UnlistedNode(p))
      BY <1>2 DEF ListedNode, UnlistedNode, Same
    <3> QED
      BY <1>2, <2>2, <3>1 DEF NodeInv, IsLast, Unlisted
  <2> QED
    BY <2>1, <2>2 DEF SgInv
<1> QED
  BY <1>1, <1>3, <1>4 DEF SgInv

LEMMA WalkKeeps == SgInv /\ Walk => SgInv'
<1> SUFFICES ASSUME SgInv, Walk PROVE SgInv'
  OBVIOUS
<1>0. SgTypeOK /\ LinesInv /\ WalkInv /\ (DirectoriesFirst => NodeInv)
  BY DEF SgInv
<1>1. /\ sgpc = "walk"
      /\ UNCHANGED <<listing, filesystem, shown, lines, sgpc>>
  BY DEF Walk
<1>2. PICK p \in pending :
        IF p \in DOMAIN filesystem
        THEN LET old == IF p \in DOMAIN node THEN node[p] ELSE Blank
                 new == Found(p, old)
             IN /\ node' = Keep(node, p,
                     [old EXCEPT !.data = new, !.filled = @ \cup {"fs"},
                                 !.diff = "file" \in old.filled /\ Differs(old, new)])
                /\ seen' = Keep(seen, p, filesystem[p])
                /\ pending' = (pending \ {p}) \cup
                     (IF filesystem[p].type = "dir" THEN Below(filesystem, p) ELSE {})
        ELSE /\ pending' = pending \ {p}
             /\ UNCHANGED <<node, seen>>
  BY DEF Walk
<1>3. CASE p \notin DOMAIN filesystem
  <2>1. pending' = pending \ {p} /\ UNCHANGED <<node, seen>>
    BY <1>2, <1>3
  <2>2. WalkInv'
    BY <1>0, <2>1 DEF WalkInv, ChildOf
  <2> QED
    BY <1>0, <1>1, <2>1, <2>2, TreeKept DEF SgTypeOK, LinesInv
<1>4. CASE p \in DOMAIN filesystem
  <2> DEFINE old == IF p \in DOMAIN node THEN node[p] ELSE Blank
             new == Found(p, old)
             walked == [old EXCEPT !.data = new, !.filled = @ \cup {"fs"},
                                   !.diff = "file" \in old.filled /\ Differs(old, new)]
  <2>1. /\ node' = Keep(node, p, walked)
        /\ seen' = Keep(seen, p, filesystem[p])
        /\ pending' = (pending \ {p}) \cup
             (IF filesystem[p].type = "dir" THEN Below(filesystem, p) ELSE {})
    BY <1>2, <1>4
  <2>2. p \notin DOMAIN seen /\ p \in FilePaths
    BY <1>0 DEF WalkInv
  <2>3. old \in Node
    BY <1>0 DEF SgTypeOK, Node, Blank, Nothing, Status, FileTypes, Contents
  <2>4. filesystem[p] \in Status
    BY <1>0, <1>4 DEF SgTypeOK
  <2> HIDE DEF old
  <2>5. /\ new \in Status /\ new.type = filesystem[p].type
        /\ new.content = IF p \in Secret /\ filesystem[p].type = "file"
                         THEN old.data.content ELSE filesystem[p].content
    BY <2>3, <2>4 DEF Found, Node, Status
  <2> HIDE DEF new
  <2>6. /\ walked \in Node
        /\ walked.filled = old.filled \cup {"fs"}
        /\ walked.diff <=> "file" \in old.filled /\ Differs(old, new)
    BY <2>3, <2>5 DEF Node
  <2> HIDE DEF walked
  <2>7. /\ DOMAIN node' = DOMAIN node \cup {p} /\ node'[p] = walked
        /\ \A q \in DOMAIN node \ {p} : node'[q] = node[q]
        /\ node' \in [DOMAIN node' -> Node]
    BY <1>0, <2>1, <2>6 DEF Keep, SgTypeOK
  <2>8. /\ DOMAIN seen' = DOMAIN seen \cup {p} /\ seen'[p] = filesystem[p]
        /\ \A q \in DOMAIN seen \ {p} : seen'[q] = seen[q]
        /\ seen' \in [DOMAIN seen' -> Status]
    BY <1>0, <2>1, <2>4 DEF Keep, SgTypeOK
  <2>9. SgTypeOK' /\ LinesInv' /\ LinesRead' = LinesRead
    BY <1>0, <1>1, <2>7, <2>8 DEF SgTypeOK, LinesInv, LinesRead
  <2>10. WalkInv'
    <3>1. \A q \in Below(filesystem, p) : q \in FilePaths /\ ChildOf(q, p)
      BY <1>0 DEF Below, ChildOf, SgTypeOK
    (* None of what is below p was met before p was walked.                 *)
    <3>2. ASSUME NEW q \in Below(filesystem, p), q \in pending \cup DOMAIN seen PROVE q = p
      <4>1. q \in FilePaths /\ ChildOf(q, p) /\ Len(p) \in Nat \ {0}
        BY <2>2, <3>1, LenProperties, EmptySeq DEF FilePaths
      <4>2. Len(q) # 1
        BY <4>1 DEF ChildOf
      <4>3. PICK r \in DOMAIN seen : ChildOf(q, r)
        BY <1>0, <3>2, <4>2 DEF WalkInv
      <4>4. r = p
        BY <1>0, <2>2, <4>1, <4>3, OneParent DEF WalkInv
      <4> QED
        BY <2>2, <4>3, <4>4
    <3>3. p \notin Below(filesystem, p)
      <4>1. Len(p) \in Nat
        BY <2>2, LenProperties DEF FilePaths
      <4> QED
        BY <4>1 DEF Below
    <3>4. DOMAIN seen' \cap pending' = {}
      BY <1>0, <2>1, <2>8, <3>2, <3>3 DEF WalkInv
    <3>5. DOMAIN seen' \subseteq FilePaths /\ pending' \subseteq FilePaths
      BY <1>0, <2>1, <2>2, <2>8, <3>1 DEF WalkInv
    <3>6. ASSUME NEW q \in pending' \cup DOMAIN seen'
          PROVE  Len(q) = 1 \/ \E r \in DOMAIN seen' : ChildOf(q, r)
      <4>1. CASE q \in pending \cup DOMAIN seen
        BY <1>0, <2>8, <4>1 DEF WalkInv
      <4>2. CASE q \in Below(filesystem, p)
        BY <2>8, <3>1, <4>2
      <4> QED
        BY <1>2, <2>1, <2>8, <3>6, <4>1, <4>2
    <3> QED
      BY <3>4, <3>5, <3>6 DEF WalkInv, ChildOf
  <2>11. ASSUME DirectoriesFirst PROVE NodeInv'
    <3>1. NodeInv
      BY <1>0, <2>11
    <3>2. ASSUME NEW q \in DOMAIN node \ {p}
          PROVE  \A i : (ListedNode(q, i)' <=> ListedNode(q, i)) /\ (UnlistedNode(q)' <=> UnlistedNode(q))
      <4>1. node'[q] = node[q] /\ (q \in DOMAIN seen' <=> q \in DOMAIN seen)
            /\ (q \in DOMAIN seen => seen'[q] = seen[q])
        BY <2>7, <2>8, <3>2
      <4> QED
        BY <1>1, <2>9, <4>1 DEF ListedNode, UnlistedNode, Same
    (* What the walk makes of p itself.                                     *)
    <3>3. ASSUME NEW i \in 1 .. LinesRead, IsLast(i, p, LinesRead), p \in DOMAIN node,
                 ListedNode(p, i)
          PROVE  ListedNode(p, i)'
      <4>1. /\ old.filled = {"file"} /\ old.listed
            /\ old.data = [type |-> listing[i].type, content |-> listing[i].content]
        BY <2>2, <3>3 DEF ListedNode, old
      <4>2. walked.filled = {"file", "fs"}
        BY <2>6, <4>1
      <4>3. walked.diff <=> ~Same(listing[i], p)'
        BY <1>1, <2>5, <2>6, <2>8, <4>1 DEF Differs, Same
      <4> QED
        BY <1>1, <2>7, <2>8, <4>2, <4>3 DEF ListedNode
    <3>4. ASSUME Unlisted(p, LinesRead), p \notin DOMAIN node \/ UnlistedNode(p)
          PROVE  UnlistedNode(p)'
      <4>1. old.filled = {}
        BY <2>2, <3>4 DEF UnlistedNode, old, Blank
      <4>2. walked.filled = {"fs"} /\ ~walked.diff
        BY <2>6, <4>1
      <4> QED
        BY <2>7, <2>8, <4>2 DEF UnlistedNode
    <3>5. p \notin DOMAIN node => Unlisted(p, LinesRead)
      BY <3>1 DEF NodeInv, Unlisted
    <3>6. \A q \in DOMAIN node' :
            \/ \E i \in 1 .. LinesRead : IsLast(i, q, LinesRead) /\ ListedNode(q, i)'
            \/ Unlisted(q, LinesRead) /\ UnlistedNode(q)'
      BY <2>7, <3>1, <3>2, <3>3, <3>4, <3>5 DEF NodeInv
    <3> QED
      BY <1>1, <2>7, <2>8, <2>9, <3>1, <3>6 DEF NodeInv, IsLast, Unlisted
  <2>12. DirectoriesFirst' <=> DirectoriesFirst
    BY <1>1 DEF DirectoriesFirst
  <2> QED
    BY <2>9, <2>10, <2>11, <2>12 DEF SgInv
<1> QED
  BY <1>3, <1>4

LEMMA SignKept == SgInv /\ [SignNext]_sgvars => SgInv'
<1> SUFFICES ASSUME SgInv, [SignNext]_sgvars PROVE SgInv'
  OBVIOUS
<1>0. SgTypeOK /\ LinesInv /\ WalkInv
  BY DEF SgInv
<1>1. /\ filesystem \in [DOMAIN filesystem -> Status] /\ DOMAIN filesystem \subseteq FilePaths
      /\ sgpc \in {"list", "walk", "print", "crashed"}
  BY <1>0 DEF SgTypeOK
<1>2. CASE UNCHANGED sgvars
  <2>1. WalkInv'
    BY <1>0, <1>2 DEF sgvars, WalkInv, ChildOf
  <2> QED
    BY <1>0, <1>1, <1>2, <2>1, TreeKept DEF sgvars, LinesInv
<1>3. CASE ListEnds
  <2>1. \A q \in Below(filesystem, <<>>) : q \in FilePaths /\ Len(q) = 1
    BY <1>1 DEF Below
  <2>2. seen' = seen /\ DOMAIN seen = {} /\ pending' = Below(filesystem, <<>>)
    BY <1>0, <1>3 DEF ListEnds, LinesInv
  <2>3. WalkInv'
    BY <2>1, <2>2 DEF WalkInv
  <2> QED
    BY <1>1, <1>3, <2>3, TreeKept DEF ListEnds
<1>4. CASE Vanish
  <2>1. /\ filesystem' \in [DOMAIN filesystem' -> Status] /\ DOMAIN filesystem' \subseteq FilePaths
    BY <1>1, <1>4 DEF Vanish
  <2>2. UNCHANGED <<listing, lines, node, seen, pending, sgpc>> /\ sgpc = "walk"
    BY <1>4 DEF Vanish
  <2>3. WalkInv'
    BY <1>0, <2>2 DEF WalkInv, ChildOf
  <2> QED
    BY <1>0, <2>1, <2>2, <2>3, TreeKept DEF LinesInv
<1>5. CASE WalkEnds \/ ReopenFails
  <2>1. /\ UNCHANGED <<listing, filesystem, lines, node, seen, pending>>
        /\ sgpc = "walk" /\ sgpc' \in {"print", "crashed"}
    BY <1>5 DEF WalkEnds, ReopenFails
  <2>2. WalkInv'
    BY <1>0, <2>1 DEF WalkInv, ChildOf
  <2> QED
    BY <1>0, <1>1, <2>1, <2>2, TreeKept DEF LinesInv
<1> QED
  BY <1>2, <1>3, <1>4, <1>5, ReadLineKeeps, WalkKeeps DEF SignNext

(* What is printed of a path.                                              *)
LEMMA InReport == \A x : x \in Report <=> \E p \in DOMAIN node : \E m \in Mark(node[p]) : x = <<m, p>>
  BY DEF Report

LEMMA LastLineIs ==
  ASSUME SgTypeOK, LinesInv, NEW p, NEW i \in 1 .. Len(listing), IsLast(i, p, Len(listing))
  PROVE  p \in Paths(listing) /\ LastLine(p) = i
<1>1. DOMAIN listing = 1 .. Len(listing) /\ Len(listing) \in Nat
  BY ListTyped
<1> DEFINE last(k) == listing[k].path = p /\ \A j \in DOMAIN listing : j > k => listing[j].path # p
<1>2. last(i)
  BY <1>1 DEF IsLast
<1>3. \A k \in DOMAIN listing : last(k) => k = i
  BY <1>1, <1>2
<1> QED
  BY <1>1, <1>2, <1>3 DEF LastLine, Paths

LEMMA ReportCompares ==
  ASSUME SgInv, DirectoriesFirst, sgpc = "print"
  PROVE  Report = Comparison
<1>0. SgTypeOK /\ LinesInv /\ NodeInv
  BY DEF SgInv
<1>1. LinesRead = Len(listing) /\ Len(listing) \in Nat /\ DOMAIN listing = 1 .. Len(listing)
  BY <1>0, ListTyped, EmptySeq DEF LinesInv, LinesRead
<1>2. DOMAIN seen \subseteq DOMAIN node /\ Paths(listing) \subseteq DOMAIN node
  BY <1>0, <1>1 DEF NodeInv, Paths
<1> DEFINE same(p) == Same(listing[LastLine(p)], p)
           both == Paths(listing) \cap DOMAIN seen
<1>3. \A x : x \in Comparison <=>
        \/ \E p \in both : ~same(p) /\ x = <<"changed", p>>
        \/ "others" \in shown /\ \E p \in both : same(p) /\ x = <<"same", p>>
        \/ "new" \in shown /\ \E p \in DOMAIN seen \ Paths(listing) : x = <<"new", p>>
        \/ "old" \in shown /\ \E p \in Paths(listing) \ DOMAIN seen : x = <<"old", p>>
  BY DEF Comparison
<1> HIDE DEF same
(* Each node, by where its path was found.                                  *)
<1>4. ASSUME NEW p \in DOMAIN node
      PROVE  Mark(node[p]) =
               IF p \in both THEN IF ~same(p) THEN {"changed"}
                                  ELSE IF "others" \in shown THEN {"same"} ELSE {}
               ELSE IF p \in DOMAIN seen THEN IF "new" \in shown THEN {"new"} ELSE {}
               ELSE IF p \in Paths(listing) THEN IF "old" \in shown THEN {"old"} ELSE {}
               ELSE {}
  <2>1. {"file", "fs"} # {"fs"} /\ {"file", "fs"} # {"file"} /\ {"fs"} # {"file"}
        /\ {"file"} # {} /\ {"fs"} # {} /\ {"file", "fs"} # {}
    OBVIOUS
  <2>2. CASE \E i \in 1 .. Len(listing) : IsLast(i, p, Len(listing)) /\ ListedNode(p, i)
    <3>1. PICK i \in 1 .. Len(listing) : IsLast(i, p, Len(listing)) /\ ListedNode(p, i)
      BY <2>2
    <3>2. p \in Paths(listing) /\ (same(p) <=> Same(listing[i], p))
      BY <1>0, <3>1, LastLineIs DEF same
    <3>3. CASE p \in DOMAIN seen
      <4>1. node[p].filled = {"file", "fs"} /\ (node[p].diff <=> ~same(p))
        BY <3>1, <3>2, <3>3 DEF ListedNode
      <4> QED
        BY <2>1, <3>2, <3>3, <4>1 DEF Mark
    <3>4. CASE p \notin DOMAIN seen
      <4>1. node[p].filled = {"file"} /\ ~node[p].diff
        BY <3>1, <3>4 DEF ListedNode
      <4> QED
        BY <2>1, <3>2, <3>4, <4>1 DEF Mark
    <3> QED
      BY <3>3, <3>4
  <2>3. CASE Unlisted(p, Len(listing)) /\ UnlistedNode(p)
    <3>1. p \notin Paths(listing)
      BY <1>1, <2>3 DEF Unlisted, Paths
    <3>2. ~node[p].diff /\ node[p].filled = IF p \in DOMAIN seen THEN {"fs"} ELSE {}
      BY <2>3 DEF UnlistedNode
    <3> QED
      BY <2>1, <3>1, <3>2 DEF Mark
  <2> QED
    BY <1>0, <1>1, <2>2, <2>3 DEF NodeInv
<1>5. ASSUME NEW x PROVE x \in Report <=> x \in Comparison
  <2>1. ASSUME x \in Report PROVE x \in Comparison
    <3>1. PICK p \in DOMAIN node : \E m \in Mark(node[p]) : x = <<m, p>>
      BY <2>1, InReport
    <3> QED
      BY <1>3, <1>4, <3>1
  <2>2. ASSUME x \in Comparison PROVE x \in Report
    <3>1. CASE \E p \in both : ~same(p) /\ x = <<"changed", p>>
      BY <1>2, <1>4, <3>1, InReport
    <3>2. CASE "others" \in shown /\ \E p \in both : same(p) /\ x = <<"same", p>>
      BY <1>2, <1>4, <3>2, InReport
    <3>3. CASE "new" \in shown /\ \E p \in DOMAIN seen \ Paths(listing) : x = <<"new", p>>
      BY <1>2, <1>4, <3>3, InReport
    <3>4. CASE "old" \in shown /\ \E p \in Paths(listing) \ DOMAIN seen : x = <<"old", p>>
      BY <1>2, <1>4, <3>4, InReport
    <3> QED
      BY <1>3, <2>2, <3>1, <3>2, <3>3, <3>4
  <2> QED
    BY <2>1, <2>2
<1>6. \A x \in Report : x \in Comparison
  BY <1>5
<1>7. \A x \in Comparison : x \in Report
  BY <1>5
<1> QED
  BY <1>6, <1>7 DEF Report, Comparison

(* For any list that names directories first and any file system, in any    *)
(* order of the walk and whatever goes away meanwhile: what signfs prints   *)
(* is the comparison of the last line on each path with what was seen.     *)
THEOREM ReportIsRight == SignSpec => []ReportIsComparison
<1>1. SgInv => ReportIsComparison
  BY ReportCompares DEF ReportIsComparison
<1> QED
  BY <1>1, SignInitial, SignKept, PTL DEF SignSpec

------------------------------------------------------------------------------
(* flx: a line is read back as it was written.                             *)

LEMMA LeastNat ==
  ASSUME NEW T \in SUBSET Nat, T # {}
  PROVE  \E n \in T : \A m \in T : n <= m
<1> DEFINE R == OpToRel(<, Nat)
<1>1. \E x \in T : \A y \in T : ~ (<<y, x>> \in R)
  <2>1. IsWellFoundedOn(R, Nat)
    BY NatLessThanWellFounded
  <2> HIDE DEF R
  <2> QED  BY <2>1, WFMin
<1>2. \A x, y \in Nat : <<y, x>> \notin R => x <= y
  BY DEF OpToRel
<1> HIDE DEF R
<1> QED  BY <1>1, <1>2

(* A property of 0 that goes from each number to the next is of all up to n.*)
LEMMA CountUp ==
  ASSUME NEW n \in Nat, NEW T, 0 \in T,
         \A i \in 1 .. n : i - 1 \in T => i \in T
  PROVE  0 .. n \subseteq T
<1> SUFFICES ASSUME (0 .. n) \ T # {} PROVE FALSE
  OBVIOUS
<1>1. PICK i \in (0 .. n) \ T : \A m \in (0 .. n) \ T : i <= m
  <2> (0 .. n) \ T \in SUBSET Nat
    OBVIOUS
  <2> QED
    BY LeastNat
<1>2. i # 0 /\ i \in 1 .. n /\ i - 1 \in 0 .. n /\ ~(i <= i - 1)
  BY <1>1
<1> QED
  BY <1>1, <1>2

(* A function is given by its value at 0 and a step to each number.        *)
Follows(f, n, a, h) ==
  /\ f = [i \in 0 .. n |-> f[i]]
  /\ f[0] = a
  /\ \A i \in 1 .. n : f[i] = h[i][f[i - 1]]

LEMMA Recursion ==
  ASSUME NEW n \in Nat, NEW a, NEW h
  PROVE  \E f : Follows(f, n, a, h)
<1> DEFINE Ok(f, k) == /\ f = [i \in 0 .. n |-> f[i]]
                       /\ f[0] = a
                       /\ \A i \in 1 .. k : f[i] = h[i][f[i - 1]]
           T == {k \in 0 .. n : \E f : Ok(f, k)}
<1>1. 0 \in T
  <2>1. Ok([i \in 0 .. n |-> a], 0) /\ 0 \in 0 .. n
    OBVIOUS
  <2> QED
    BY <2>1
<1>2. ASSUME NEW k \in 1 .. n, k - 1 \in T
      PROVE  k \in T
  <2>1. PICK f : Ok(f, k - 1)
    BY <1>2
  <2> DEFINE g == [i \in 0 .. n |-> IF i = k THEN h[k][f[k - 1]] ELSE f[i]]
  <2>2. k \in 0 .. n
    OBVIOUS
  <2>3. g = [i \in 0 .. n |-> g[i]]
    OBVIOUS
  <2>4. g[k] = h[k][f[k - 1]] /\ \A i \in 0 .. n : i # k => g[i] = f[i]
    BY <2>2
  <2> HIDE DEF g
  <2>5. g[0] = a
    BY <2>1, <2>4
  <2>6. ASSUME NEW i \in 1 .. k PROVE g[i] = h[i][g[i - 1]]
    <3>1. CASE i = k
      <4> i - 1 # k /\ i - 1 \in 0 .. n
        BY <3>1
      <4> QED
        BY <2>4, <3>1
    <3>2. CASE i # k
      <4> i \in 1 .. k - 1 /\ i \in 0 .. n /\ i - 1 \in 0 .. n /\ i - 1 # k
        BY <3>2
      <4> QED
        BY <2>1, <2>4, <3>2
    <3> QED
      BY <3>1, <3>2
  <2> QED
    BY <2>2, <2>3, <2>5, <2>6
<1>3. n \in T
  <2> HIDE DEF T
  <2> n \in 0 .. n
    OBVIOUS
  <2> QED
    BY <1>1, <1>2, CountUp
<1>4. PICK f : Ok(f, n)
  BY <1>3
<1> QED
  BY <1>4 DEF Follows

-----------------------------------------------------------------------------
(* A line of a list (SignLine).                                            *)

(* The rounds of the loop over the characters of a field.                  *)
Loop(s, k, f) ==
  /\ f[0] = [value |-> <<>>, at |-> k, open |-> TRUE]
  /\ \A n \in 1 .. Len(s) + 1 : f[n] = ReadChar(s, f[n - 1])
  /\ Field(s, k) = f[Len(s) + 1]

(* A field is what these rounds come to.                                    *)
LEMMA FieldIs ==
  ASSUME NEW s, Len(s) \in Nat, NEW k
  PROVE  \E f : Loop(s, k, f)
<1> DEFINE N == Len(s) + 1
           start == [value |-> <<>>, at |-> k, open |-> TRUE]
           Rule(f) == f = [n \in 0 .. N |-> IF n = 0 THEN start ELSE ReadChar(s, f[n - 1])]
           Ok(f, m) == /\ f = [n \in 0 .. N |-> f[n]]
                       /\ f[0] = start
                       /\ \A n \in 1 .. m : f[n] = ReadChar(s, f[n - 1])
           T == {m \in 0 .. N : \E f : Ok(f, m)}
           field == CHOOSE f : Rule(f)
<1>1. N \in Nat
  OBVIOUS
<1> HIDE DEF N, start
<1>2. 0 \in T
  <2> DEFINE g == [n \in 0 .. N |-> start]
  <2>1. 0 \in 0 .. N /\ g = [n \in 0 .. N |-> g[n]] /\ g[0] = start
    BY <1>1
  <2>2. Ok(g, 0)
    BY <2>1
  <2> QED
    BY <2>1, <2>2
<1>3. ASSUME NEW m \in 1 .. N, m - 1 \in T
      PROVE  m \in T
  <2>1. PICK f : Ok(f, m - 1)
    BY <1>3
  <2> DEFINE g == [n \in 0 .. N |-> IF n = m THEN ReadChar(s, f[m - 1]) ELSE f[n]]
  <2>2. m \in 0 .. N /\ 0 \in 0 .. N /\ 0 # m
    BY <1>1
  <2>3. g = [n \in 0 .. N |-> g[n]]
    OBVIOUS
  <2>4. g[m] = ReadChar(s, f[m - 1]) /\ \A n \in 0 .. N : n # m => g[n] = f[n]
    BY <2>2
  <2> HIDE DEF g
  <2>5. g[0] = start
    BY <2>1, <2>2, <2>4
  <2>6. ASSUME NEW n \in 1 .. m PROVE g[n] = ReadChar(s, g[n - 1])
    <3>1. n - 1 # m /\ n - 1 \in 0 .. N /\ n \in 0 .. N
      BY <1>1
    <3>2. g[n - 1] = f[n - 1]
      BY <2>4, <3>1
    <3>3. CASE n = m
      BY <2>4, <3>2, <3>3
    <3>4. CASE n # m
      <4>1. n \in 1 .. m - 1
        BY <3>4
      <4> QED
        BY <2>1, <2>4, <3>1, <3>2, <3>4, <4>1
    <3> QED
      BY <3>3, <3>4
  <2>7. Ok(g, m)
    BY <2>3, <2>5, <2>6
  <2> QED
    BY <2>2, <2>7
<1>4. N \in T
  <2> HIDE DEF T
  <2>1. 0 .. N \subseteq T
    BY <1>1, <1>2, <1>3, CountUp
  <2> QED
    BY <1>1, <2>1
<1>5. PICK f : Ok(f, N)
  BY <1>4
<1>6. Rule(f)
  <2>1. \A n \in 0 .. N : n = 0 \/ (n # 0 /\ n \in 1 .. N)
    BY <1>1
  <2>2. \A n \in 0 .. N : f[n] = IF n = 0 THEN start ELSE ReadChar(s, f[n - 1])
    BY <1>5, <2>1
  <2> QED
    BY <1>5, <2>2
<1>7. Rule(field)
  BY <1>6
<1> HIDE DEF field
<1>8. field[0] = start
  <2>1. 0 \in 0 .. N
    BY <1>1
  <2> QED
    BY <1>7, <2>1
<1>9. \A n \in 1 .. N : field[n] = ReadChar(s, field[n - 1])
  <2>1. \A n \in 1 .. N : n \in 0 .. N /\ n # 0
    BY <1>1
  <2> QED
    BY <1>7, <2>1
<1>10. Field(s, k) = field[N]
  BY DEF Field, field, N, start
<1> QED
  BY <1>8, <1>9, <1>10 DEF Loop, N, start

(* Everything a line consists of.                                          *)
Letters == STRING \cup Hex \cup {"percent", "space", "(", ")", "m", "r", "t", "d", "h"}

(* What one character is written as.                                       *)
Piece(c) == IF c \in Escaped THEN <<"percent">> \o Digits[c] ELSE <<c>>

(* The first characters of a text, as they are written.                    *)
Pieces(t, F) ==
  /\ F[0] = <<>>
  /\ \A i \in 1 .. Len(t) : F[i - 1] \in Seq(Letters) /\ F[i] = F[i - 1] \o Piece(t[i])
  /\ F[Len(t)] \in Seq(Letters)
  /\ Escape(t) = F[Len(t)]

(* The escaped characters, and that their digits tell them apart.           *)
LEMMA DigitsAre ==
  /\ Escaped = {"space", "percent", "dollar", "backslash", "high"}
  /\ \A c \in Escaped : /\ Digits[c] = <<Digits[c][1], Digits[c][2]>>
                        /\ Len(Digits[c]) = 2
                        /\ Digits[c][1] \in Hex /\ Digits[c][2] \in Hex
                        /\ Digits[c][1] \in Letters /\ Digits[c][2] \in Letters
  /\ \A c, d \in Escaped : Digits[c] = Digits[d] => c = d
<1>1. Escaped = {"space", "percent", "dollar", "backslash", "high"}
  BY DEF Escaped, Digits
<1>2. /\ Digits["space"] = <<"2", "0">> /\ Digits["percent"] = <<"2", "5">>
      /\ Digits["dollar"] = <<"2", "4">> /\ Digits["backslash"] = <<"5", "c">>
      /\ Digits["high"] = <<"e", "9">>
  BY DEF Digits
<1>3. \A x, y : <<x, y>>[1] = x /\ <<x, y>>[2] = y /\ Len(<<x, y>>) = 2
  OBVIOUS
<1>4. \A c \in Escaped : /\ Digits[c] = <<Digits[c][1], Digits[c][2]>>
                         /\ Len(Digits[c]) = 2
                         /\ Digits[c][1] \in Hex /\ Digits[c][2] \in Hex
                         /\ Digits[c][1] \in Letters /\ Digits[c][2] \in Letters
  <2>1. ASSUME NEW x \in Hex, NEW y \in Hex, NEW d, d = <<x, y>>
        PROVE  /\ d = <<d[1], d[2]>> /\ Len(d) = 2 /\ d[1] \in Hex /\ d[2] \in Hex
               /\ d[1] \in Letters /\ d[2] \in Letters
    <3>1. d[1] = x /\ d[2] = y /\ Len(d) = 2
      BY <1>3, <2>1
    <3>2. x \in Letters /\ y \in Letters
      BY DEF Letters
    <3> QED
      BY <2>1, <3>1, <3>2
  <2>2. /\ "0" \in Hex /\ "2" \in Hex /\ "4" \in Hex /\ "5" \in Hex
        /\ "9" \in Hex /\ "c" \in Hex /\ "e" \in Hex
    BY DEF Hex
  <2>3. \A c \in Escaped : \E x, y \in Hex : Digits[c] = <<x, y>>
    BY <1>1, <1>2, <2>2
  <2> QED
    BY <2>1, <2>3
<1>5. \A c, d \in Escaped : Digits[c] = Digits[d] => c = d
  BY <1>1, <1>2
<1> QED
  BY <1>1, <1>4, <1>5

(* A character is written as itself, or as three.                          *)
LEMMA PieceIs ==
  ASSUME NEW c \in Letters
  PROVE  /\ Piece(c) \in Seq(Letters)
         /\ c \notin Escaped => Piece(c) = <<c>> /\ Len(Piece(c)) = 1 /\ Piece(c)[1] = c
         /\ c \in Escaped => /\ Len(Piece(c)) = 3
                             /\ Piece(c)[1] = "percent"
                             /\ Piece(c)[2] = Digits[c][1] /\ Piece(c)[3] = Digits[c][2]
<1>1. CASE c \notin Escaped
  <2>1. <<c>> \in Seq(Letters) /\ Len(<<c>>) = 1 /\ <<c>>[1] = c
    OBVIOUS
  <2> QED
    BY <1>1, <2>1 DEF Piece
<1>2. CASE c \in Escaped
  <2> DEFINE x == Digits[c][1]
             y == Digits[c][2]
  <2>1. Digits[c] = <<x, y>> /\ x \in Letters /\ y \in Letters
    BY <1>2, DigitsAre
  <2>2. Piece(c) = <<"percent">> \o <<x, y>>
    BY <1>2, <2>1 DEF Piece
  <2> DEFINE p == <<"percent">>
             d == <<x, y>>
  <2> HIDE DEF x, y
  <2>3. "percent" \in Letters
    BY DEF Letters
  <2>4. /\ p \in Seq(Letters) /\ Len(p) = 1 /\ p[1] = "percent"
        /\ d \in Seq(Letters) /\ Len(d) = 2 /\ d[1] = x /\ d[2] = y
    BY <2>1, <2>3
  <2> HIDE DEF p, d
  <2>5. /\ p \o d \in Seq(Letters) /\ Len(p \o d) = 3
        /\ (p \o d)[1] = p[1] /\ (p \o d)[1 + 1] = d[1] /\ (p \o d)[1 + 2] = d[2]
    <3>1. /\ p \o d \in Seq(Letters)
          /\ Len(p \o d) = Len(p) + Len(d)
          /\ \A i \in 1 .. Len(p) + Len(d) :
               (p \o d)[i] = IF i <= Len(p) THEN p[i] ELSE d[i - Len(p)]
      BY <2>4, ConcatProperties
    <3>2. \A i \in 1 .. 3 : (p \o d)[i] = IF i <= 1 THEN p[i] ELSE d[i - 1]
      BY <2>4, <3>1
    <3>3. (p \o d)[1] = p[1] /\ (p \o d)[2] = d[1] /\ (p \o d)[3] = d[2]
      <4>1. /\ 1 \in 1 .. 3 /\ 1 <= 1 /\ 2 \in 1 .. 3 /\ ~(2 <= 1) /\ 2 - 1 = 1
            /\ 3 \in 1 .. 3 /\ ~(3 <= 1) /\ 3 - 1 = 2
        OBVIOUS
      <4> DEFINE pd == p \o d
      <4>2. \A i \in 1 .. 3 : pd[i] = IF i <= 1 THEN p[i] ELSE d[i - 1]
        BY <3>2
      <4> HIDE DEF pd
      <4>3. pd[1] = p[1] /\ pd[2] = d[1] /\ pd[3] = d[2]
        BY ONLY <4>1, <4>2
      <4> QED
        BY <4>3 DEF pd
    <3> QED
      BY <2>4, <3>1, <3>3
  <2>6. 1 + 1 = 2 /\ 1 + 2 = 3
    OBVIOUS
  <2> QED
    BY <1>2, <2>2, <2>4, <2>5, <2>6 DEF x, y, p, d
<1> QED
  BY <1>1, <1>2

(* Every text is written piece after piece.                                *)
LEMMA PiecesExist ==
  ASSUME NEW t \in Seq(Letters)
  PROVE  \E F : Pieces(t, F)
<1> DEFINE n == Len(t)
           seqs == [i \in DOMAIN t |->
                      IF t[i] \in Escaped THEN <<"percent">> \o Digits[t[i]] ELSE <<t[i]>>]
           Rule(f) == f = [i \in 1 .. n |-> IF i = 1 THEN seqs[i] ELSE f[i - 1] \o seqs[i]]
           Ok(f, m) == /\ f = [i \in 0 .. n |-> f[i]]
                       /\ f[0] = <<>>
                       /\ \A i \in 1 .. m : f[i] = f[i - 1] \o seqs[i]
                       /\ \A i \in 0 .. m : f[i] \in Seq(Letters)
           T == {m \in 0 .. n : \E f : Ok(f, m)}
           flat == CHOOSE f : Rule(f)
<1>1. n \in Nat /\ DOMAIN t = 1 .. n /\ \A i \in 1 .. n : t[i] \in Letters
  OBVIOUS
<1>2. \A i \in 1 .. n : seqs[i] = Piece(t[i]) /\ seqs[i] \in Seq(Letters)
  BY <1>1, PieceIs DEF Piece
<1>3. Len(seqs) = n /\ seqs = [i \in 1 .. n |-> seqs[i]]
  BY <1>1
<1> HIDE DEF n, seqs
<1>4. 0 \in T
  <2> DEFINE g == [i \in 0 .. n |-> <<>>]
  <2>1. 0 \in 0 .. n /\ g = [i \in 0 .. n |-> g[i]] /\ g[0] = <<>>
    BY <1>1
  <2>2. <<>> \in Seq(Letters) /\ \A i \in 0 .. 0 : i = 0
    OBVIOUS
  <2>3. Ok(g, 0)
    BY <2>1, <2>2
  <2> QED
    BY <2>1, <2>3
<1>5. ASSUME NEW m \in 1 .. n, m - 1 \in T
      PROVE  m \in T
  <2>1. PICK f : Ok(f, m - 1)
    BY <1>5
  <2> DEFINE g == [i \in 0 .. n |-> IF i = m THEN f[m - 1] \o seqs[m] ELSE f[i]]
  <2>2. m \in 0 .. n /\ 0 \in 0 .. n /\ 0 # m /\ m - 1 \in 0 .. m - 1
    BY <1>1
  <2>3. g = [i \in 0 .. n |-> g[i]]
    OBVIOUS
  <2>4. g[m] = f[m - 1] \o seqs[m] /\ \A i \in 0 .. n : i # m => g[i] = f[i]
    BY <2>2
  <2> HIDE DEF g
  <2>5. g[0] = <<>>
    BY <2>1, <2>2, <2>4
  <2>6. ASSUME NEW i \in 1 .. m PROVE g[i] = g[i - 1] \o seqs[i]
    <3>1. i - 1 # m /\ i - 1 \in 0 .. n /\ i \in 0 .. n
      BY <1>1
    <3>2. g[i - 1] = f[i - 1]
      BY <2>4, <3>1
    <3>3. CASE i = m
      BY <2>4, <3>2, <3>3
    <3>4. CASE i # m
      <4>1. i \in 1 .. m - 1
        BY <3>4
      <4> QED
        BY <2>1, <2>4, <3>1, <3>2, <3>4, <4>1
    <3> QED
      BY <3>3, <3>4
  <2>7. \A i \in 0 .. m : g[i] \in Seq(Letters)
    <3>1. \A i \in 0 .. m : i \in 0 .. n /\ (i = m \/ (i # m /\ i \in 0 .. m - 1))
      BY <1>1
    <3>2. f[m - 1] \in Seq(Letters)
      BY <2>1, <2>2
    <3>3. f[m - 1] \o seqs[m] \in Seq(Letters)
      BY <1>2, <3>2, ConcatProperties
    <3> QED
      BY <2>1, <2>4, <3>1, <3>3
  <2>8. Ok(g, m)
    BY <2>3, <2>5, <2>6, <2>7
  <2> QED
    BY <2>2, <2>8
<1>6. n \in T
  <2> HIDE DEF T
  <2>1. 0 .. n \subseteq T
    BY <1>1, <1>4, <1>5, CountUp
  <2> QED
    BY <1>1, <2>1
<1>7. PICK f : Ok(f, n)
  BY <1>6
<1>8. \A i \in 1 .. n : f[i] = f[i - 1] \o seqs[i] /\ i - 1 \in 0 .. n
  <2>1. \A i \in 1 .. n : i - 1 \in 0 .. n
    BY <1>1
  <2> QED
    BY <1>7, <2>1
<1>9. f[n] \in Seq(Letters)
  <2>1. n \in 0 .. n
    BY <1>1
  <2> QED
    BY <1>7, <2>1
<1>10. Escape(t) = f[n]
  <2>1. Escape(t) = FlattenSeq(seqs)
    BY DEF Escape, seqs
  <2>2. CASE n = 0
    <3>1. FlattenSeq(seqs) = seqs
      BY <1>3, <2>2 DEF FlattenSeq
    <3>2. seqs = <<>>
      BY <1>3, <2>2
    <3> QED
      BY <1>7, <2>1, <2>2, <3>1, <3>2
  <2>3. CASE n # 0
    <3> DEFINE g == [i \in 1 .. n |-> f[i]]
    <3>1. \A i \in 1 .. n : f[i] = IF i = 1 THEN seqs[i] ELSE f[i - 1] \o seqs[i]
      <4>1. \A i \in 1 .. n : <<>> \o seqs[i] = seqs[i]
        BY <1>2, ConcatEmptySeq
      <4>2. f[1 - 1] = <<>>
        <5> 1 - 1 = 0
          OBVIOUS
        <5> QED
          BY <1>7
      <4>3. \A i \in 1 .. n : f[i] = f[i - 1] \o seqs[i]
        BY <1>8
      <4> HIDE DEF Ok
      <4> QED
        BY ONLY <4>1, <4>2, <4>3
    <3>2. \A i \in 1 .. n : i = 1 \/ i - 1 \in 1 .. n
      BY <1>1
    <3>3. \A i \in 1 .. n : g[i] = f[i]
      OBVIOUS
    <3>4. g = [i \in 1 .. n |-> g[i]]
      OBVIOUS
    <3> HIDE DEF g
    <3>5. \A i \in 1 .. n : g[i] = IF i = 1 THEN seqs[i] ELSE g[i - 1] \o seqs[i]
      BY <3>1, <3>2, <3>3
    <3>6. Rule(g)
      BY <3>4, <3>5
    <3>7. Rule(flat)
      BY <3>6
    <3> HIDE DEF flat
    <3> DEFINE U == {i \in 0 .. n : i = 0 \/ flat[i] = f[i]}
    <3>8. 0 .. n \subseteq U
      <4>1. 0 \in U
        BY <1>1
      <4>2. ASSUME NEW i \in 1 .. n, i - 1 \in U PROVE i \in U
        <5>1. flat[i] = IF i = 1 THEN seqs[i] ELSE flat[i - 1] \o seqs[i]
          BY <3>7
        <5>2. i = 1 \/ i - 1 # 0
          BY <1>1
        <5>3. i \in 0 .. n
          BY <1>1
        <5> QED
          BY <3>1, <4>2, <5>1, <5>2, <5>3
      <4> HIDE DEF U
      <4> QED
        BY <1>1, <4>1, <4>2, CountUp
    <3>9. flat[n] = f[n]
      <4>1. n \in 0 .. n
        BY <1>1
      <4> QED
        BY <2>3, <3>8, <4>1
    <3>10. FlattenSeq(seqs) = flat[n]
      BY <1>3, <2>3 DEF FlattenSeq, flat
    <3> QED
      BY <2>1, <3>9, <3>10
  <2> QED
    BY <2>2, <2>3
<1>11. Pieces(t, f)
  <2>1. \A i \in 1 .. n : f[i - 1] \in Seq(Letters) /\ f[i] = f[i - 1] \o Piece(t[i])
    BY <1>2, <1>7, <1>8
  <2> QED
    BY <1>7, <1>9, <1>10, <2>1 DEF Pieces, n
<1> QED
  BY <1>11

(* Each character is where the first pieces end.                           *)
Lies(s, b, t, F) ==
  /\ \A i \in 0 .. Len(t) : Len(F[i]) \in Nat
  /\ b + Len(F[Len(t)]) <= Len(s)
  /\ \A i \in 1 .. Len(t) :
       /\ Len(F[i]) = Len(F[i - 1]) + Len(Piece(t[i]))
       /\ b + Len(F[i]) <= Len(s)
       /\ \A j \in 1 .. Len(Piece(t[i])) : s[b + Len(F[i - 1]) + j] = Piece(t[i])[j]

(* A text as it is written, with what stands before and after it.          *)
Written(s, p, t, q) == s = (p \o Escape(t)) \o q
Located(s, p, t, q, F) ==
  /\ s \in Seq(Letters) /\ Len(s) = Len(p) + Len(F[Len(t)]) + Len(q)
  /\ Lies(s, Len(p), t, F)
  /\ \A j \in 1 .. Len(q) : s[Len(p) + Len(F[Len(t)]) + j] = q[j]
  /\ \A j \in 1 .. Len(p) : s[j] = p[j]

(* The pieces of a text are found where it was written.                    *)
LEMMA EscapedLies ==
  ASSUME NEW t \in Seq(Letters), NEW F, Pieces(t, F),
         NEW p \in Seq(Letters), NEW q \in Seq(Letters), NEW s, Written(s, p, t, q)
  PROVE  Located(s, p, t, q, F)
<1> DEFINE n == Len(t)
           e == F[n]
           b == Len(p)
<1>1. n \in Nat /\ \A i \in 1 .. n : t[i] \in Letters
  OBVIOUS
<1>2. /\ \A i \in 1 .. n : F[i - 1] \in Seq(Letters) /\ F[i] = F[i - 1] \o Piece(t[i])
      /\ e \in Seq(Letters) /\ Escape(t) = e
  BY DEF Pieces
<1>3. b \in Nat /\ Len(q) \in Nat /\ Len(e) \in Nat
  BY <1>2
<1>4. \A i \in 0 .. n : F[i] \in Seq(Letters) /\ Len(F[i]) \in Nat
  <2>1. \A i \in 0 .. n : i = n \/ (i + 1 \in 1 .. n /\ (i + 1) - 1 = i)
    BY <1>1
  <2>2. \A i \in 0 .. n : F[i] \in Seq(Letters)
    BY <1>2, <2>1
  <2> QED
    BY <2>2
<1>5. \A i \in 1 .. n : Piece(t[i]) \in Seq(Letters) /\ Len(Piece(t[i])) \in Nat
  BY <1>1, PieceIs
<1> HIDE DEF n
<1>6. ASSUME NEW i \in 1 .. n
      PROVE  /\ Len(F[i]) = Len(F[i - 1]) + Len(Piece(t[i]))
             /\ \A k \in 1 .. Len(F[i - 1]) : F[i][k] = F[i - 1][k]
             /\ \A k \in 1 .. Len(Piece(t[i])) : F[i][Len(F[i - 1]) + k] = Piece(t[i])[k]
             /\ Len(F[i - 1]) \in Nat
  <2> DEFINE u == F[i - 1]
             v == Piece(t[i])
  <2>1. u \in Seq(Letters) /\ v \in Seq(Letters) /\ F[i] = u \o v
    BY <1>2, <1>5
  <2>2. Len(u) \in Nat /\ Len(v) \in Nat
    BY <2>1
  <2> HIDE DEF u, v
  <2>3. /\ Len(u \o v) = Len(u) + Len(v)
        /\ \A k \in 1 .. Len(u) + Len(v) : (u \o v)[k] = IF k <= Len(u) THEN u[k] ELSE v[k - Len(u)]
    BY <2>1, ConcatProperties
  <2>4. \A k \in 1 .. Len(u) : k \in 1 .. Len(u) + Len(v) /\ k <= Len(u)
    BY <2>2
  <2>5. \A k \in 1 .. Len(v) : /\ Len(u) + k \in 1 .. Len(u) + Len(v) /\ ~(Len(u) + k <= Len(u))
                               /\ (Len(u) + k) - Len(u) = k
    BY <2>2
  <2>6. \A k \in 1 .. Len(u) : F[i][k] = u[k]
    BY <2>1, <2>3, <2>4
  <2>7. \A k \in 1 .. Len(v) : F[i][Len(u) + k] = v[k]
    BY <2>1, <2>3, <2>5
  <2> QED
    BY <2>1, <2>2, <2>3, <2>6, <2>7 DEF u, v
<1>7. ASSUME NEW i \in 0 .. n
      PROVE  Len(F[i]) <= Len(e) /\ \A k \in 1 .. Len(F[i]) : e[k] = F[i][k]
  <2> DEFINE T == {m \in 0 .. n : m >= i => /\ Len(F[i]) <= Len(F[m])
                                            /\ \A k \in 1 .. Len(F[i]) : F[m][k] = F[i][k]}
  <2>1. 0 \in T
    <3>1. 0 >= i => i = 0
      BY <1>1
    <3>2. 0 \in 0 .. n /\ Len(F[0]) <= Len(F[0])
      BY <1>1, <1>4
    <3> QED
      BY <3>1, <3>2
  <2>2. ASSUME NEW m \in 1 .. n, m - 1 \in T PROVE m \in T
    <3>1. m \in 0 .. n /\ m - 1 \in 0 .. n
      BY <1>1
    <3>2. CASE m < i
      <4>1. ~(m >= i)
        BY <1>1, <3>2
      <4> QED
        BY <3>1, <4>1
    <3>3. CASE m = i
      BY <1>4, <3>1, <3>3
    <3>4. CASE m > i
      <4>1. m - 1 >= i
        BY <1>1, <3>4
      <4>2. Len(F[i]) <= Len(F[m - 1]) /\ \A k \in 1 .. Len(F[i]) : F[m - 1][k] = F[i][k]
        BY <2>2, <4>1
      <4>3. Len(F[i]) \in Nat /\ Len(F[m - 1]) \in Nat /\ Len(Piece(t[m])) \in Nat
        BY <1>4, <1>5, <3>1
      <4>4. \A k \in 1 .. Len(F[i]) : k \in 1 .. Len(F[m - 1])
        BY <4>2, <4>3
      <4>5. \A k \in 1 .. Len(F[i]) : F[m][k] = F[i][k]
        BY <1>6, <4>2, <4>4
      <4>6. Len(F[i]) <= Len(F[m])
        <5>1. \A x, y, z \in Nat : x <= y => x <= y + z
          OBVIOUS
        <5> QED
          BY <1>6, <4>2, <4>3, <5>1
      <4> QED
        BY <3>1, <4>5, <4>6
    <3> QED
      BY <1>1, <3>2, <3>3, <3>4
  <2> HIDE DEF T
  <2>3. 0 .. n \subseteq T
    BY <1>1, <2>1, <2>2, CountUp
  <2>4. n \in T /\ n >= i
    BY <1>1, <2>3
  <2> QED
    BY <2>4 DEF T
<1>8. \A i \in 1 .. n : \A j \in 1 .. Len(Piece(t[i])) :
        Len(F[i - 1]) + j \in 1 .. Len(F[i]) /\ e[Len(F[i - 1]) + j] = Piece(t[i])[j]
  <2> TAKE i \in 1 .. n
  <2> TAKE j \in 1 .. Len(Piece(t[i]))
  <2>1. Len(F[i - 1]) + j \in 1 .. Len(F[i])
    <3> DEFINE x == Len(F[i - 1])
               y == Len(Piece(t[i]))
               z == Len(F[i])
    <3>1. x \in Nat /\ y \in Nat /\ z = x + y /\ j \in 1 .. y
      BY <1>5, <1>6
    <3> HIDE DEF x, y, z
    <3>2. x + j \in 1 .. z
      BY <3>1
    <3> QED
      BY <3>2 DEF x, z
  <2>2. i \in 0 .. n
    BY <1>1
  <2>3. e[Len(F[i - 1]) + j] = F[i][Len(F[i - 1]) + j]
    BY <1>7, <2>1, <2>2
  <2> QED
    BY <1>6, <2>1, <2>3
<1> HIDE DEF e, b
<1>9. s = (p \o e) \o q
  BY <1>2 DEF Written
<1>10. /\ p \o e \in Seq(Letters) /\ Len(p \o e) = b + Len(e)
       /\ \A k \in 1 .. b + Len(e) : (p \o e)[k] = IF k <= b THEN p[k] ELSE e[k - b]
  BY <1>2, ConcatProperties DEF b
<1>11. /\ s \in Seq(Letters) /\ Len(s) = (b + Len(e)) + Len(q)
       /\ \A k \in 1 .. (b + Len(e)) + Len(q) :
            s[k] = IF k <= b + Len(e) THEN (p \o e)[k] ELSE q[k - (b + Len(e))]
  BY <1>9, <1>10, ConcatProperties
<1>12. \A j \in 1 .. b : s[j] = p[j]
  <2>1. \A j \in 1 .. b : /\ j \in 1 .. (b + Len(e)) + Len(q) /\ j <= b + Len(e)
                          /\ j \in 1 .. b + Len(e) /\ j <= b
    BY <1>3
  <2> QED
    BY <1>10, <1>11, <2>1
<1>13. \A j \in 1 .. Len(e) : s[b + j] = e[j]
  <2>1. \A j \in 1 .. Len(e) : /\ b + j \in 1 .. (b + Len(e)) + Len(q) /\ b + j <= b + Len(e)
                               /\ b + j \in 1 .. b + Len(e) /\ ~(b + j <= b) /\ (b + j) - b = j
    BY <1>3
  <2> QED
    BY <1>10, <1>11, <2>1
<1>14. \A j \in 1 .. Len(q) : s[(b + Len(e)) + j] = q[j]
  <2> DEFINE c == b + Len(e)
  <2>1. c \in Nat
    BY <1>3
  <2> HIDE DEF c
  <2>2. \A j \in 1 .. Len(q) : c + j \in 1 .. c + Len(q) /\ ~(c + j <= c) /\ (c + j) - c = j
    BY <1>3, <2>1
  <2>3. \A k \in 1 .. c + Len(q) : s[k] = IF k <= c THEN (p \o e)[k] ELSE q[k - c]
    BY <1>11 DEF c
  <2>4. \A j \in 1 .. Len(q) : s[c + j] = q[j]
    BY <2>2, <2>3
  <2> QED
    BY <2>4 DEF c
<1>15. Lies(s, b, t, F)
  <2>1. \A i \in 0 .. n : b + Len(F[i]) <= Len(s)
    BY <1>3, <1>4, <1>7, <1>11
  <2>2. \A i \in 1 .. n : i \in 0 .. n
    BY <1>1
  <2>3. ASSUME NEW i \in 1 .. n, NEW j \in 1 .. Len(Piece(t[i]))
        PROVE  s[(b + Len(F[i - 1])) + j] = Piece(t[i])[j]
    <3> DEFINE x == Len(F[i - 1])
    <3>1. x \in Nat /\ x + j \in 1 .. Len(F[i]) /\ e[x + j] = Piece(t[i])[j]
      BY <1>6, <1>8
    <3>2. Len(F[i]) \in Nat /\ Len(F[i]) <= Len(e)
      BY <1>4, <1>7, <2>2
    <3> HIDE DEF x
    <3>3. x + j \in 1 .. Len(e) /\ (b + x) + j = b + (x + j)
      <4> DEFINE y == Len(F[i])
                 z == Len(e)
      <4>1. /\ x \in Nat
            /\ y \in Nat
            /\ z \in Nat
            /\ b \in Nat
            /\ x + j \in 1 .. y
            /\ y <= z
        BY <1>3, <3>1, <3>2
      <4>2. j \in Int
        BY <1>5
      <4> HIDE DEF y, z
      <4>3. x + j \in 1 .. z
        BY ONLY <4>1, <4>2
      <4>4. (b + x) + j = b + (x + j)
        BY ONLY <4>1, <4>2
      <4> QED
        BY <4>3, <4>4 DEF z
    <3>4. s[b + (x + j)] = e[x + j]
      BY <1>13, <3>3
    <3> QED
      BY <3>1, <3>3, <3>4 DEF x
  <2>4. b + Len(F[n]) <= Len(s)
    <3> n \in 0 .. n
      BY <1>1
    <3> QED
      BY <2>1
  <2>5. /\ \A i \in 0 .. n : Len(F[i]) \in Nat
        /\ \A i \in 1 .. n : /\ Len(F[i]) = Len(F[i - 1]) + Len(Piece(t[i]))
                             /\ b + Len(F[i]) <= Len(s)
                             /\ \A j \in 1 .. Len(Piece(t[i])) :
                                  s[b + Len(F[i - 1]) + j] = Piece(t[i])[j]
    BY <1>4, <1>6, <2>1, <2>2, <2>3
  <2> QED
    BY <2>4, <2>5 DEF Lies, n
<1>16. Len(s) = b + Len(e) + Len(q)
  BY <1>3, <1>11
<1>17. \A j \in 1 .. Len(q) : s[b + Len(e) + j] = q[j]
  <2>1. \A j \in 1 .. Len(q) : (b + Len(e)) + j = b + Len(e) + j
    BY <1>3
  <2> QED
    BY <1>14, <2>1
<1> QED
  BY <1>11, <1>12, <1>15, <1>16, <1>17 DEF b, e, n, Located

(* The field that was read, and the round that reads its end.              *)
Whole(t, x) == [value |-> t, at |-> x, open |-> FALSE]
EndsAt(s, t, k, x) == ReadChar(s, [value |-> t, at |-> k, open |-> TRUE]) = Whole(t, x)

(* A text is read as it was before it was escaped, up to where it ends.    *)
LEMMA FieldReads ==
  ASSUME NEW t \in Seq(Letters), ~Parenthesis(t),
         NEW F, Pieces(t, F), NEW s, Len(s) \in Nat, NEW b \in Nat, Lies(s, b, t, F),
         NEW x, EndsAt(s, t, b + Len(F[Len(t)]) + 1, x)
  PROVE  Field(s, b + 1) = Whole(t, x)
<1> DEFINE n == Len(t)
           N == Len(s)
           L == [i \in 0 .. n |-> Len(F[i])]
           So(i) == [value |-> SubSeq(t, 1, i), at |-> b + L[i] + 1, open |-> TRUE]
           end == Whole(t, x)
<1>1. n \in Nat /\ N \in Nat /\ \A i \in 1 .. n : t[i] \in Letters /\ t[i] # "("
  BY DEF Parenthesis
<1>2. \A i \in 0 .. n : L[i] = Len(F[i]) /\ L[i] \in Nat
  BY DEF Lies
<1>3. \A i \in 1 .. n : /\ i \in 0 .. n /\ i - 1 \in 0 .. n
                        /\ L[i] = L[i - 1] + Len(Piece(t[i])) /\ b + L[i] <= N
                        /\ \A j \in 1 .. Len(Piece(t[i])) : s[b + L[i - 1] + j] = Piece(t[i])[j]
  <2>1. \A i \in 1 .. n : i \in 0 .. n /\ i - 1 \in 0 .. n
    BY <1>1
  <2> HIDE DEF L
  <2> QED
    BY <1>2, <2>1 DEF Lies
<1>4. L[0] = 0 /\ 0 \in 0 .. n /\ n \in 0 .. n
  <2>1. 0 \in 0 .. n /\ n \in 0 .. n /\ Len(<<>>) = 0
    BY <1>1
  <2> QED
    BY <1>2, <2>1 DEF Pieces
<1>5. ReadChar(s, So(n)) = end
  <2>1. SubSeq(t, 1, n) = t
    OBVIOUS
  <2>2. L[n] = Len(F[n])
    BY <1>2, <1>4
  <2> QED
    BY <2>1, <2>2 DEF EndsAt
<1> HIDE DEF n, N, L
<1>6. ASSUME NEW i \in 1 .. n
      PROVE  ReadChar(s, So(i - 1)) = So(i) /\ L[i] >= L[i - 1] + 1
  <2> DEFINE c == t[i]
             k == b + L[i - 1] + 1
             p == Piece(c)
             v == SubSeq(t, 1, i - 1)
             f == So(i - 1)
  <2>1. c \in Letters /\ c # "(" /\ L[i - 1] \in Nat /\ L[i] \in Nat /\ k \in Nat
    <3>1. L[i - 1] \in Nat /\ L[i] \in Nat
      BY ONLY <1>2, <1>3, i \in 1 .. n
    <3>2. k \in Nat
      BY <3>1
    <3> QED
      BY <1>1, <3>1, <3>2
  <2>2. Append(v, c) = SubSeq(t, 1, i)
    <3>1. t \in Seq(Letters) /\ i \in 1 .. Len(t)
      BY DEF n
    <3> QED
      BY <3>1
  <2>3. f.value = v /\ f.at = k /\ f.open
    OBVIOUS
  <2>4. \A j \in 1 .. Len(p) : s[b + L[i - 1] + j] = p[j]
    BY <1>3
  <2>5. L[i] = L[i - 1] + Len(p) /\ b + L[i] <= N
    BY <1>3
  <2> HIDE DEF c, p, v, f
  <2>6. CASE c \notin Escaped
    <3>1. Len(p) = 1 /\ p[1] = c
      BY <2>1, <2>6, PieceIs DEF p
    <3>2. s[k] = c
      <4> 1 \in 1 .. Len(p)
        BY <3>1
      <4> QED
        BY <2>4, <3>1
    <3>3. L[i] = L[i - 1] + 1 /\ k <= N /\ k + 1 = b + L[i] + 1
      BY <1>1, <2>1, <2>5, <3>1
    <3>4. c # "space" /\ c # "percent" /\ c # "backslash" /\ c # "("
      BY <2>1, <2>6, DigitsAre
    <3>5. ~(k > N)
      BY <1>1, <2>1, <3>3
    <3>6. ReadChar(s, f) = FieldWith(f, c, k + 1)
      <4> HIDE DEF k
      <4> QED
        BY <2>3, <3>2, <3>4, <3>5 DEF ReadChar, N
    <3>7. FieldWith(f, c, k + 1) = So(i)
      BY <2>2, <2>3, <3>3 DEF FieldWith
    <3> QED
      BY <3>3, <3>6, <3>7, <2>1 DEF f
  <2>7. CASE c \in Escaped
    <3> DEFINE d1 == Digits[c][1]
               d2 == Digits[c][2]
    <3>1. Len(p) = 3 /\ p[1] = "percent" /\ p[2] = d1 /\ p[3] = d2
      BY <2>1, <2>7, PieceIs DEF p
    <3>2. Digits[c] = <<d1, d2>> /\ d1 \in Hex /\ d2 \in Hex
      BY <2>7, DigitsAre
    <3>3. Character(d1, d2) = c
      <4>1. \A u, w \in Escaped : Digits[u] = Digits[w] => u = w
        BY DigitsAre
      <4> HIDE DEF d1, d2
      <4>2. \A u \in Escaped : Digits[u] = <<d1, d2>> <=> u = c
        BY <2>7, <3>2, <4>1
      <4> QED
        BY <2>7, <4>2 DEF Character
    <3> HIDE DEF d1, d2
    <3>4. s[k] = "percent" /\ s[k + 1] = d1 /\ s[k + 2] = d2
      <4>1. 1 \in 1 .. Len(p) /\ 2 \in 1 .. Len(p) /\ 3 \in 1 .. Len(p)
        BY <3>1
      <4>2. k + 1 = b + L[i - 1] + 2 /\ k + 2 = b + L[i - 1] + 3
        BY <2>1
      <4> QED
        BY <2>4, <3>1, <4>1, <4>2
    <3>5. /\ L[i] = L[i - 1] + 3
          /\ k + 2 <= N
          /\ k + 3 = b + L[i] + 1
          /\ ~(k > N)
          /\ k + 1 < N
      <4> DEFINE l0 == L[i - 1]
                 l1 == L[i]
      <4>1. /\ b \in Nat
            /\ l0 \in Nat
            /\ l1 \in Nat
            /\ N \in Nat
            /\ k = b + l0 + 1
            /\ l1 = l0 + 3
            /\ b + l1 <= N
        BY <1>1, <2>1, <2>5, <3>1
      <4> HIDE DEF l0, l1, k
      <4>2. k \in Nat
        BY <2>1
      <4>3. k + 3 = b + l1 + 1
        BY ONLY <4>1, <4>2
      <4>4. k + 2 = b + l1
        BY ONLY <4>1, <4>2
      <4>5. k + 2 <= N
        BY ONLY <4>1, <4>4
      <4>6. ~(k > N) /\ k + 1 < N
        BY ONLY <4>1, <4>2, <4>5
      <4> QED
        BY <4>1, <4>3, <4>5, <4>6 DEF l0, l1
    <3>7. ReadChar(s, f) = FieldWith(f, Character(d1, d2), k + 3)
      <4>1. {d1, d2} \subseteq Hex
        BY <3>2
      <4> HIDE DEF k
      <4> QED
        BY <2>3, <3>4, <3>5, <4>1 DEF ReadChar, N
    <3>8. FieldWith(f, c, k + 3) = So(i)
      BY <2>2, <2>3, <3>5 DEF FieldWith
    <3>9. L[i] >= L[i - 1] + 1
      BY <2>1, <3>5
    <3> QED
      BY <3>3, <3>7, <3>8, <3>9 DEF f
  <2> QED
    BY <2>6, <2>7
<1>7. PICK r : Loop(s, b + 1, r)
  BY FieldIs
<1>8. /\ r[0] = [value |-> <<>>, at |-> b + 1, open |-> TRUE]
      /\ \A m \in 1 .. N + 1 : r[m] = ReadChar(s, r[m - 1])
      /\ Field(s, b + 1) = r[N + 1]
  BY <1>7 DEF Loop, N
<1>9. \A i \in 0 .. n : i <= L[i]
  <2> DEFINE T == {i \in 0 .. n : i <= L[i]}
  <2>1. 0 \in T
    BY <1>4
  <2>2. ASSUME NEW i \in 1 .. n, i - 1 \in T PROVE i \in T
    <3>1. i - 1 <= L[i - 1] /\ L[i - 1] \in Nat /\ L[i] \in Nat /\ L[i] >= L[i - 1] + 1 /\ i \in 0 .. n
      BY <1>2, <1>3, <1>6, <2>2
    <3> QED
      BY <3>1
  <2> HIDE DEF T
  <2>3. 0 .. n \subseteq T
    BY <1>1, <2>1, <2>2, CountUp
  <2> QED
    BY <2>3 DEF T
<1>10. n <= N
  <2>1. L[n] \in Nat /\ n <= L[n] /\ b + L[n] <= N
    <3>1. L[n] = Len(F[n]) /\ b + Len(F[n]) <= N
      BY <1>2, <1>4 DEF Lies, n, N
    <3> QED
      BY <1>2, <1>4, <1>9, <3>1
  <2> QED
    BY <1>1, <2>1
<1>11. n \in {m \in 0 .. n : r[m] = So(m)}
  <2> DEFINE T == {m \in 0 .. n : r[m] = So(m)}
  <2>1. 0 \in T
    <3>1. SubSeq(t, 1, 0) = <<>> /\ b + L[0] + 1 = b + 1
      BY <1>4
    <3> QED
      BY <1>4, <1>8, <3>1
  <2>2. ASSUME NEW m \in 1 .. n, m - 1 \in T PROVE m \in T
    <3>1. m \in 1 .. N + 1 /\ m \in 0 .. n
      BY <1>1, <1>10
    <3> QED
      BY <1>6, <1>8, <2>2, <3>1
  <2> HIDE DEF T
  <2>3. 0 .. n \subseteq T
    BY <1>1, <2>1, <2>2, CountUp
  <2> QED
    BY <1>4, <2>3 DEF T
<1>12. r[N + 1] = end
  <2> DEFINE U == {m \in 0 .. N + 1 : m > n => r[m] = end}
  <2>1. 0 \in U
    BY <1>1
  <2>2. ASSUME NEW m \in 1 .. N + 1, m - 1 \in U PROVE m \in U
    <3>1. m \in 0 .. N + 1 /\ r[m] = ReadChar(s, r[m - 1])
      BY <1>1, <1>8
    <3>2. CASE m - 1 = n
      BY <1>5, <1>11, <3>1, <3>2
    <3>3. CASE m - 1 > n
      <4>1. r[m - 1] = end /\ end.open = FALSE
        BY <2>2, <3>3 DEF Whole
      <4>2. ReadChar(s, end) = end
        BY <4>1 DEF ReadChar
      <4> QED
        BY <3>1, <4>1, <4>2
    <3>4. CASE m - 1 < n
      <4>1. ~(m > n)
        BY <1>1, <3>4
      <4> QED
        BY <3>1, <4>1
    <3> QED
      BY <1>1, <3>2, <3>3, <3>4
  <2> HIDE DEF U
  <2>3. 0 .. N + 1 \subseteq U
    <3> N + 1 \in Nat
      BY <1>1
    <3> QED
      BY <2>1, <2>2, CountUp
  <2>4. N + 1 \in 0 .. N + 1 /\ N + 1 > n
    BY <1>1, <1>10
  <2> QED
    BY <2>3, <2>4 DEF U
<1> QED
  BY <1>8, <1>12

(* Where a field ends. *)
LEMMA Ends ==
  ASSUME NEW s, Len(s) \in Nat, NEW t, NEW k \in Nat
  PROVE  /\ k > Len(s) => EndsAt(s, t, k, k)
         /\ k <= Len(s) /\ s[k] = "space" => EndsAt(s, t, k, k + 1)
         /\ k <= Len(s) /\ s[k] = "(" => EndsAt(s, t, k, AfterParenthesis(s, k))
<1> DEFINE f == [value |-> t, at |-> k, open |-> TRUE]
<1>1. f.value = t /\ f.at = k /\ f.open
  OBVIOUS
<1>2. k <= Len(s) => ~(k > Len(s))
  OBVIOUS
<1> HIDE DEF f
<1>3. /\ k > Len(s) => ReadChar(s, f) = FieldEnd(f, k)
      /\ k <= Len(s) /\ s[k] = "space" => ReadChar(s, f) = FieldEnd(f, k + 1)
      /\ k <= Len(s) /\ s[k] = "(" => ReadChar(s, f) = FieldEnd(f, AfterParenthesis(s, k))
  <2>1. "(" # "space"
    OBVIOUS
  <2> QED
    BY <1>1, <1>2, <2>1 DEF ReadChar
<1> QED
  BY <1>1, <1>3 DEF FieldEnd, f, EndsAt, Whole

(* The least element is the one that is not above the others.              *)
LEMMA Least ==
  ASSUME NEW T, NEW x \in T, \A y \in T : x <= y, T \subseteq Int
  PROVE  Min(T) = x
<1>1. \A z \in T : (\A y \in T : z <= y) => z = x
  <2>1. \A z, y \in Int : z <= y /\ y <= z => z = y
    OBVIOUS
  <2> QED
    BY <2>1
<1> QED
  BY <1>1 DEF Min

(* The spaces before a field are passed.                                   *)
LEMMA StrippedIs ==
  ASSUME NEW s, Len(s) \in Nat, NEW k \in Nat
  PROVE  /\ k <= Len(s) /\ s[k] # "space" => Stripped(s, k) = k
         /\ k + 1 <= Len(s) /\ s[k] = "space" /\ s[k + 1] # "space" => Stripped(s, k) = k + 1
         /\ k > Len(s) => Stripped(s, k) = Len(s) + 1
<1> DEFINE T == {j \in k .. Len(s) : s[j] # "space"}
<1>1. Stripped(s, k) = IF T = {} THEN Len(s) + 1 ELSE Min(T)
  BY DEF Stripped
<1>2. T \subseteq Int /\ \A y \in T : k <= y /\ y \in k .. Len(s) /\ s[y] # "space"
  OBVIOUS
<1>3. ASSUME k <= Len(s), s[k] # "space" PROVE Stripped(s, k) = k
  <2>1. k \in T
    BY <1>3
  <2> HIDE DEF T
  <2> QED
    BY <1>1, <1>2, <2>1, Least
<1>4. ASSUME k + 1 <= Len(s), s[k] = "space", s[k + 1] # "space" PROVE Stripped(s, k) = k + 1
  <2>1. k + 1 \in T
    BY <1>4
  <2>2. \A y \in T : k + 1 <= y
    <3>1. \A y \in k .. Len(s) : y = k \/ k + 1 <= y
      OBVIOUS
    <3> QED
      BY <1>2, <1>4, <3>1
  <2> HIDE DEF T
  <2> QED
    BY <1>1, <1>2, <2>1, <2>2, Least
<1>5. ASSUME k > Len(s) PROVE Stripped(s, k) = Len(s) + 1
  <2>1. \A y \in k .. Len(s) : FALSE
    BY <1>5
  <2>2. T = {}
    BY <1>2, <2>1
  <2> QED
    BY <1>1, <2>2
<1> QED
  BY <1>3, <1>4, <1>5

(* What is in parentheses is passed, up to the first that closes.          *)
LEMMA AfterParenthesisIs ==
  ASSUME NEW s, Len(s) \in Nat, NEW k \in Nat, NEW x \in k .. Len(s), s[x] = ")",
         \A y \in k .. x - 1 : s[y] # ")"
  PROVE  AfterParenthesis(s, k) = x + 1
<1> DEFINE T == {j \in k .. Len(s) : s[j] = ")"}
<1>1. AfterParenthesis(s, k) = IF T = {} THEN Len(s) + 1 ELSE Min(T) + 1
  BY DEF AfterParenthesis
<1>2. T \subseteq Int /\ x \in T
  OBVIOUS
<1>3. \A y \in T : x <= y
  <2>1. \A y \in k .. Len(s) : x <= y \/ y \in k .. x - 1
    OBVIOUS
  <2> QED
    BY <2>1
<1> HIDE DEF T
<1>4. Min(T) = x
  BY <1>2, <1>3, Least
<1> QED
  BY <1>1, <1>2, <1>4

(* A field of one letter.                                                  *)
LEMMA LetterReads ==
  ASSUME NEW c \in Letters \ Escaped, c # "(", NEW s, Len(s) \in Nat,
         NEW b \in Nat, b + 1 <= Len(s), s[b + 1] = c,
         NEW x, EndsAt(s, <<c>>, b + 2, x)
  PROVE  Field(s, b + 1) = Whole(<<c>>, x)
<1> DEFINE t == <<c>>
<1>1. t \in Seq(Letters) /\ Len(t) = 1 /\ t[1] = c
  OBVIOUS
<1>2. Piece(c) = <<c>> /\ Len(Piece(c)) = 1 /\ Piece(c)[1] = c /\ Piece(c) \in Seq(Letters)
  BY PieceIs
<1> HIDE DEF t
<1>3. PICK F : Pieces(t, F)
  BY <1>1, PiecesExist
<1>4. \A i \in 1 .. 1 : i = 1 /\ i - 1 = 0
  OBVIOUS
<1>5. F[0] = <<>> /\ F[1] = Piece(c)
  <2>1. F[0] = <<>> /\ F[1] = F[0] \o Piece(c)
    <3>1. 1 \in 1 .. Len(t) /\ 1 - 1 = 0
      BY <1>1
    <3> QED
      BY <1>1, <1>3, <3>1 DEF Pieces
  <2>2. <<>> \o Piece(c) = Piece(c)
    BY <1>2, ConcatEmptySeq
  <2> QED
    BY <2>1, <2>2
<1>6. Len(F[0]) = 0 /\ Len(F[1]) = 1
  BY <1>2, <1>5
<1>7. Lies(s, b, t, F)
  <2>1. \A i \in 0 .. 1 : Len(F[i]) \in Nat
    <3>1. \A i \in 0 .. 1 : i = 0 \/ i = 1
      OBVIOUS
    <3> QED
      BY <1>6, <3>1
  <2>2. b + 0 + 1 = b + 1 /\ 0 + 1 = 1
    OBVIOUS
  <2> QED
    BY <1>1, <1>2, <1>4, <1>6, <2>1, <2>2 DEF Lies
<1>8. b + Len(F[Len(t)]) + 1 = b + 2
  BY <1>1, <1>6
<1>9. ~Parenthesis(t)
  BY <1>1, <1>4 DEF Parenthesis
<1>10. EndsAt(s, t, b + Len(F[Len(t)]) + 1, x)
  BY <1>8 DEF t
<1>11. Field(s, b + 1) = Whole(t, x)
  <2>1. t \in Seq(Letters) /\ Len(s) \in Nat /\ b \in Nat
    BY <1>1
  <2> QED
    BY ONLY <2>1, <1>3, <1>7, <1>9, <1>10, FieldReads
<1> QED
  BY <1>11 DEF t

(* No text is written with a space at its beginning.                       *)
LEMMA FirstWritten ==
  ASSUME NEW t \in Seq(Letters), t # <<>>, NEW F, Pieces(t, F), NEW s, Len(s) \in Nat,
         NEW b \in Nat, Lies(s, b, t, F)
  PROVE  b + 1 <= Len(s) /\ s[b + 1] # "space"
<1>1. 1 \in 1 .. Len(t) /\ 1 \in 0 .. Len(t) /\ 0 \in 0 .. Len(t) /\ t[1] \in Letters /\ 1 - 1 = 0
  OBVIOUS
<1>2. Len(F[0]) = 0
  BY DEF Pieces
<1> DEFINE p == Piece(t[1])
<1>3. Len(p) \in {1, 3} /\ p[1] # "space"
  BY <1>1, PieceIs, DigitsAre
<1>4. /\ Len(F[1]) = Len(F[0]) + Len(p)
      /\ b + Len(F[1]) <= Len(s)
      /\ \A j \in 1 .. Len(p) : s[b + Len(F[0]) + j] = p[j]
  BY <1>1 DEF Lies
<1> HIDE DEF p
<1>5. 1 \in 1 .. Len(p)
  BY <1>3
<1>6. b + Len(F[0]) + 1 = b + 1
  BY <1>2
<1>7. s[b + 1] = p[1]
  BY <1>4, <1>5, <1>6
<1>8. b + 1 <= Len(s)
  <2> DEFINE x == Len(p)
  <2>1. x \in {1, 3} /\ Len(F[1]) = 0 + x /\ b + Len(F[1]) <= Len(s)
    BY <1>2, <1>3, <1>4
  <2> HIDE DEF x
  <2> QED
    BY <2>1
<1> QED
  BY <1>3, <1>7, <1>8

(* What stands before the name.                                            *)
Short == <<"m", "space", "t", "space">>
Long == <<"m", "(", "r", ")", "space", "t", "(", "d", "space", "h", ")", "space">>

(* Without the readable forms: a mode, a time.                              *)
LEMMA ShortIs ==
  /\ Short \in Seq(Letters) /\ Len(Short) = 4
  /\ Short[1] = "m" /\ Short[2] = "space" /\ Short[3] = "t" /\ Short[4] = "space"
  /\ "m" \in Letters \ Escaped /\ "t" \in Letters \ Escaped
<1>1. /\ "m" \in Letters /\ "space" \in Letters /\ "t" \in Letters
  BY DEF Letters
<1>2. "m" \notin Escaped /\ "t" \notin Escaped
  BY DigitsAre
<1> QED
  BY <1>1, <1>2 DEF Short

(* With them: the same, each followed by its form in parentheses.           *)
LEMMA LongIs ==
  /\ Long \in Seq(Letters) /\ Len(Long) = 12
  /\ Long[1] = "m" /\ Long[2] = "(" /\ Long[3] = "r" /\ Long[4] = ")" /\ Long[5] = "space"
  /\ Long[6] = "t" /\ Long[7] = "(" /\ Long[8] = "d" /\ Long[9] = "space" /\ Long[10] = "h"
  /\ Long[11] = ")" /\ Long[12] = "space"
<1>1. /\ "m" \in Letters /\ "space" \in Letters /\ "t" \in Letters /\ "(" \in Letters
      /\ ")" \in Letters /\ "r" \in Letters /\ "d" \in Letters /\ "h" \in Letters
  BY DEF Letters
<1> QED
  BY <1>1 DEF Long

(* The mode and the time are read, and the name begins after them.         *)
MarksAreRead(s, k) ==
  LET mode == Field(s, Stripped(s, 1))
      time == Field(s, Stripped(s, mode.at))
  IN mode.value = <<"m">> /\ time.value = <<"t">> /\ Stripped(s, time.at) = k

(* The mode and the time are read without their readable forms,            *)
LEMMA ShortReads ==
  ASSUME NEW s, Len(s) \in Nat, 5 <= Len(s), s[5] # "space",
         s[1] = "m", s[2] = "space", s[3] = "t", s[4] = "space"
  PROVE  MarksAreRead(s, 5)
<1>1. /\ 1 \in Nat /\ 0 \in Nat /\ 2 \in Nat /\ 3 \in Nat /\ 4 \in Nat /\ 5 \in Nat
      /\ 1 <= Len(s) /\ 2 <= Len(s) /\ 3 <= Len(s) /\ 4 <= Len(s)
      /\ "m" # "space" /\ "t" # "space" /\ "m" # "(" /\ "t" # "("
      /\ 0 + 1 = 1 /\ 0 + 2 = 2 /\ 2 + 1 = 3 /\ 2 + 2 = 4 /\ 4 + 1 = 5
  OBVIOUS
<1>2. Stripped(s, 1) = 1 /\ Stripped(s, 3) = 3 /\ Stripped(s, 5) = 5
  BY <1>1, StrippedIs
<1>3. EndsAt(s, <<"m">>, 0 + 2, 3) /\ EndsAt(s, <<"t">>, 2 + 2, 5)
  BY <1>1, Ends
<1>4. Field(s, 0 + 1) = Whole(<<"m">>, 3)
  <2>1. "m" \in Letters \ Escaped /\ "m" # "(" /\ 0 \in Nat /\ 0 + 1 <= Len(s) /\ s[0 + 1] = "m"
    BY <1>1, ShortIs
  <2> QED
    BY <1>3, <2>1, LetterReads
<1>5. Field(s, 2 + 1) = Whole(<<"t">>, 5)
  <2>1. "t" \in Letters \ Escaped /\ "t" # "(" /\ 2 \in Nat /\ 2 + 1 <= Len(s) /\ s[2 + 1] = "t"
    BY <1>1, ShortIs
  <2> QED
    BY <1>3, <2>1, LetterReads
<1> QED
  BY <1>1, <1>2, <1>4, <1>5 DEF MarksAreRead, Whole

(* and with them.                                                           *)
LEMMA LongReads ==
  ASSUME NEW s, Len(s) \in Nat, 13 <= Len(s), s[13] # "space",
         s[1] = "m", s[2] = "(", s[3] = "r", s[4] = ")", s[5] = "space", s[6] = "t",
         s[7] = "(", s[8] = "d", s[9] = "space", s[10] = "h", s[11] = ")", s[12] = "space"
  PROVE  MarksAreRead(s, 13)
<1>1. /\ 1 \in Nat /\ 0 \in Nat /\ 2 \in Nat /\ 5 \in Nat /\ 7 \in Nat /\ 12 \in Nat
      /\ 1 <= Len(s) /\ 2 <= Len(s) /\ 5 + 1 <= Len(s) /\ 6 <= Len(s) /\ 7 <= Len(s)
      /\ 12 + 1 <= Len(s)
      /\ "m" # "space" /\ "t" # "space" /\ "m" # "(" /\ "t" # "("
      /\ 0 + 1 = 1 /\ 0 + 2 = 2 /\ 5 + 1 = 6 /\ 5 + 2 = 7 /\ 12 + 1 = 13
  OBVIOUS
<1>2. Stripped(s, 1) = 1 /\ Stripped(s, 5) = 6 /\ Stripped(s, 12) = 13
  BY <1>1, StrippedIs
<1>3. AfterParenthesis(s, 2) = 5 /\ AfterParenthesis(s, 7) = 12
  <2>1. /\ \A y \in 2 .. 4 - 1 : y = 2 \/ y = 3
        /\ \A y \in 7 .. 11 - 1 : y = 7 \/ y = 8 \/ y = 9 \/ y = 10
        /\ 4 + 1 = 5 /\ 11 + 1 = 12 /\ 4 \in 2 .. Len(s) /\ 11 \in 7 .. Len(s)
    OBVIOUS
  <2>2. \A y \in 2 .. 4 - 1 : s[y] # ")"
    BY <2>1
  <2>3. \A y \in 7 .. 11 - 1 : s[y] # ")"
    BY <2>1
  <2>4. AfterParenthesis(s, 2) = 4 + 1
    BY <1>1, <2>1, <2>2, AfterParenthesisIs
  <2>5. AfterParenthesis(s, 7) = 11 + 1
    BY <1>1, <2>1, <2>3, AfterParenthesisIs
  <2> QED
    BY <2>1, <2>4, <2>5
<1>4. EndsAt(s, <<"m">>, 0 + 2, 5) /\ EndsAt(s, <<"t">>, 5 + 2, 12)
  BY <1>1, <1>3, Ends
<1>5. Field(s, 0 + 1) = Whole(<<"m">>, 5)
  <2>1. "m" \in Letters \ Escaped /\ "m" # "(" /\ 0 \in Nat /\ 0 + 1 <= Len(s) /\ s[0 + 1] = "m"
    BY <1>1, ShortIs
  <2> QED
    BY <1>4, <2>1, LetterReads
<1>6. Field(s, 5 + 1) = Whole(<<"t">>, 12)
  <2>1. "t" \in Letters \ Escaped /\ "t" # "(" /\ 5 \in Nat /\ 5 + 1 <= Len(s) /\ s[5 + 1] = "t"
    BY <1>1, ShortIs
  <2> QED
    BY <1>4, <2>1, LetterReads
<1>7. /\ Field(s, Stripped(s, 1)) = Whole(<<"m">>, 5)
      /\ Field(s, Stripped(s, 5)) = Whole(<<"t">>, 12)
      /\ Stripped(s, 12) = 13
  BY <1>1, <1>2, <1>5, <1>6
<1> QED
  BY ONLY <1>7 DEF MarksAreRead, Whole

(* What stands where a text was written, and how it is read from there.    *)
TextIsRead(s, p, t, q) ==
  /\ s \in Seq(Letters)
  /\ Len(s) = Len(p) + Len(Escape(t)) + Len(q)
  /\ \A j \in 1 .. Len(p) : s[j] = p[j]
  /\ t # <<>> => Len(p) + 1 <= Len(s) /\ s[Len(p) + 1] # "space"
  /\ q = <<>> => Field(s, Len(p) + 1) = Whole(t, Len(s) + 1)
  /\ q # <<>> /\ q[1] = "space" =>
       Field(s, Len(p) + 1) = Whole(t, Len(p) + Len(Escape(t)) + 2)

(* A text is read back, before the end of the line and before a space.      *)
LEMMA TextReads ==
  ASSUME NEW p \in Seq(Letters), NEW t \in Seq(Letters), ~Parenthesis(t),
         NEW q \in Seq(Letters), NEW s, Written(s, p, t, q)
  PROVE  TextIsRead(s, p, t, q)
<1>1. PICK F : Pieces(t, F)
  BY PiecesExist
<1>2. /\ s \in Seq(Letters)
      /\ Len(s) = Len(p) + Len(F[Len(t)]) + Len(q)
      /\ Lies(s, Len(p), t, F)
      /\ \A j \in 1 .. Len(q) : s[Len(p) + Len(F[Len(t)]) + j] = q[j]
      /\ \A j \in 1 .. Len(p) : s[j] = p[j]
  <2>1. Located(s, p, t, q, F)
    BY <1>1, EscapedLies
  <2> QED
    BY <2>1 DEF Located
<1>3. Escape(t) \in Seq(Letters) /\ Escape(t) = F[Len(t)]
  BY <1>1 DEF Pieces
<1> DEFINE b == Len(p)
           l == Len(F[Len(t)])
           m == Len(q)
           n == Len(s)
<1>4. b \in Nat /\ l \in Nat /\ m \in Nat /\ n \in Nat
  <2>1. F[Len(t)] \in Seq(Letters)
    BY <1>3
  <2> QED
    BY <1>2, <2>1
<1>5. n = b + l + m /\ Lies(s, b, t, F) /\ \A j \in 1 .. m : s[b + l + j] = q[j]
  BY <1>2
<1>6. ASSUME NEW x, EndsAt(s, t, b + l + 1, x) PROVE Field(s, b + 1) = Whole(t, x)
  <2>1. EndsAt(s, t, b + Len(F[Len(t)]) + 1, x) /\ Len(s) \in Nat
    BY <1>4, <1>6
  <2> HIDE DEF b, l, n
  <2> QED
    <3>1. t \in Seq(Letters) /\ ~Parenthesis(t)
      OBVIOUS
    <3> QED
      BY ONLY <1>1, <1>4, <1>5, <2>1, <3>1, FieldReads
<1>7. t # <<>> => b + 1 <= Len(s) /\ s[b + 1] # "space"
  <2>1. Len(s) \in Nat
    BY <1>4
  <2> HIDE DEF b, l, m, n
  <2> QED
    <3>1. t \in Seq(Letters)
      OBVIOUS
    <3>2. ASSUME t # <<>> PROVE b + 1 <= Len(s) /\ s[b + 1] # "space"
      BY ONLY <1>1, <1>4, <1>5, <2>1, <3>1, <3>2, FirstWritten
    <3> QED
      BY <3>2
<1>8. q = <<>> => Field(s, b + 1) = Whole(t, n + 1)
  <2>1. SUFFICES ASSUME q = <<>> PROVE Field(s, b + 1) = Whole(t, n + 1)
    OBVIOUS
  <2>2. m = 0
    BY <2>1
  <2> HIDE DEF b, l, m
  <2>3. n = b + l
    BY <1>4, <1>5, <2>2
  <2>4. n + 1 \in Nat /\ n + 1 > Len(s) /\ Len(s) \in Nat
    BY <1>4
  <2>5. EndsAt(s, t, n + 1, n + 1)
    BY <2>4, Ends
  <2> HIDE DEF n
  <2> QED
    BY <1>6, <2>3, <2>5
<1>9. q # <<>> /\ q[1] = "space" => Field(s, b + 1) = Whole(t, b + l + 2)
  <2>1. SUFFICES ASSUME q # <<>>, q[1] = "space" PROVE Field(s, b + 1) = Whole(t, b + l + 2)
    OBVIOUS
  <2>2. 1 \in 1 .. m
    BY <2>1
  <2> HIDE DEF b, l, m
  <2>3. s[b + l + 1] = "space"
    BY <1>5, <2>1, <2>2
  <2>4. b + l + 1 \in Nat /\ b + l + 1 <= n
    BY <1>4, <1>5, <2>2
  <2>5. (b + l + 1) + 1 = b + l + 2
    BY <1>4
  <2>6. Len(s) \in Nat /\ b + l + 1 <= Len(s)
    BY <1>4, <2>4
  <2> HIDE DEF n
  <2>7. EndsAt(s, t, b + l + 1, (b + l + 1) + 1)
    BY <2>3, <2>4, <2>6, Ends
  <2> QED
    BY <1>6, <2>5, <2>7
<1>10. l = Len(Escape(t))
  BY <1>3
<1> HIDE DEF l
<1> QED
  BY <1>2, <1>3, <1>5, <1>7, <1>8, <1>9, <1>10 DEF TextIsRead

Join(x, y) == x \o y

(* Joining texts is associative.                                            *)
LEMMA Joined ==
  ASSUME NEW S, NEW x \in Seq(S), NEW y \in Seq(S), NEW z \in Seq(S)
  PROVE  Join(x, Join(y, z)) = Join(Join(x, y), z)
BY DEF Join

(* The name of a file is read, and the target after it.                    *)
TargetText(u) == IF u = <<>> THEN <<>> ELSE <<"space">> \o Escape(u)
NamesAreRead(s, k, t, u) ==
  LET name == Field(s, k)
      link == Field(s, Stripped(s, name.at))
  IN name.value = t /\ link.value = u
Begins(s, p) ==
  /\ s \in Seq(Letters)
  /\ \A j \in 1 .. Len(p) : s[j] = p[j]
  /\ Len(p) + 1 <= Len(s) /\ s[Len(p) + 1] # "space"

(* The name is read, and the target behind it.                             *)
LEMMA NameReads ==
  ASSUME NEW p \in Seq(Letters), NEW t \in Seq(Letters), t # <<>>, ~Parenthesis(t),
         NEW u \in Seq(Letters), ~Parenthesis(u),
         NEW q, q = TargetText(u), NEW s, Written(s, p, t, q)
  PROVE  Begins(s, p) /\ NamesAreRead(s, Len(p) + 1, t, u)
<1> DEFINE e == Escape(t)
           f == Escape(u)
           d == <<"space">>
<1>1. <<>> \in Seq(Letters) /\ d \in Seq(Letters) /\ Len(d) = 1 /\ d[1] = "space"
  <2> "space" \in Letters
    BY DEF Letters
  <2> QED
    OBVIOUS
<1>2. e \in Seq(Letters) /\ f \in Seq(Letters)
  <2>1. ASSUME NEW w \in Seq(Letters) PROVE Escape(w) \in Seq(Letters)
    <3>1. PICK F : Pieces(w, F)
      BY PiecesExist
    <3> QED
      BY <3>1 DEF Pieces
  <2> QED
    BY <2>1
<1>3. Len(p) \in Nat /\ Len(e) \in Nat /\ Len(f) \in Nat
  BY <1>2
<1> DEFINE k == Len(p) + Len(e)
<1>4. k \in Nat
  BY <1>3
<1>5. q \in Seq(Letters) /\ (u # <<>> => q = d \o f)
  <2>1. d \o f \in Seq(Letters)
    BY <1>1, <1>2, ConcatProperties
  <2> QED
    BY <1>1, <2>1 DEF TargetText
<1>6. /\ s \in Seq(Letters)
      /\ Len(s) = Len(p) + Len(Escape(t)) + Len(q)
      /\ \A j \in 1 .. Len(p) : s[j] = p[j]
      /\ t # <<>> => Len(p) + 1 <= Len(s) /\ s[Len(p) + 1] # "space"
      /\ q = <<>> => Field(s, Len(p) + 1) = Whole(t, Len(s) + 1)
      /\ q # <<>> /\ q[1] = "space" =>
           Field(s, Len(p) + 1) = Whole(t, Len(p) + Len(Escape(t)) + 2)
  <2> HIDE DEF e, f, d
  <2>2. TextIsRead(s, p, t, q)
    BY <1>5, TextReads
  <2> QED
    BY <2>2 DEF TextIsRead
<1>7. Len(s) \in Nat /\ Len(s) + 1 \in Nat /\ Len(s) + 1 > Len(s)
  <2>1. s \in Seq(Letters)
    BY <1>6
  <2> QED
    BY ONLY <2>1
<1>8. ASSUME NEW x, Field(s, Len(p) + 1) = Whole(t, x),
             NEW y, Field(s, Stripped(s, x)) = Whole(u, y)
      PROVE  NamesAreRead(s, Len(p) + 1, t, u)
  BY ONLY <1>8 DEF Whole, NamesAreRead
<1>9. Begins(s, p)
  BY <1>6 DEF Begins
<1> HIDE DEF e, f, d
<1>10. CASE u = <<>>
  <2>1. Field(s, Len(p) + 1) = Whole(t, Len(s) + 1)
    BY <1>6, <1>10 DEF TargetText
  <2>2. Stripped(s, Len(s) + 1) = Len(s) + 1
    BY <1>7, StrippedIs
  <2>3. f = <<>>
    <3>1. PICK F : Pieces(u, F)
      BY PiecesExist
    <3>2. Len(u) = 0
      BY <1>10
    <3> QED
      BY <3>1, <3>2 DEF Pieces, f
  <2>4. s = (s \o Escape(u)) \o <<>>
    <3>1. s \o <<>> = s
      BY <1>6, ConcatEmptySeq
    <3> QED
      BY <2>3, <3>1 DEF f
  <2>5. Field(s, Len(s) + 1) = Whole(u, Len(s) + 1)
    <3>1. Written(s, s, u, <<>>)
      BY <2>4 DEF Written
    <3>2. TextIsRead(s, s, u, <<>>)
      BY <1>1, <1>6, <3>1, TextReads
    <3> QED
      BY <3>2 DEF TextIsRead
  <2> QED
    BY <1>8, <1>9, <2>1, <2>2, <2>5
<1>11. CASE u # <<>>
  <2>1. q = d \o f
    BY <1>5, <1>11
  <2>2. q # <<>> /\ q[1] = "space"
    <3>1. /\ Len(q) = Len(d) + Len(f)
          /\ \A i \in 1 .. Len(d) + Len(f) : q[i] = IF i <= Len(d) THEN d[i] ELSE f[i - Len(d)]
      BY ONLY <1>1, <1>2, <2>1, ConcatProperties
    <3>2. 1 \in 1 .. 1 + Len(f) /\ 1 <= 1 /\ 1 + Len(f) # 0
      BY <1>3
    <3>3. Len(q) # 0 /\ q[1] = d[1]
      BY <1>1, <3>1, <3>2
    <3> QED
      BY <1>1, <3>3
  <2>3. Field(s, Len(p) + 1) = Whole(t, k + 2)
    BY <1>6, <2>2 DEF e
  <2> DEFINE pe == p \o e
             v == pe \o d
  <2>4. pe \in Seq(Letters) /\ Len(pe) = k
    BY <1>2, ConcatProperties
  <2>5. s = pe \o (d \o f)
    BY <2>1 DEF e, Written
  <2> HIDE DEF pe, k
  <2>6. v \in Seq(Letters) /\ Len(v) = k + 1
    <3>1. v \in Seq(Letters) /\ Len(v) = k + Len(d)
      BY ONLY <1>1, <2>4, ConcatProperties
    <3> QED
      BY <1>1, <3>1
  <2>7. s = v \o f
    <3>1. s = Join(pe, Join(d, f))
      BY <2>5 DEF Join
    <3>2. s = Join(Join(pe, d), f)
      BY ONLY <1>1, <1>2, <2>4, <3>1, Joined
    <3> QED
      BY ONLY <3>2 DEF Join, v
  <2> HIDE DEF v
  <2>8. s = (v \o Escape(u)) \o <<>>
    <3>1. v \o f \in Seq(Letters)
      BY <1>2, <2>6, ConcatProperties
    <3>2. (v \o f) \o <<>> = v \o f
      BY <3>1, ConcatEmptySeq
    <3> QED
      BY <2>7, <3>2 DEF f
  <2>9. /\ Len(v) + 1 <= Len(s) /\ s[Len(v) + 1] # "space"
        /\ Field(s, Len(v) + 1) = Whole(u, Len(s) + 1)
    <3>1. Written(s, v, u, <<>>)
      BY <2>8 DEF Written
    <3>2. TextIsRead(s, v, u, <<>>)
      BY <1>1, <2>6, <3>1, TextReads
    <3> QED
      BY <1>11, <3>2 DEF TextIsRead
  <2>10. Len(v) + 1 = k + 2 /\ k + 2 \in Nat
    BY <1>4, <2>6
  <2>11. Stripped(s, k + 2) = k + 2
    BY <1>7, <2>9, <2>10, StrippedIs
  <2>12. Field(s, Stripped(s, k + 2)) = Whole(u, Len(s) + 1)
    BY ONLY <2>9, <2>10, <2>11
  <2>13. NamesAreRead(s, Len(p) + 1, t, u)
    BY ONLY <1>8, <2>3, <2>12
  <2> QED
    BY <1>9, <2>13
<1> QED
  BY <1>10, <1>11

(* All the fields of a line.                                               *)
LEMMA FieldsAre ==
  ASSUME NEW p \in {Short, Long}, NEW t \in Seq(Letters), t # <<>>, ~Parenthesis(t),
         NEW u \in Seq(Letters), ~Parenthesis(u),
         NEW q, q = TargetText(u), NEW s, Written(s, p, t, q)
  PROVE  Fields(s) = <<<<"m">>, <<"t">>, t, u>>
<1>1. p \in Seq(Letters)
  BY ShortIs, LongIs
<1>2. /\ s \in Seq(Letters)
      /\ \A j \in 1 .. Len(p) : s[j] = p[j]
      /\ Len(p) + 1 <= Len(s) /\ s[Len(p) + 1] # "space"
      /\ NamesAreRead(s, Len(p) + 1, t, u)
  <2>1. Begins(s, p) /\ NamesAreRead(s, Len(p) + 1, t, u)
    BY <1>1, NameReads
  <2> QED
    BY <2>1 DEF Begins
<1>3. Len(s) \in Nat
  <2>1. s \in Seq(Letters)
    BY <1>2
  <2> QED
    BY ONLY <2>1
<1>4. MarksAreRead(s, Len(p) + 1)
  <2>1. CASE p = Short
    <3>1. /\ 1 \in 1 .. Len(p) /\ 2 \in 1 .. Len(p) /\ 3 \in 1 .. Len(p) /\ 4 \in 1 .. Len(p)
          /\ Len(p) + 1 = 5
      BY <2>1, ShortIs
    <3>2. s[1] = "m" /\ s[2] = "space" /\ s[3] = "t" /\ s[4] = "space"
      BY <1>2, <2>1, <3>1, ShortIs
    <3> QED
      BY <1>2, <1>3, <3>1, <3>2, ShortReads
  <2>2. CASE p = Long
    <3>1. /\ \A j \in 1 .. 12 : j \in 1 .. Len(p)
          /\ Len(p) + 1 = 13
      BY <2>2, LongIs
    <3>2. \A j \in 1 .. 12 : s[j] = Long[j]
      BY <1>2, <2>2, <3>1
    <3>3. /\ s[1] = Long[1] /\ s[2] = Long[2] /\ s[3] = Long[3] /\ s[4] = Long[4]
          /\ s[5] = Long[5] /\ s[6] = Long[6] /\ s[7] = Long[7] /\ s[8] = Long[8]
          /\ s[9] = Long[9] /\ s[10] = Long[10] /\ s[11] = Long[11] /\ s[12] = Long[12]
      BY ONLY <3>2
    <3>4. /\ s[1] = "m" /\ s[2] = "(" /\ s[3] = "r" /\ s[4] = ")" /\ s[5] = "space"
          /\ s[6] = "t" /\ s[7] = "(" /\ s[8] = "d" /\ s[9] = "space" /\ s[10] = "h"
          /\ s[11] = ")" /\ s[12] = "space"
      BY ONLY <3>3, LongIs
    <3> QED
      BY <1>2, <1>3, <3>1, <3>4, LongReads
  <2> QED
    BY <2>1, <2>2
<1> QED
  BY ONLY <1>2, <1>4 DEF MarksAreRead, NamesAreRead, Fields

(* Names of files are texts.                                                *)
LEMMA TextsAre == Seq(STRING) \subseteq Seq(Letters) /\ <<>> \in Seq(Letters)
<1>1. STRING \subseteq Letters
  BY DEF Letters
<1>2. ASSUME NEW t \in Seq(STRING) PROVE t \in Seq(Letters)
  BY <1>1, SeqMonotonic
<1> QED
  BY <1>2

(* What a file can be.                                                     *)
LEMMA DescriptionsAre ==
  ASSUME NEW d \in Descriptions
  PROVE  /\ d.target \in Seq(Letters)
         /\ d.type # "link" => d.target = <<>>
         /\ d.device.major \in Nat /\ d.device.minor \in Nat
<1>1. Seq(STRING) \subseteq Seq(Letters) /\ <<>> \in Seq(Letters)
  BY TextsAre
<1>2. /\ Plain.target = <<>> /\ Plain.type = "file"
      /\ Plain.device.major = 0 /\ Plain.device.minor = 0
      /\ DOMAIN Plain = {"type", "size", "device", "sum", "target"}
  BY DEF Plain, NoDevice
<1>3. CASE d \in {Plain, [Plain EXCEPT !.sum = "md5"], [Plain EXCEPT !.type = "dir"]}
  <2>1. d.target = <<>> /\ d.device = NoDevice
    BY <1>3 DEF Plain
  <2> QED
    BY <1>1, <2>1 DEF NoDevice
<1>4. CASE d \in {[Plain EXCEPT !.type = "device", !.device = x] : x \in Devices}
  <2>1. PICK x \in Devices : d = [Plain EXCEPT !.type = "device", !.device = x]
    BY <1>4
  <2>2. x.major \in Nat /\ x.minor \in Nat
    BY DevicesAssumption
  <2>3. d.target = <<>> /\ d.device = x
    BY <2>1 DEF Plain
  <2> QED
    BY <1>1, <2>2, <2>3
<1>5. CASE d \in {[Plain EXCEPT !.type = "link", !.target = t,
                       !.sum = IF t = <<>> THEN "none" ELSE "md5"] : t \in Targets}
  <2>1. PICK t \in Targets : d = [Plain EXCEPT !.type = "link", !.target = t,
                                   !.sum = IF t = <<>> THEN "none" ELSE "md5"]
    BY <1>5
  <2>2. d.target = t /\ d.type = "link" /\ d.device = NoDevice
    BY <2>1 DEF Plain
  <2>3. t \in Seq(Letters)
    BY <1>1, TargetsAssumption
  <2> QED
    BY <2>2, <2>3 DEF NoDevice
<1> QED
  BY <1>3, <1>4, <1>5 DEF Descriptions

(* A name is a text that is not empty.                                      *)
LEMMA NamesAre ==
  ASSUME NEW t \in FileNames
  PROVE  t \in Seq(Letters) /\ t # <<>>
<1>1. t \in Seq(STRING) /\ t # <<>>
  BY FileNamesAssumption
<1> QED
  BY <1>1, TextsAre

(* What is known between the steps: what the line consists of.             *)
LineKnown ==
  /\ desc \in [path : FileNames, of : Descriptions]
  /\ human \in BOOLEAN
  /\ slpc = "read" =>
       /\ line = ModeAndTime \o Escape(desc.path) \o LinkText(desc.of)
       /\ numbers = [type |-> desc.of.type, sum |-> desc.of.sum,
                     size |-> IF desc.of.type = "dir" THEN 0 ELSE desc.of.size,
                     device |-> desc.of.device]
  /\ RoundTrip

(* Nothing is known of the line at first,                                   *)
LEMMA LineKnownInit == SignLineInit => LineKnown
BY DEF SignLineInit, LineKnown, RoundTrip

(* and both steps keep what is known.                                       *)
LEMMA LineKnownNext == LineKnown /\ [SignLineNext]_slvars => LineKnown'
<1> SUFFICES ASSUME LineKnown, [SignLineNext]_slvars PROVE LineKnown'
  OBVIOUS
<1>1. CASE BuildLine
  <2>1. /\ slpc' = "read" /\ desc' = desc /\ human' = human
        /\ line' = ModeAndTime \o Escape(desc.path) \o LinkText(desc.of)
        /\ numbers' = [type |-> desc.of.type, sum |-> desc.of.sum,
                       size |-> IF desc.of.type = "dir" THEN 0 ELSE desc.of.size,
                       device |-> desc.of.device]
    BY <1>1 DEF BuildLine
  <2>2. ModeAndTime' = ModeAndTime
    BY <2>1 DEF ModeAndTime
  <2>3. RoundTrip'
    BY <2>1 DEF RoundTrip
  <2> QED
    BY <2>1, <2>2, <2>3 DEF LineKnown
<1>2. CASE ReadBack
  <2>1. /\ slpc = "read" /\ slpc' = "compared" /\ desc' = desc /\ human' = human
    BY <1>2 DEF ReadBack
  <2> DEFINE d == desc.of
             t == desc.path
             u == d.target
             s == line
             p == ModeAndTime
             q == LinkText(d)
  <2>2. t \in Seq(Letters) /\ t # <<>>
    BY NamesAre DEF LineKnown
  <2>3. /\ u \in Seq(Letters) /\ d.device.major \in Nat /\ d.device.minor \in Nat
        /\ d.type # "link" => u = <<>>
    BY DescriptionsAre DEF LineKnown
  <2>4. p \in {Short, Long}
    BY DEF ModeAndTime, Short, Long
  <2>5. q = TargetText(u)
    BY <2>3 DEF LinkText, TargetText
  <2>6. Written(s, p, t, q)
    BY <2>1 DEF LineKnown, Written
  <2>7. /\ numbers.type = d.type /\ numbers.sum = d.sum /\ numbers.device = d.device
        /\ numbers.size = IF d.type = "dir" THEN 0 ELSE d.size
    BY <2>1 DEF LineKnown
  <2>8. /\ back'.fields = Fields(s) /\ back'.path = Fields(s)[3] /\ back'.target = Fields(s)[4]
        /\ back'.size = IF numbers.type = "device" THEN 0 ELSE numbers.size
        /\ back'.rdev = IF numbers.type = "device" THEN ReadRdev(numbers.device) ELSE 0
        /\ back'.sum = numbers.sum
    BY <1>2 DEF ReadBack
  <2> HIDE DEF p, q, s
  <2>9. ASSUME ~Parenthesis(t), ~Parenthesis(u)
        PROVE  Fields(s) = <<<<"m">>, <<"t">>, t, u>>
    <3> HIDE DEF t, u
    <3> QED
      BY <2>2, <2>3, <2>4, <2>5, <2>6, <2>9, FieldsAre
  <2>10. d.device.minor < 256 => ReadRdev(d.device) = Rdev(d.device)
    <3> DEFINE i == d.device.minor
               j == d.device.major
    <3>1. i \in Nat /\ j \in Nat
      BY <2>3
    <3> HIDE DEF i, j
    <3>2. i < 256 => j * 256 + i = j * 256 + (i % 256) + (i \div 256) * 1048576
      BY <3>1
    <3> QED
      BY <3>2 DEF ReadRdev, Rdev, i, j
  <2>11. RoundTrip'
    <3>1. SUFFICES ASSUME ~Parenthesis(t), ~Parenthesis(u)
                   PROVE  /\ back'.path = t
                          /\ back'.fields[1] = <<"m">> /\ back'.fields[2] = <<"t">>
                          /\ d.type = "file" => back'.size = d.size /\ back'.sum = d.sum
                          /\ d.type = "device" /\ d.device.minor < 256 => back'.rdev = Rdev(d.device)
                          /\ d.type = "link" => back'.target = u
      BY <2>1 DEF RoundTrip
    <3>2. Fields(s) = <<<<"m">>, <<"t">>, t, u>>
      BY <2>9, <3>1
    <3> HIDE DEF t, u, d
    <3>3. /\ back'.path = t /\ back'.target = u
          /\ back'.fields[1] = <<"m">> /\ back'.fields[2] = <<"t">>
      BY <2>8, <3>2
    <3>4. d.type = "file" => back'.size = d.size /\ back'.sum = d.sum
      BY <2>7, <2>8
    <3>5. d.type = "device" /\ d.device.minor < 256 => back'.rdev = Rdev(d.device)
      BY <2>7, <2>8, <2>10
    <3> QED
      BY <3>3, <3>4, <3>5
  <2> QED
    BY <2>1, <2>11 DEF LineKnown
<1>3. CASE UNCHANGED slvars
  BY <1>3 DEF slvars, LineKnown, RoundTrip, ModeAndTime
<1> QED
  BY <1>1, <1>2, <1>3 DEF SignLineNext

(* A file that did not change is found the same when its line is read back *)
(* (flx check), whatever characters are in its name and in its target.     *)
THEOREM LineIsReadBack == SignLineSpec => []RoundTrip
<1>1. LineKnown => RoundTrip
  BY DEF LineKnown
<1> QED
  BY <1>1, LineKnownInit, LineKnownNext, PTL DEF SignLineSpec
==============================================================================
