------------------------------ MODULE LcdWrite ------------------------------
(***************************************************************************)
(* lcdwrite and lcdtee (lcd/lcdwrite.c, lcd/lcdtee.c): processes write to  *)
(* a display that may be taken by another, and that may take a part of     *)
(* what is written.  lcdwrite waits and tries again for a second in all;   *)
(* lcdtee, which also copies to its output, does neither.                  *)
(***************************************************************************)
EXTENDS Naturals, Sequences

CONSTANTS
  Displayers,  \* processes
  Tees,        \* those of them that run lcdtee
  Texts,       \* the lengths of the pieces each may write: sequences
  MaxWait      \* waits of 10 ms in a second: 100

ASSUME WaitAssumption == MaxWait \in Nat
ASSUME TextsAssumption == Texts \subseteq Seq(Nat \ {0})

VARIABLES
  text,      \* the pieces of each process
  piece,     \* the piece it is at
  done,      \* how much of it is written
  waits,     \* total_wait, in units of one wait
  lcd,       \* what the display was given: <<process, piece, place>>
  lcpc       \* open, write, gone (gave up) or end

lcvars == <<text, piece, done, waits, lcd, lcpc>>

LcdInit ==
  /\ text \in [Displayers -> Texts]
  /\ piece = [p \in Displayers |-> 1]
  /\ done = [p \in Displayers |-> 0]
  /\ waits = [p \in Displayers |-> 0]
  /\ lcd = <<>>
  /\ lcpc = [p \in Displayers |-> "open"]

Goes(p, to) == lcpc' = [lcpc EXCEPT ![p] = to]
Starts(p) == IF text[p] = <<>> THEN "end" ELSE "write"

Open(p) ==
  /\ lcpc[p] = "open"
  /\ Goes(p, Starts(p))
  /\ UNCHANGED <<text, piece, done, waits, lcd>>

(* Any error but a device that is busy ends lcdwrite at once; lcdtee goes  *)
(* on without the display.                                                 *)
OpenFails(p) ==
  /\ lcpc[p] = "open"
  /\ Goes(p, "gone")
  /\ UNCHANGED <<text, piece, done, waits, lcd>>

(* Mutant: the budget starts again once it is used up. *)
WaitAgainEach(p) ==
  /\ waits' = [waits EXCEPT ![p] = IF @ >= MaxWait THEN 0 ELSE @ + 1]
  /\ UNCHANGED lcpc

(* wait_1smax: the budget is one for the opening and all the writes.       *)
WaitAgain(p) ==
  IF waits[p] >= MaxWait
  THEN Goes(p, "gone") /\ UNCHANGED waits
  ELSE waits' = [waits EXCEPT ![p] = @ + 1] /\ UNCHANGED lcpc

OpenBusy(p) ==
  /\ lcpc[p] = "open" /\ p \notin Tees
  /\ WaitAgain(p)
  /\ UNCHANGED <<text, piece, done, lcd>>

Given(p, n) == lcd \o [k \in 1 .. n |-> <<p, piece[p], done[p] + k>>]
NextPiece(p) ==
  /\ piece' = [piece EXCEPT ![p] = @ + 1]
  /\ done' = [done EXCEPT ![p] = 0]
  /\ IF piece[p] = Len(text[p]) THEN Goes(p, "end") ELSE UNCHANGED lcpc

(* Mutant: a write that took a part is repeated from the beginning. *)
WriteWhole(p) ==
  /\ lcpc[p] = "write" /\ p \notin Tees
  /\ \E n \in 1 .. text[p][piece[p]] :
       /\ lcd' = Given(p, n)
       /\ IF n = text[p][piece[p]] THEN NextPiece(p)
          ELSE UNCHANGED <<piece, done, lcpc>>
  /\ UNCHANGED <<text, waits>>

(* write_lcd: what is left of the piece, any part of which may be taken.   *)
Write(p) ==
  /\ lcpc[p] = "write" /\ p \notin Tees
  /\ \E n \in 1 .. text[p][piece[p]] - done[p] :
       /\ lcd' = Given(p, n)
       /\ IF done[p] + n = text[p][piece[p]] THEN NextPiece(p)
          ELSE done' = [done EXCEPT ![p] = @ + n] /\ UNCHANGED <<piece, lcpc>>
  /\ UNCHANGED <<text, waits>>

WriteBusy(p) ==
  /\ lcpc[p] = "write" /\ p \notin Tees
  /\ WaitAgain(p)
  /\ UNCHANGED <<text, piece, done, lcd>>

WriteFails(p) ==
  /\ lcpc[p] = "write" /\ p \notin Tees
  /\ Goes(p, "gone")
  /\ UNCHANGED <<text, piece, done, waits, lcd>>

(* lcdtee writes each piece once, whatever becomes of it.                  *)
TeeWrite(p) ==
  /\ lcpc[p] = "write" /\ p \in Tees
  /\ \E n \in 0 .. text[p][piece[p]] : lcd' = Given(p, n)
  /\ NextPiece(p)
  /\ UNCHANGED <<text, waits>>

LcdStep(p) ==
  \/ Open(p) \/ OpenFails(p) \/ OpenBusy(p)
  \/ Write(p) \/ WriteBusy(p) \/ WriteFails(p) \/ TeeWrite(p)

LcdNext == \E p \in Displayers : LcdStep(p)

LcdSpec == LcdInit /\ [][LcdNext]_lcvars

(* The processes run and the display answers, be it that it is busy.       *)
LcdFairness == \A p \in Displayers : WF_lcvars(LcdStep(p))

----------------------------------------------------------------------------
Ended(p) == lcpc[p] \in {"gone", "end"}
Later(x, y) == x[2] < y[2] \/ (x[2] = y[2] /\ x[3] < y[3])
Shown(x) == \E i \in DOMAIN lcd : lcd[i] = x

(* What comes just before in the text is shown as well.                    *)
NoGap(p, x) ==
  /\ x[3] > 1 => Shown(<<p, x[2], x[3] - 1>>)
  /\ x[3] = 1 /\ x[2] > 1 => Shown(<<p, x[2] - 1, text[p][x[2] - 1]>>)

(* However the processes take turns and however often the display is busy, *)
(* what it shows of each is in order and nothing twice; of lcdwrite it has *)
(* no gap, and is the whole text if the process did not give up.           *)
TextInOrder ==
  /\ \A i, j \in DOMAIN lcd : i < j /\ lcd[i][1] = lcd[j][1] => Later(lcd[i], lcd[j])
  /\ \A p \in Displayers \ Tees :
       /\ \A i \in DOMAIN lcd : lcd[i][1] = p => NoGap(p, lcd[i])
       /\ lcpc[p] = "end" => \A n \in DOMAIN text[p] : Shown(<<p, n, text[p][n]>>)

(* Every process ends, however often the display is busy: the second it    *)
(* waits at most is one for the opening and all that it writes.            *)
AllEnd == <>(\A p \in Displayers : Ended(p))
=============================================================================
