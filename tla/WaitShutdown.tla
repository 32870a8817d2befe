---------------------------- MODULE WaitShutdown ----------------------------
(***************************************************************************)
(* ws of preinit (init/init.c, wait_shutdown): process 1 reads messages    *)
(* from the fifo /dev/initctl until one of them asks for a run level, or a *)
(* signal comes.                                                           *)
(*                                                                         *)
(* A message is two pieces, the first of which holds the magic number and  *)
(* the command.  A writer writes its message at once or piece by piece.    *)
(***************************************************************************)
EXTENDS Naturals, Sequences

CONSTANTS
  Writers,
  Messages,  \* what they may send: [kind, pieces], kind "runlevel" or another
  Fifos      \* whether /dev/initctl exists

VARIABLES
  exists,
  message,   \* of each writer
  wpc,       \* each writer: idle, open or done
  sent,      \* how many of its pieces are written
  fifo,      \* the pieces in the fifo: <<writer, piece>>
  arrived,   \* a writer had, or has, the fifo open since the reader opens it
  raw,       \* the pieces of initctl_msg read so far, initctl_msg.raw
  rpc,       \* process 1
  code       \* its exit status

wsvars == <<exists, message, wpc, sent, fifo, arrived, raw, rpc, code>>

Size == 2    \* pieces of a message
Signals == {2, 15}

ShutdownInit ==
  /\ exists \in Fifos
  /\ message \in [Writers -> Messages]
  /\ wpc = [w \in Writers |-> "idle"]
  /\ sent = [w \in Writers |-> 0]
  /\ fifo = <<>>
  /\ arrived = FALSE
  /\ raw = <<>>
  /\ rpc = "open"
  /\ code = 0

Opened == {w \in Writers : wpc[w] = "open"}

(* The reader counts as one from the moment it begins to open the fifo.    *)
Reading == rpc \in {"opening", "read", "close", "check"}

----------------------------------------------------------------------------
(* Process 1.                                                              *)

Reader == <<exists, message, wpc, sent>>

(* Without the fifo it only waits for a signal.                            *)
StartOpen ==
  /\ rpc = "open"
  /\ rpc' = IF exists THEN "opening" ELSE "select"
  /\ arrived' = (Opened # {})
  /\ UNCHANGED <<fifo, raw, code>> /\ UNCHANGED Reader

(* Opening waits for a writer, which may be gone again.                    *)
FinishOpen ==
  /\ rpc = "opening"
  /\ arrived
  /\ rpc' = "read" /\ raw' = <<>>
  /\ UNCHANGED <<fifo, arrived, code>> /\ UNCHANGED Reader

GotMessage(n) ==
  /\ raw' = raw \o SubSeq(fifo, 1, n)
  /\ rpc' = IF Len(raw) + n = Size THEN "check" ELSE "read"

ReadPieces ==
  /\ rpc = "read" /\ fifo # <<>>
  /\ LET n == IF Len(fifo) < Size - Len(raw) THEN Len(fifo) ELSE Size - Len(raw)
     IN /\ GotMessage(n)
        /\ fifo' = SubSeq(fifo, n + 1, Len(fifo))
  /\ UNCHANGED <<arrived, code>> /\ UNCHANGED Reader

(* The end: no writer is left.  Part of a message is given up.             *)
ReadEnd ==
  /\ rpc = "read" /\ fifo = <<>> /\ Opened = {}
  /\ rpc' = "close"
  /\ UNCHANGED <<fifo, arrived, raw, code>> /\ UNCHANGED Reader

(* What the fifo holds is lost when nobody has it open any more.           *)
Close ==
  /\ rpc = "close"
  /\ rpc' = "open"
  /\ fifo' = IF Opened = {} THEN <<>> ELSE fifo
  /\ UNCHANGED <<arrived, raw, code>> /\ UNCHANGED Reader

Exit(status) ==
  /\ rpc' = "exited"
  /\ code' = status
  /\ fifo' = IF Opened = {} THEN <<>> ELSE fifo
  /\ UNCHANGED <<arrived, raw>> /\ UNCHANGED Reader

(* Mutant: what was read is not dropped before the next message. *)
NextMessageKept == rpc' = "read" /\ raw' = <<raw[1]>>

NextMessage == rpc' = "read" /\ raw' = <<>>

(* Only the beginning of a message can hold the magic number; a run level  *)
(* of any value ends process 1.                                            *)
Check ==
  /\ rpc = "check"
  /\ IF raw[1][2] = 1 /\ message[raw[1][1]].kind = "runlevel" THEN Exit(0)
     ELSE /\ NextMessage
          /\ UNCHANGED <<fifo, arrived, code>> /\ UNCHANGED Reader

Signal ==
  /\ rpc # "exited"
  /\ \E s \in Signals : Exit(128 + s)

----------------------------------------------------------------------------
(* The writers, which wait for a reader and are killed when there is none. *)

OpenFifo(w) ==
  /\ wpc[w] = "idle" /\ Reading
  /\ wpc' = [wpc EXCEPT ![w] = "open"]
  /\ arrived' = TRUE
  /\ UNCHANGED <<exists, message, sent, fifo, raw, rpc, code>>

Send(w) ==
  /\ wpc[w] = "open" /\ sent[w] < Size
  /\ IF Reading
     THEN LET n == Size \div message[w].pieces
          IN /\ fifo' = fifo \o [k \in 1 .. n |-> <<w, sent[w] + k>>]
             /\ sent' = [sent EXCEPT ![w] = @ + n]
             /\ wpc' = wpc
     ELSE /\ wpc' = [wpc EXCEPT ![w] = "done"]
          /\ fifo' = IF Opened \ {w} = {} THEN <<>> ELSE fifo
          /\ sent' = sent
  /\ UNCHANGED <<exists, message, arrived, raw, rpc, code>>

(* It closes when its message is written, or ends in the middle of it.     *)
CloseFifo(w) ==
  /\ wpc[w] = "open"
  /\ wpc' = [wpc EXCEPT ![w] = "done"]
  /\ fifo' = IF Opened \ {w} = {} /\ ~Reading THEN <<>> ELSE fifo
  /\ UNCHANGED <<exists, message, sent, arrived, raw, rpc, code>>

ReaderStep == StartOpen \/ FinishOpen \/ ReadPieces \/ ReadEnd \/ Close \/ Check

ShutdownNext ==
  \/ ReaderStep \/ Signal
  \/ \E w \in Writers : OpenFifo(w) \/ Send(w) \/ CloseFifo(w)

(* Process 1 runs when it can; writers need not do anything but end.       *)
ShutdownFairness ==
  /\ WF_wsvars(ReaderStep)
  /\ \A w \in Writers : WF_wsvars(CloseFifo(w))

----------------------------------------------------------------------------
(* If every message is written at once, a run level that was written is     *)
(* heard, unless it came between the end of what was written before and    *)
(* the next opening of the fifo.                                           *)
Whole == \A w \in Writers : message[w].pieces = 1
Asked(w) ==
  /\ Whole /\ message[w].kind = "runlevel"
  /\ rpc \in {"opening", "read", "check"}
  /\ \E k \in DOMAIN fifo : fifo[k][1] = w
RunLevelHeard ==
  \A w \in Writers : Asked(w) ~> rpc = "exited"
=============================================================================
