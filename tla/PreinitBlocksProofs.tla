------------------------ MODULE PreinitBlocksProofs ------------------------
(***************************************************************************)
(* The interpreter implements the structured language of Blocks, for every *)
(* number of levels and every set of lines.                                *)
(***************************************************************************)
EXTENDS PreinitBlocks, PreinitProofs, SequenceTheorems

-----------------------------------------------------------------------------
(* Sequences given by their elements. *)

LEMMA AppendIs ==
  ASSUME NEW S, NEW n \in Nat, NEW s \in [1 .. n -> S], NEW e \in S,
         NEW t \in [1 .. n + 1 -> S], t[n + 1] = e,
         \A i \in 1 .. n : t[i] = s[i]
  PROVE  t = Append(s, e)
<1>1. s \in Seq(S) /\ Len(s) = n
  OBVIOUS
<1>2. t \in Seq(S) /\ Len(t) = n + 1
  OBVIOUS
<1>3. /\ Append(s, e) \in Seq(S)
      /\ Len(Append(s, e)) = n + 1
      /\ \A i \in 1 .. n : Append(s, e)[i] = s[i]
      /\ Append(s, e)[n + 1] = e
  BY <1>1, AppendProperties
<1>4. \A i \in 1 .. n + 1 : t[i] = Append(s, e)[i]
  BY <1>3
<1> QED
  BY <1>2, <1>3, <1>4, SeqEqual

LEMMA SubSeqIs ==
  ASSUME NEW S, NEW n \in Nat \ {0}, NEW s \in [1 .. n -> S],
         NEW t \in [1 .. n - 1 -> S],
         \A i \in 1 .. n - 1 : t[i] = s[i]
  PROVE  t = SubSeq(s, 1, Len(s) - 1)
<1>1. s \in Seq(S) /\ Len(s) = n
  OBVIOUS
<1>2. SubSeq(s, 1, n - 1) = [i \in 1 .. n - 1 |-> s[i]]
  BY <1>1
<1> QED
  BY <1>1, <1>2

-----------------------------------------------------------------------------
(* The mapping. *)

Frame == [live : BOOLEAN, neg : BOOLEAN]

LEMMA FramesType ==
  ASSUME IInv
  PROVE  /\ FramesOf \in [1 .. brace_level -> Frame]
         /\ Len(FramesOf) = brace_level
         /\ brace_level \in Nat
<1>1. brace_level \in Nat
  BY LevelAssumption DEF IInv, TypeOK, Levels
<1>2. FramesOf \in [1 .. brace_level -> Frame]
  BY DEF FramesOf, Frame
<1> QED
  BY <1>1, <1>2

LEMMA FramesLive ==
  ASSUME IInv
  PROVE  Structured!Live <=> run_level = brace_level
<1>1. Len(FramesOf) = brace_level /\ brace_level \in Nat
  BY FramesType
<1>2. run_level \in Nat /\ run_level <= brace_level
  BY LevelAssumption DEF IInv, TypeOK, Levels, RunLevelBounded
<1>3. \A i \in 1 .. brace_level : FramesOf[i].live = (i <= run_level)
  BY DEF FramesOf
<1>4. (\A i \in 1 .. brace_level : i <= run_level) <=> run_level = brace_level
  BY <1>1, <1>2
<1> QED
  BY <1>1, <1>3, <1>4 DEF Structured!Live

LEMMA InitMapped == Init => Structured!Init
BY DEF Init, Structured!Init, FramesOf, HomeOf

(* The steps. *)

(* A step that leaves the blocks, the console and the status alone and     *)
(* executes nothing. *)
LEMMA QuietStep ==
  ASSUME UNCHANGED <<levels, kbd_level, cmd_input, error>>, did' = "nothing"
  PROVE  Structured!Ignore
BY DEF Structured!Ignore, Structured!Quiet, levels, FramesOf, HomeOf

LEMMA CloseStep ==
  ASSUME IInv, NEW l \in Lines, CloseBlock(l)
  PROVE  Structured!Close
<1>1. brace_level \in Nat \ {0} /\ brace_level' = brace_level - 1
  BY LevelAssumption DEF IInv, TypeOK, Levels, CloseBlock
<1>2. FramesOf \in [1 .. brace_level -> Frame] /\ Len(FramesOf) = brace_level
  BY FramesType
<1>3. run_level \in Nat /\ run_level <= brace_level
  BY LevelAssumption DEF IInv, TypeOK, Levels, RunLevelBounded
<1>4. FramesOf' \in [1 .. brace_level - 1 -> Frame]
  BY <1>1 DEF FramesOf, Frame
<1>5. \A i \in 1 .. brace_level - 1 : FramesOf'[i] = FramesOf[i]
  <2> SUFFICES ASSUME NEW i \in 1 .. brace_level - 1
               PROVE  FramesOf'[i] = FramesOf[i]
    OBVIOUS
  <2>1. i \in 1 .. brace_level /\ i \in 1 .. brace_level'
    BY <1>1
  <2>2. (i <= run_level') <=> (i <= run_level)
    BY <1>1, <1>3 DEF CloseBlock
  <2>3. saved' = saved
    BY DEF CloseBlock
  <2> QED
    BY <2>1, <2>2, <2>3 DEF FramesOf
<1>6. FramesOf' = SubSeq(FramesOf, 1, Len(FramesOf) - 1)
  BY <1>1, <1>2, <1>4, <1>5, SubSeqIs
<1>7. FramesOf # << >>
  BY <1>1, <1>2
<1>8. FramesOf[Len(FramesOf)].neg = (saved[brace_level'] = "flip")
  <2>1. FramesOf[brace_level] = [live |-> brace_level <= run_level,
                                 neg |-> saved[brace_level - 1] = "flip"]
    BY <1>1 DEF FramesOf
  <2>2. FramesOf[brace_level].neg = (saved[brace_level - 1] = "flip")
    BY <2>1
  <2> QED
    BY <1>1, <1>2, <2>2
<1>9. error' = IF FramesOf[Len(FramesOf)].neg THEN ~error ELSE error
  BY <1>8 DEF CloseBlock
<1>10. did' = "nothing" /\ UNCHANGED <<HomeOf, cmd_input>>
  BY DEF CloseBlock, HomeOf
<1> QED
  BY <1>6, <1>7, <1>9, <1>10 DEF Structured!Close, Structured!Quiet

(* Both kinds of opening brace. *)
LEMMA OpenStep ==
  ASSUME IInv, NEW l \in Lines, OpenBlock(l) \/ OpenSkippedBlock(l)
  PROVE  Structured!Open(l.cond)
<1> DEFINE live == Structured!Live /\ Structured!Applies(l.cond)
           new == [live |-> live, neg |-> live /\ "NEG" \in l.cond]
<1>1. /\ brace_level \in Nat /\ brace_level' = brace_level + 1
      /\ brace_level' < MAX_BRACE_LEVEL /\ brace_level \in Levels
  BY LevelAssumption DEF IInv, TypeOK, Levels, OpenBlock, OpenSkippedBlock
<1>2. FramesOf \in [1 .. brace_level -> Frame] /\ Len(FramesOf) = brace_level
  BY FramesType
<1>3. /\ run_level \in Nat /\ run_level <= brace_level
      /\ kbd_level \in Int /\ MAX_BRACE_LEVEL \in Nat
      /\ saved \in [Levels -> {"unset", "keep", "flip"}]
  BY LevelAssumption DEF IInv, TypeOK, Levels, RunLevelBounded
<1>4. Structured!Applies(l.cond) <=> Satisfied(l)
  BY DEF Structured!Applies, Satisfied
<1>5. live <=> OpenBlock(l)
  BY <1>4, FramesLive DEF OpenBlock, OpenSkippedBlock
<1>6. run_level' = IF live THEN brace_level + 1 ELSE run_level
  BY <1>1, <1>5 DEF OpenBlock, OpenSkippedBlock
<1>7. saved' = [saved EXCEPT ![brace_level] =
                  IF live /\ "NEG" \in l.cond THEN "flip" ELSE "keep"]
  BY <1>5 DEF OpenBlock, OpenSkippedBlock
<1>8. new \in Frame
  BY DEF Frame
<1>9. (live => run_level = brace_level) /\ live \in BOOLEAN
  BY FramesLive
<1> HIDE DEF live
<1>10. FramesOf' \in [1 .. brace_level + 1 -> Frame]
  BY <1>1 DEF FramesOf, Frame
<1>11. FramesOf'[brace_level + 1] = new
  <2>1. (brace_level + 1 <= run_level') = live
    BY <1>1, <1>3, <1>6, <1>9
  <2>2. (saved'[brace_level + 1 - 1] = "flip") = (live /\ "NEG" \in l.cond)
    BY <1>1, <1>3, <1>7
  <2>3. FramesOf'[brace_level + 1] =
          [live |-> brace_level + 1 <= run_level',
           neg |-> saved'[brace_level + 1 - 1] = "flip"]
    BY <1>1 DEF FramesOf
  <2> QED
    BY <2>1, <2>2, <2>3, Zenon
<1>12. \A i \in 1 .. brace_level : FramesOf'[i] = FramesOf[i]
  <2> SUFFICES ASSUME NEW i \in 1 .. brace_level
               PROVE  FramesOf'[i] = FramesOf[i]
    OBVIOUS
  <2>1. i \in 1 .. brace_level' /\ i - 1 # brace_level /\ i - 1 \in Levels
    BY <1>1, <1>3 DEF Levels
  <2>2. (i <= run_level') <=> (i <= run_level)
    BY <1>1, <1>3, <1>6, <1>9
  <2>3. saved'[i - 1] = saved[i - 1]
    BY <1>1, <1>3, <1>7, <2>1
  <2> QED
    BY <2>1, <2>2, <2>3 DEF FramesOf
<1>13. FramesOf' = Append(FramesOf, new)
  BY <1>1, <1>2, <1>8, <1>10, <1>11, <1>12, AppendIs
<1> DEFINE depth == IF cmd_input = "kbd" THEN kbd_level ELSE 0
<1>14. HomeOf = [i \in 1 .. depth |->
                   [live |-> TRUE, neg |-> saved[i - 1] = "flip"]]
  BY DEF HomeOf
<1>15. depth \in Nat /\ depth <= MAX_BRACE_LEVEL - 1
  BY LevelAssumption DEF IInv, NoStaleContext, Levels
<1>16. cmd_input' = cmd_input /\ kbd_level' = kbd_level /\ did' = "nothing"
  BY DEF OpenBlock, OpenSkippedBlock
<1>17. HomeOf' = [i \in 1 .. depth |->
                    [live |-> TRUE, neg |-> saved'[i - 1] = "flip"]]
  BY <1>16 DEF HomeOf
<1> HIDE DEF depth
<1>18. Len(HomeOf) = depth
  BY <1>14, <1>15
<1>19. \A i \in 1 .. depth :
          [live |-> TRUE, neg |-> saved'[i - 1] = "flip"] =
          IF i = brace_level + 1 THEN [live |-> TRUE, neg |-> new.neg]
                                 ELSE HomeOf[i]
  <2> SUFFICES ASSUME NEW i \in 1 .. depth
               PROVE  [live |-> TRUE, neg |-> saved'[i - 1] = "flip"] =
                      IF i = brace_level + 1
                        THEN [live |-> TRUE, neg |-> new.neg]
                        ELSE HomeOf[i]
    OBVIOUS
  <2>1. HomeOf[i] = [live |-> TRUE, neg |-> saved[i - 1] = "flip"]
    BY <1>14
  <2>2. i - 1 \in Levels
    BY <1>3, <1>15 DEF Levels
  <2>3. CASE i = brace_level + 1
    <3>1. (saved'[i - 1] = "flip") = new.neg
      BY <1>1, <1>3, <1>7, <2>2, <2>3
    <3> QED
      BY <2>3, <3>1, Zenon
  <2>4. CASE i # brace_level + 1
    <3>1. saved'[i - 1] = saved[i - 1]
      BY <1>1, <1>3, <1>7, <2>2, <2>4
    <3> QED
      BY <2>1, <2>4, <3>1
  <2> QED
    BY <2>3, <2>4
<1>20. HomeOf' = [i \in 1 .. Len(HomeOf) |->
                    IF i = Len(FramesOf) + 1
                      THEN [live |-> TRUE, neg |-> new.neg]
                      ELSE HomeOf[i]]
  BY <1>2, <1>17, <1>18, <1>19
<1>21. error' = IF live THEN FALSE ELSE error
  BY <1>5 DEF OpenBlock, OpenSkippedBlock
<1>22. Len(FramesOf) + 1 < MAX_BRACE_LEVEL
  BY <1>1, <1>2
<1> QED
  BY <1>13, <1>16, <1>20, <1>21, <1>22
     DEF Structured!Open, Structured!Quiet, live

(* A command that runs without leaving its blocks. *)
LEMMA RunStep ==
  ASSUME IInv, NEW l \in Lines, Executed(l), did' = l.cmd, error' \in BOOLEAN,
         UNCHANGED <<levels, kbd_level, cmd_input>>
  PROVE  Structured!Run(l.cmd, l.cond)
<1>1. Structured!Live
  BY FramesLive, LevelAssumption
     DEF Executed, Skipped, IInv, TypeOK, RunLevelBounded, Levels
<1>2. Structured!Applies(l.cond)
  BY DEF Executed, Skipped, Satisfied, Structured!Applies
<1>3. UNCHANGED <<FramesOf, HomeOf, cmd_input>>
  BY DEF FramesOf, HomeOf, levels
<1> QED
  BY <1>1, <1>2, <1>3 DEF Structured!Run

LEMMA PromptStep ==
  ASSUME IInv, NEW l \in Lines, EnterPrompt(l)
  PROVE  Structured!Run(l.cmd, l.cond)
<1>1. run_level = brace_level
  BY LevelAssumption
     DEF EnterPrompt, Executed, Skipped, IInv, TypeOK, RunLevelBounded, Levels
<1>2. Structured!Live
  BY <1>1, FramesLive
<1>3. Structured!Applies(l.cond)
  BY DEF EnterPrompt, Executed, Skipped, Satisfied, Structured!Applies
<1>4. /\ FramesOf' = FramesOf /\ did' = l.cmd /\ cmd_input' = "kbd"
      /\ error' = error /\ error \in BOOLEAN /\ saved' = saved
  BY DEF EnterPrompt, FramesOf, levels, IInv, TypeOK
<1>5. CASE cmd_input = "kbd"
  BY <1>2, <1>3, <1>4, <1>5 DEF EnterPrompt, HomeOf, Structured!Run
<1>6. CASE cmd_input # "kbd"
  <2>1. brace_level \in Nat /\ kbd_level' = brace_level
    BY <1>6, LevelAssumption DEF IInv, TypeOK, Levels, EnterPrompt
  <2>2. HomeOf' = [i \in 1 .. brace_level |->
                     [live |-> TRUE, neg |-> saved[i - 1] = "flip"]]
    BY <1>4, <2>1 DEF HomeOf
  <2>3. \A i \in 1 .. brace_level : (i <= run_level) = TRUE
    BY <1>1, <2>1
  <2>4. HomeOf' = FramesOf
    BY <2>2, <2>3 DEF FramesOf
  <2> QED
    BY <1>2, <1>3, <1>4, <1>6, <2>4 DEF Structured!Run
<1> QED
  BY <1>5, <1>6

LEMMA ReturnStep ==
  ASSUME IInv, EndPrompt
  PROVE  Structured!Return
<1>1. /\ cmd_input = "kbd" /\ cmd_input' = "file" /\ saved' = saved
      /\ brace_level' = kbd_level /\ run_level' = kbd_level
      /\ error' = FALSE /\ did' = "nothing" /\ kbd_level \in Nat
  BY LevelAssumption DEF EndPrompt, IInv, NoStaleContext, Levels
<1>2. \A i \in 1 .. kbd_level : (i <= kbd_level) = TRUE
  BY <1>1
<1>3. FramesOf' = HomeOf
  BY <1>1, <1>2 DEF FramesOf, HomeOf
<1>4. HomeOf' = << >>
  BY <1>1 DEF HomeOf
<1> QED
  BY <1>1, <1>3, <1>4 DEF Structured!Return, Structured!Quiet

LEMMA NextMapped == IInv /\ [Next]_vars => [Structured!Next]_(Structured!abstract)
<1> SUFFICES ASSUME IInv, [Next]_vars
             PROVE  [Structured!Next]_(Structured!abstract)
  OBVIOUS
<1>1. CASE Startup
  <2>1. did' = "nothing"
    BY <1>1 DEF Startup, IInv, StartInv
  <2> QED
    BY <1>1, <2>1, QuietStep DEF Startup, Structured!Next
<1>2. CASE EndFile \/ Finish
  BY <1>2, QuietStep DEF EndFile, Finish, Structured!Next
<1>3. CASE EndPrompt
  BY <1>3, ReturnStep DEF Structured!Next
<1>4. CASE Over \/ UNCHANGED vars
  BY <1>4 DEF Over, vars, Structured!abstract, FramesOf, HomeOf
<1>5. ASSUME NEW l \in Lines, Interpret(l)
      PROVE  Structured!Next
  <2>0. l.cond \in Structured!Prefixes /\ l.cmd \in Commands /\ l.fails \in BOOLEAN
    BY LinesAssumption DEF Line, Conditions, Structured!Prefixes
  <2>1. CASE Unknown(l) \/ ExtraClose(l) \/ CloseNothing(l) \/ Skip(l) \/ Refuse(l)
    BY <2>1, QuietStep
       DEF Unknown, ExtraClose, CloseNothing, Skip, Refuse, Structured!Next
  <2>2. CASE CloseBlock(l)
    BY <2>2, CloseStep DEF Structured!Next
  <2>3. CASE OpenBlock(l) \/ OpenSkippedBlock(l)
    BY <2>0, <2>3, OpenStep DEF Structured!Next
  <2>4. CASE TooManyLevels(l)
    BY <2>4 DEF TooManyLevels, levels, FramesOf, HomeOf, Structured!GiveUp,
         Structured!Next
  <2>5. CASE SetConfInit(l) \/ SetForceInit(l)
    <3>1. Structured!Run(l.cmd, l.cond)
      BY <2>5, RunStep DEF SetConfInit, SetForceInit, IInv, TypeOK
    <3> QED
      BY <2>0, <3>1 DEF Structured!Next
  <2>6. CASE EnterPrompt(l)
    BY <2>0, <2>6, PromptStep DEF Structured!Next
  <2>7. CASE RunCommand(l) \/ FallThrough(l) \/ LeaveForGood(l)
    <3>1. Result(l, l.fails) \in BOOLEAN /\ Result(l, FALSE) \in BOOLEAN
          /\ Result(l, l.cmd = "halt") \in BOOLEAN
      BY <2>0 DEF Result
    <3>2. error \in BOOLEAN
      BY DEF IInv, TypeOK
    <3>3. error' \in BOOLEAN
      BY <2>7, <3>1, <3>2 DEF RunCommand, FallThrough, LeaveForGood
    <3>4. Structured!Run(l.cmd, l.cond)
      BY <2>7, <3>3, RunStep DEF RunCommand, FallThrough, LeaveForGood
    <3> QED
      BY <2>0, <3>4 DEF Structured!Next
  <2> QED
    BY <1>5, <2>1, <2>2, <2>3, <2>4, <2>5, <2>6, <2>7 DEF Interpret
<1> QED
  BY <1>1, <1>2, <1>3, <1>4, <1>5 DEF Next

(* The interpreter's level counters implement the stack of blocks.         *)
THEOREM Refinement == Spec => ImplementsBlocks
BY InitMapped, NextMapped, Inductive, PTL
   DEF Spec, ImplementsBlocks, Structured!Spec
=============================================================================
