--------------------------- MODULE CommandsProofs ---------------------------
(* Proofs about the commands of preinit that act on the system.            *)
EXTENDS TarExtract, Exec, FindPart, Mounts, EnvStore, MultiDev,
        SequenceTheorems, WellFoundedInduction, TLAPS

-----------------------------------------------------------------------------
(* ex and rx (Exec).                                                       *)

ExecTypeOK ==
  /\ xtoken \in {"ex", "rx", "br"}
  /\ state \in [Procs -> {"none", "runs", "zombie", "gone"}]
  /\ parent \in [Procs -> Procs \cup {"init"}]
  /\ status \in [Procs -> 0 .. Killed]
  /\ lpc \in {"none", "chroot", "fork", "wait", "drain", "exited"}
  /\ xpc \in {"fork", "wait", "returned", "replaced"}
  /\ collected \in 0 .. 255

(* Where the leader is tells how far the job is; a leader that ended        *)
(* without being killed leaves the status of a job that was reaped.        *)
LeaderInv ==
  /\ parent["leader"] = "init"
  /\ lpc = "none" <=> state["leader"] = "none"
  /\ lpc \in {"none", "chroot", "fork"} => state["job"] = "none"
  /\ lpc = "wait" /\ LeaderRuns =>
       parent["job"] = "leader" /\ state["job"] \in {"runs", "zombie"}
  /\ lpc = "drain" => state["job"] = "gone" /\ collected = ExitStatus(status["job"])
  /\ lpc = "exited" =>
       \/ state["job"] = "none" /\ status["leader"] = 1
       \/ state["job"] = "gone" /\ status["leader"] = ExitStatus(status["job"]) /\ ~output
  /\ lpc = "exited" => ~LeaderRuns
  /\ state["leader"] \in {"zombie", "gone"} => lpc = "exited" \/ status["leader"] = Killed

(* Process 1 goes on once it has reaped the leader, with its status.       *)
WaitInv ==
  /\ xpc = "fork" => lpc = "none"
  /\ xpc = "wait" => lpc # "none" /\ state["leader"] # "gone"
  /\ xpc = "returned" /\ lpc # "none" =>
       /\ state["leader"] = "gone"
       /\ error_num = ExitStatus(status["leader"])
       /\ error = IF error_num = 0 THEN 0 ELSE 1

ExecInv == ExecTypeOK /\ LeaderInv /\ WaitInv

LEMMA ProcsAre ==
  /\ "leader" \in Procs /\ "job" \in Procs /\ "leader" \notin Daemons /\ "job" \notin Daemons
  /\ "init" \notin Procs
  BY DaemonsAssumption DEF Procs

LEMMA ExecInitial == ExecInit => ExecInv
<1> SUFFICES ASSUME ExecInit PROVE ExecInv
  OBVIOUS
<1>1. state["leader"] = "none" /\ state["job"] = "none"
  BY ProcsAre DEF ExecInit
<1>2. ExecTypeOK
  BY DEF ExecInit, ExecTypeOK, Killed
<1> QED
  BY <1>1, <1>2, ProcsAre DEF ExecInit, ExecInv, LeaderInv, WaitInv, LeaderRuns

(* What a program that ends, other than the leader, leaves of the types.   *)
LEMMA EndsTyped ==
  ASSUME ExecTypeOK, NEW p \in Procs, NEW s \in 0 .. Killed, Ends(p, s)
  PROVE  /\ state' \in [Procs -> {"none", "runs", "zombie", "gone"}]
         /\ parent' \in [Procs -> Procs \cup {"init"}]
         /\ status' \in [Procs -> 0 .. Killed]
  BY DEF Ends, ExecTypeOK

LEMMA ExecKept == ExecInv /\ [ExecNext]_xvars => ExecInv'
<1> SUFFICES ASSUME ExecInv, [ExecNext]_xvars PROVE ExecInv'
  OBVIOUS
<1> USE ProcsAre DEF ExecInv
<1>1. CASE UNCHANGED xvars
  BY <1>1 DEF xvars, ExecTypeOK, LeaderInv, WaitInv, LeaderRuns
<1>2. CASE Fork
  <2>1. CASE /\ state' = [state EXCEPT !["leader"] = "runs"]
             /\ lpc' = "chroot"
             /\ xpc' = "wait"
    <3>1. ExecTypeOK'
      BY <1>2, <2>1 DEF Fork, ExecTypeOK
    <3>2. state'["leader"] = "runs" /\ state'["job"] = state["job"]
      BY <2>1 DEF ExecTypeOK
    <3> QED
      BY <1>2, <2>1, <3>1, <3>2 DEF Fork, LeaderInv, WaitInv, LeaderRuns
  <2>2. CASE xpc' = "returned" /\ UNCHANGED <<state, lpc>>
    BY <1>2, <2>2 DEF Fork, ExecTypeOK, LeaderInv, WaitInv, LeaderRuns
  <2> QED
    BY <1>2, <2>1, <2>2 DEF Fork
<1>3. CASE Become
  BY <1>3 DEF Become, ExecTypeOK, LeaderInv, WaitInv, LeaderRuns
<1>4. CASE Wait
  <2>1. PICK p \in Procs :
          /\ parent[p] = "init" /\ state[p] = "zombie"
          /\ state' = [state EXCEPT ![p] = "gone"]
          /\ IF p = "leader"
             THEN /\ error_num' = ExitStatus(status[p])
                  /\ error' = IF error_num' = 0 THEN 0 ELSE 1
                  /\ xpc' = "returned"
             ELSE error' = status[p] /\ UNCHANGED <<error_num, xpc>>
    BY <1>4 DEF Wait
  <2>2. UNCHANGED <<xtoken, parent, status, inside, output, lpc, collected>> /\ xpc = "wait"
    BY <1>4 DEF Wait
  <2>3. ExecTypeOK'
    BY <2>1, <2>2 DEF ExecTypeOK
  <2>4. CASE p = "leader"
    <3>1. state'["leader"] = "gone" /\ state'["job"] = state["job"]
      BY <2>1, <2>4 DEF ExecTypeOK
    <3>2. LeaderInv'
      BY <2>1, <2>2, <2>4, <3>1 DEF LeaderInv, LeaderRuns
    <3>3. WaitInv'
      BY <2>1, <2>2, <2>4, <3>1 DEF WaitInv
    <3> QED
      BY <2>3, <3>2, <3>3
  <2>5. CASE p = "job"
    <3>1. state'["leader"] = state["leader"] /\ state'["job"] = "gone"
      BY <2>1, <2>5 DEF ExecTypeOK
    <3>2. ~(lpc = "wait" /\ LeaderRuns) /\ lpc \notin {"none", "chroot", "fork", "exited"}
      BY <2>1, <2>5 DEF LeaderInv
    <3>3. LeaderInv'
      BY <2>1, <2>2, <2>5, <3>1, <3>2 DEF LeaderInv, LeaderRuns
    <3> QED
      BY <2>1, <2>2, <2>3, <2>5, <3>1, <3>3 DEF WaitInv
  <2>6. CASE p \notin {"leader", "job"}
    <3>1. state'["leader"] = state["leader"] /\ state'["job"] = state["job"]
      BY <2>1, <2>6 DEF ExecTypeOK
    <3> QED
      BY <2>1, <2>2, <2>3, <2>6, <3>1 DEF LeaderInv, WaitInv, LeaderRuns
  <2> QED
    BY <2>4, <2>5, <2>6
<1>5. CASE Chroot
  BY <1>5 DEF Chroot, ExecTypeOK, LeaderInv, WaitInv, LeaderRuns
<1>6. CASE ForkJob
  <2>1. CASE /\ state' = [state EXCEPT !["job"] = "runs"]
             /\ parent' = [parent EXCEPT !["job"] = "leader"]
             /\ lpc' = "wait"
             /\ status' = status
    <3>1. ExecTypeOK'
      BY <1>6, <2>1 DEF ForkJob, ExecTypeOK
    <3>2. /\ state'["leader"] = "runs" /\ state'["job"] = "runs"
          /\ parent'["leader"] = "init" /\ parent'["job"] = "leader"
      BY <1>6, <2>1 DEF ForkJob, ExecTypeOK, LeaderInv, LeaderRuns
    <3> QED
      BY <1>6, <2>1, <3>1, <3>2 DEF ForkJob, LeaderInv, WaitInv, LeaderRuns
  <2>2. CASE Ends("leader", 1) /\ lpc' = "exited"
    <3>1. ExecTypeOK'
      <4>1. 1 \in 0 .. Killed
        BY DEF Killed
      <4> QED
        BY <1>6, <2>2, <4>1, EndsTyped DEF ForkJob, ExecTypeOK
    <3>2. /\ state'["leader"] = "zombie" /\ state'["job"] = "none"
          /\ parent'["leader"] = "init" /\ status'["leader"] = 1
      BY <1>6, <2>2 DEF ForkJob, Ends, ExecTypeOK, LeaderInv, LeaderRuns
    <3> QED
      BY <1>6, <2>2, <3>1, <3>2 DEF ForkJob, LeaderInv, WaitInv, LeaderRuns
  <2> QED
    BY <1>6, <2>1, <2>2 DEF ForkJob
<1>7. CASE Collect
  <2>1. state' = [state EXCEPT !["job"] = "gone"] /\ collected' = ExitStatus(status["job"])
        /\ lpc = "wait" /\ lpc' = "drain" /\ LeaderRuns
        /\ UNCHANGED <<xtoken, parent, status, output, xpc, error, error_num>>
    BY <1>7 DEF Collect
  <2>2. collected' \in 0 .. 255
    BY <2>1 DEF ExecTypeOK, ExitStatus, Killed
  <2>3. ExecTypeOK'
    BY <2>1, <2>2 DEF ExecTypeOK
  <2>4. state'["leader"] = "runs" /\ state'["job"] = "gone"
    BY <2>1 DEF ExecTypeOK, LeaderRuns
  <2> QED
    BY <2>1, <2>3, <2>4 DEF LeaderInv, WaitInv, LeaderRuns
<1>8. CASE Drain
  <2>1. ExecTypeOK'
    <3>1. collected \in 0 .. Killed
      BY DEF ExecTypeOK, Killed
    <3> QED
      BY <1>8, <3>1, EndsTyped DEF Drain, ExecTypeOK
  <2>2. /\ state'["leader"] = "zombie" /\ state'["job"] = state["job"]
        /\ parent'["leader"] = "init"
        /\ status'["leader"] = collected /\ status'["job"] = status["job"]
    BY <1>8 DEF Drain, Ends, ExecTypeOK, LeaderInv
  <2> QED
    BY <1>8, <2>1, <2>2 DEF Drain, LeaderInv, WaitInv, LeaderRuns
<1>9. CASE LeaderKilled
  <2>1. ExecTypeOK'
    <3>1. Killed \in 0 .. Killed
      BY DEF Killed
    <3> QED
      BY <1>9, <3>1, EndsTyped DEF LeaderKilled, Unmoved, ExecTypeOK
  <2>2. /\ state'["leader"] = "zombie" /\ state'["job"] = state["job"]
        /\ parent'["leader"] = "init"
        /\ status'["leader"] = Killed /\ status'["job"] = status["job"]
    BY <1>9 DEF LeaderKilled, Ends, ExecTypeOK, LeaderInv
  <2> QED
    BY <1>9, <2>1, <2>2 DEF LeaderKilled, Unmoved, LeaderInv, WaitInv, LeaderRuns
<1>10. CASE JobPrints \/ Written
  <2>1. UNCHANGED <<state, parent, status>> /\ Unmoved
    BY <1>10 DEF JobPrints, Written
  <2>2. output' => state["job"] = "runs"
    BY <1>10 DEF JobPrints, Written
  <2> QED
    BY <2>1, <2>2 DEF Unmoved, ExecTypeOK, LeaderInv, WaitInv, LeaderRuns
(* The job ends in the hands of its leader, a daemon in those of process 1. *)
<1>11. ASSUME NEW p \in Procs \ {"leader"}, ProgramEnds(p) PROVE ExecInv'
  <2>1. PICK s \in 0 .. Killed : Ends(p, s)
    BY <1>11, CodesAssumption DEF ProgramEnds, Killed
  <2>2. ExecTypeOK'
    BY <1>11, <2>1, EndsTyped DEF ProgramEnds, Unmoved, ExecTypeOK
  <2>3. /\ state'["leader"] = state["leader"] /\ status'["leader"] = status["leader"]
        /\ parent'["leader"] = "init"
    BY <1>11, <2>1 DEF Ends, ExecTypeOK, LeaderInv
  <2>4. UNCHANGED <<lpc, xpc, collected, output, error, error_num>> /\ state[p] = "runs"
    BY <1>11 DEF ProgramEnds, Unmoved
  <2>5. CASE p = "job"
    <3>1. state'["job"] = "zombie" /\ (parent["job"] = "leader" => parent'["job"] = "leader")
      BY <2>1, <2>5 DEF Ends, ExecTypeOK, LeaderInv
    <3> QED
      BY <2>2, <2>3, <2>4, <2>5, <3>1 DEF LeaderInv, WaitInv, LeaderRuns
  <2>6. CASE p # "job"
    <3>1. state'["job"] = state["job"] /\ status'["job"] = status["job"]
      BY <2>1, <2>6 DEF Ends, ExecTypeOK
    <3>2. parent["job"] = "leader" => parent'["job"] = "leader"
      BY <1>11, <2>1 DEF Ends, ExecTypeOK
    <3> QED
      BY <2>2, <2>3, <2>4, <3>1, <3>2 DEF LeaderInv, WaitInv, LeaderRuns
  <2> QED
    BY <2>5, <2>6
<1>12. ASSUME NEW d \in Daemons, Spawn(d) PROVE ExecInv'
  <2>1. d \in Procs /\ d \notin {"leader", "job"}
    BY DEF Procs
  <2>2. ExecTypeOK'
    BY <1>12, <2>1 DEF Spawn, Unmoved, ExecTypeOK
  <2>3. /\ state'["leader"] = state["leader"] /\ state'["job"] = state["job"]
        /\ parent'["leader"] = parent["leader"] /\ parent'["job"] = parent["job"]
    BY <1>12, <2>1 DEF Spawn, ExecTypeOK
  <2> QED
    BY <1>12, <2>2, <2>3 DEF Spawn, Unmoved, LeaderInv, WaitInv, LeaderRuns
<1> QED
  BY <1>1, <1>2, <1>3, <1>4, <1>5, <1>6, <1>7, <1>8, <1>9, <1>10, <1>11, <1>12
     DEF ExecNext, ExecStep, LeaderStep

(* Whatever other children process 1 reaps meanwhile, ex and rx give the    *)
(* status of the job once it ended and its output is written; or an error   *)
(* for a fork that failed or a leader that was killed.                     *)
THEOREM ExecStatus == ExecSpec => []StatusIsJobs
<1>1. ExecInv => StatusIsJobs
  <2> SUFFICES ASSUME ExecInv, xpc = "returned", lpc # "none"
               PROVE  /\ state["leader"] = "gone"
                      /\ error = IF error_num = 0 THEN 0 ELSE 1
                      /\ IF status["leader"] = Killed \/ state["job"] = "none" THEN error_num = 1
                         ELSE /\ state["job"] = "gone"
                              /\ error_num = ExitStatus(status["job"])
                              /\ ~output
    BY DEF StatusIsJobs
  <2>1. /\ state["leader"] = "gone" /\ error_num = ExitStatus(status["leader"])
        /\ error = IF error_num = 0 THEN 0 ELSE 1
    BY DEF ExecInv, WaitInv
  <2>2. CASE status["leader"] = Killed
    BY <2>1, <2>2 DEF ExitStatus
  <2>3. CASE status["leader"] # Killed
    BY <2>1, <2>3 DEF ExitStatus, ExecInv, LeaderInv, Killed
  <2> QED
    BY <2>1, <2>2, <2>3
<1> QED
  BY <1>1, ExecInitial, ExecKept, PTL DEF ExecSpec

-----------------------------------------------------------------------------
(* fp (FindPart).                                                          *)

(* A set of naturals that is not empty has a least element.                *)
LEMMA LeastNat ==
  ASSUME NEW T \in SUBSET Nat, T # {}
  PROVE  \E n \in T : \A m \in T : n <= m
<1> DEFINE R == OpToRel(<, Nat)
<1>1. \E x \in T : \A y \in T : ~ (<<y, x>> \in R)
  <2>1. IsWellFoundedOn(R, Nat)
    BY NatLessThanWellFounded
  <2> HIDE DEF R
  <2> QED  BY <2>1, WFMin
<1>2. \A x, y \in Nat : <<y, x>> \notin R => x <= y
  BY DEF OpToRel
<1> HIDE DEF R
<1> QED  BY <1>1, <1>2

(* The order of detection on triples and on pairs.                         *)
LEMMA BeforeTriples ==
  ASSUME NEW s \in Nat \X Nat \X Nat, NEW t \in Nat \X Nat \X Nat
  PROVE  Before(s, t) <=> \/ s[1] < t[1]
                          \/ s[1] = t[1] /\ s[2] < t[2]
                          \/ s[1] = t[1] /\ s[2] = t[2] /\ s[3] < t[3]
<1>1. DOMAIN s = 1 .. 3 /\ \A k \in 1 .. 3 : s[k] \in Nat /\ t[k] \in Nat
  OBVIOUS
<1>2. 1 .. 3 = {1, 2, 3} /\ 1 .. 1 - 1 = {} /\ 1 .. 2 - 1 = {1} /\ 1 .. 3 - 1 = {1, 2}
  OBVIOUS
<1>3. Before(s, t) <=> \E k \in {1, 2, 3} : s[k] < t[k] /\ \A m \in 1 .. k - 1 : s[m] = t[m]
  BY <1>1, <1>2 DEF Before
<1> QED  BY <1>2, <1>3

(* A set of triples of naturals that is not empty has a first one.         *)
LEMMA FirstTriple ==
  ASSUME NEW S \in SUBSET (Nat \X Nat \X Nat), S # {}
  PROVE  First(S) \in S /\ \A t \in S \ {First(S)} : Before(First(S), t)
<1>1. PICK a \in {s[1] : s \in S} : \A b \in {s[1] : s \in S} : a <= b
  <2> {s[1] : s \in S} \in SUBSET Nat /\ {s[1] : s \in S} # {}
    OBVIOUS
  <2> QED  BY LeastNat
<1> DEFINE S1 == {s \in S : s[1] = a}
<1>2. PICK b \in {s[2] : s \in S1} : \A x \in {s[2] : s \in S1} : b <= x
  <2> {s[2] : s \in S1} \in SUBSET Nat /\ {s[2] : s \in S1} # {}
    BY <1>1
  <2> QED  BY LeastNat
<1> DEFINE S2 == {s \in S1 : s[2] = b}
<1>3. PICK c \in {s[3] : s \in S2} : \A x \in {s[3] : s \in S2} : c <= x
  <2> {s[3] : s \in S2} \in SUBSET Nat /\ {s[3] : s \in S2} # {}
    BY <1>2
  <2> QED  BY LeastNat
<1>4. PICK s \in S : s[1] = a /\ s[2] = b /\ s[3] = c
  BY <1>3
<1>5. ASSUME NEW t \in S, t # s PROVE Before(s, t)
  <2>1. t \in Nat \X Nat \X Nat /\ s \in Nat \X Nat \X Nat
    OBVIOUS
  <2>2. t = <<t[1], t[2], t[3]>> /\ s = <<s[1], s[2], s[3]>>
    BY <2>1
  <2>3. a <= t[1]
    BY <1>1
  <2>4. t[1] = a => b <= t[2]
    BY <1>2
  <2>5. t[1] = a /\ t[2] = b => c <= t[3]
    BY <1>3
  <2>6. t[1] # s[1] \/ t[2] # s[2] \/ t[3] # s[3]
    BY <1>5, <2>2
  <2>7. /\ s[1] \in Nat
        /\ s[2] \in Nat
        /\ s[3] \in Nat
        /\ t[1] \in Nat
        /\ t[2] \in Nat
        /\ t[3] \in Nat
    BY <2>1
  <2> QED  BY <1>4, <2>1, <2>3, <2>4, <2>5, <2>6, <2>7, BeforeTriples
<1> QED  BY <1>5 DEF First

(* What fp knows: the rank it has is the least of the candidates it has    *)
(* examined.                                                               *)
FindInv ==
  /\ pc \in {"idle", "scan", "crashed"}
  /\ disks \in Tables
  /\ img \in {"image1", "image2"}
  /\ pc = "scan" =>
       /\ types \in Lists
       /\ todo \subseteq Candidates
       /\ \/ best_pos = MAX_CFG_ARGS /\ \A c \in Candidates \ todo : Ranks(c) = {}
          \/ /\ \E c \in Candidates : best_pos \in Ranks(c)
             /\ \A c \in Candidates \ todo : \A r \in Ranks(c) : best_pos <= r

(* The ranks are below MAX_CFG_ARGS, which stands for none.                *)
LEMMA RanksBounded ==
  ASSUME types \in Lists, NEW c
  PROVE  Ranks(c) \subseteq 0 .. MAX_CFG_ARGS - 1
<1> DEFINE wanted == IF types = <<>> THEN <<"squashfs">> ELSE types
<1>1. /\ DOMAIN wanted = 1 .. Len(wanted)
      /\ Len(wanted) \in Nat
      /\ Len(wanted) < MAX_CFG_ARGS
  <2>1. types \in Seq(STRING) /\ Len(types) < MAX_CFG_ARGS
    BY ListsAssumption
  <2>2. CASE types = <<>>
    <3>1. wanted = <<"squashfs">>
      BY <2>2
    <3> HIDE DEF wanted
    <3> QED  BY <3>1 DEF MAX_CFG_ARGS
  <2>3. CASE types # <<>>
    <3>1. wanted = types
      BY <2>3
    <3> HIDE DEF wanted
    <3> QED  BY <2>1, <3>1
  <2> QED  BY <2>2, <2>3
<1>2. Ranks(c) = {k - 1 : k \in {n \in DOMAIN wanted :
        wanted[n] \in {Part(Image1(c)).type, Part(Image2(c)).type}}}
  BY DEF Ranks
<1> HIDE DEF wanted
<1>3. \A k \in 1 .. Len(wanted) : k - 1 \in 0 .. MAX_CFG_ARGS - 1
  BY <1>1 DEF MAX_CFG_ARGS
<1> QED  BY <1>1, <1>2, <1>3

LEMMA CandidatesTyped ==
  ASSUME disks \in Tables
  PROVE  Candidates \in SUBSET (Nat \X Nat \X Nat)
<1> SUFFICES ASSUME NEW d \in DOMAIN disks,
                    NEW c \in {d} \X (DOMAIN disks[d]) \X (DOMAIN disks[d])
             PROVE  c \in Nat \X Nat \X Nat
  BY DEF Candidates
<1>1. disks \in Seq(Seq([size : Nat, type : STRING]))
  BY TablesAssumption
<1>2. d \in Nat /\ disks[d] \in Seq([size : Nat, type : STRING])
  BY <1>1
<1>3. DOMAIN disks[d] \subseteq Nat
  BY <1>2
<1> QED  BY <1>2, <1>3

LEMMA FindInitial == FindInit => FindInv
BY DEF FindInit, FindInv

(* One candidate is examined.                                              *)
LEMMA ExamineKept == FindInv /\ Examine => FindInv'
<1> SUFFICES ASSUME FindInv, Examine
             PROVE  FindInv'
  OBVIOUS
<1> DEFINE c == First(todo)
           rank == CHOOSE r \in Ranks(c) : \A s \in Ranks(c) : r <= s
<1>1. /\ pc = "scan" /\ pc' = "scan"
      /\ disks' = disks /\ types' = types /\ img' = img
      /\ img \in {"image1", "image2"}
      /\ todo # {} /\ todo' = todo \ {c}
      /\ types \in Lists /\ disks \in Tables
      /\ todo \subseteq Candidates
  BY DEF FindInv, Examine
<1>2. c \in todo
  BY <1>1, CandidatesTyped, FirstTriple
<1>3. Candidates' = Candidates
  BY <1>1 DEF Candidates
<1>4. \A x : Ranks(x)' = Ranks(x)
  BY <1>1 DEF Ranks, Part, Image1, Image2
<1> DEFINE old == Candidates \ todo
<1>5. Candidates' \ todo' = old \cup {c}
  BY <1>1, <1>2, <1>3
<1>6. CASE Ranks(c) = {}
  <2>1. best_pos' = best_pos
    BY <1>6 DEF Examine
  <2> QED  BY <1>1, <1>3, <1>4, <1>5, <1>6, <2>1 DEF FindInv
<1>7. CASE Ranks(c) # {}
  <2>1. best_pos' = IF rank < best_pos THEN rank ELSE best_pos
    BY <1>7 DEF Examine
  <2>2. \A x : Ranks(x) \subseteq 0 .. MAX_CFG_ARGS - 1
    BY <1>1, RanksBounded
  <2>3. rank \in Ranks(c) /\ \A s \in Ranks(c) : rank <= s
    <3>1. Ranks(c) \in SUBSET Nat
      BY <2>2 DEF MAX_CFG_ARGS
    <3> QED  BY <1>7, <3>1, LeastNat
  <2> HIDE DEF rank
  <2>4. rank \in 0 .. MAX_CFG_ARGS - 1
    BY <2>2, <2>3
  <2>5. c \in Candidates
    BY <1>1, <1>2
  <2> HIDE DEF c
  <2>6. CASE best_pos = MAX_CFG_ARGS /\ \A x \in old : Ranks(x) = {}
    <3>1. best_pos' = rank
      BY <2>1, <2>4, <2>6 DEF MAX_CFG_ARGS
    <3> QED  BY <1>1, <1>3, <1>4, <1>5, <2>3, <2>5, <2>6, <3>1 DEF FindInv
  <2>7. CASE /\ \E x \in Candidates : best_pos \in Ranks(x)
             /\ \A x \in old : \A r \in Ranks(x) : best_pos <= r
    <3>1. best_pos \in 0 .. MAX_CFG_ARGS - 1
      BY <2>2, <2>7
    <3>2. best_pos' \in {rank, best_pos} /\ best_pos' <= rank /\ best_pos' <= best_pos
      BY <2>1, <2>4, <3>1
    <3>3. \E x \in Candidates : best_pos' \in Ranks(x)
      BY <2>3, <2>5, <2>7, <3>2
    <3>4. ASSUME NEW x \in old \cup {c}, NEW r \in Ranks(x)
          PROVE  best_pos' <= r
      <4>1. r \in 0 .. MAX_CFG_ARGS - 1
        BY <2>2
      <4>2. best_pos <= r \/ rank <= r
        BY <2>3, <2>7
      <4> QED  BY <2>4, <3>1, <3>2, <4>1, <4>2 DEF MAX_CFG_ARGS
    <3> QED  BY <1>1, <1>3, <1>4, <1>5, <3>3, <3>4 DEF FindInv
  <2> QED  BY <1>1, <2>6, <2>7 DEF FindInv
<1> QED  BY <1>6, <1>7

LEMMA FindKept == FindInv /\ [FindNext]_fpvars => FindInv'
<1> SUFFICES ASSUME FindInv, [FindNext]_fpvars
             PROVE  FindInv'
  OBVIOUS
<1>1. CASE Rescan
  BY <1>1 DEF Rescan, FindInv
<1>2. CASE Examine
  BY <1>2, ExamineKept
<1>3. CASE Pick
  BY <1>3 DEF Pick, FindInv
<1>4. CASE Crashed
  BY <1>4 DEF Crashed, fpvars, FindInv
<1>5. ASSUME NEW which \in {"image1", "image2"}, NEW list \in Lists,
             FindPart(which, list)
      PROVE  FindInv'
  <2>1. Candidates' = Candidates
    BY <1>5 DEF FindPart, Candidates
  <2>2. todo' = Candidates /\ best_pos' = MAX_CFG_ARGS /\ pc' = "scan"
        /\ types' = list /\ disks' = disks /\ img' = which
    BY <1>5 DEF FindPart
  <2> QED  BY <2>1, <2>2 DEF FindInv
<1>6. CASE UNCHANGED fpvars
  <2>1. Candidates' = Candidates /\ \A x : Ranks(x)' = Ranks(x)
    BY <1>6 DEF fpvars, Candidates, Ranks, Part, Image1, Image2
  <2> QED  BY <1>6, <2>1 DEF fpvars, FindInv
<1> QED  BY <1>1, <1>2, <1>3, <1>4, <1>5, <1>6 DEF FindNext

(* When fp stops its search, at its end or early, the rank it has found is *)
(* the least of all candidates of the table: those it has not examined     *)
(* can only be worse than rank 0.                                          *)
THEOREM BestIsFound == FindSpec => []BestIsLeast
<1>1. FindInv => BestIsLeast
  <2> SUFFICES ASSUME FindInv, pc = "scan", todo = {} \/ best_pos = 0
               PROVE  LET all == UNION {Ranks(c) : c \in Candidates}
                      IN IF all = {} THEN best_pos = MAX_CFG_ARGS
                         ELSE best_pos \in all /\ \A r \in all : best_pos <= r
    BY DEF BestIsLeast
  <2>1. \A c : Ranks(c) \subseteq 0 .. MAX_CFG_ARGS - 1
    BY RanksBounded DEF FindInv
  <2>2. CASE best_pos = MAX_CFG_ARGS /\ \A c \in Candidates \ todo : Ranks(c) = {}
    BY <2>2 DEF MAX_CFG_ARGS
  <2>3. CASE /\ \E c \in Candidates : best_pos \in Ranks(c)
             /\ \A c \in Candidates \ todo : \A r \in Ranks(c) : best_pos <= r
    <3>1. ASSUME NEW c \in Candidates, NEW r \in Ranks(c)
          PROVE  best_pos <= r
      <4>1. r \in Nat
        BY <2>1 DEF MAX_CFG_ARGS
      <4> QED  BY <2>3, <4>1
    <3> QED  BY <2>3, <3>1
  <2> QED  BY <2>2, <2>3 DEF FindInv
<1> QED  BY <1>1, FindInitial, FindKept, PTL DEF FindSpec

(* One type, or none, has rank 0.                                          *)
LEMMA RankOfOne ==
  ASSUME types \in Lists, Len(types) < 2, NEW c
  PROVE  Ranks(c) \subseteq {0}
<1> DEFINE wanted == IF types = <<>> THEN <<"squashfs">> ELSE types
<1>1. DOMAIN wanted \subseteq {1}
  <2>1. types \in Seq(STRING)
    BY ListsAssumption
  <2>2. CASE types = <<>>
    <3>1. wanted = <<"squashfs">>
      BY <2>2
    <3> HIDE DEF wanted
    <3> QED  BY <3>1
  <2>3. CASE types # <<>>
    <3>1. wanted = types
      BY <2>3
    <3> HIDE DEF wanted
    <3> QED  BY <2>1, <3>1
  <2> QED  BY <2>2, <2>3
<1>2. Ranks(c) = {k - 1 : k \in {n \in DOMAIN wanted :
        wanted[n] \in {Part(Image1(c)).type, Part(Image2(c)).type}}}
  BY DEF Ranks
<1> HIDE DEF wanted
<1> QED  BY <1>1, <1>2

(* The images of a candidate are partitions, and each tells the other.     *)
LEMMA PartsTyped ==
  ASSUME disks \in Tables
  PROVE  Parts \subseteq Nat \X Nat
<1> SUFFICES ASSUME NEW d \in DOMAIN disks, NEW p \in {d} \X (DOMAIN disks[d])
             PROVE  p \in Nat \X Nat
  BY DEF Parts
<1>1. disks \in Seq(Seq([size : Nat, type : STRING]))
  BY TablesAssumption
<1>2. d \in Nat /\ disks[d] \in Seq([size : Nat, type : STRING])
  BY <1>1
<1> QED  BY <1>2

LEMMA ImagesAre ==
  ASSUME disks \in Tables, NEW c \in Candidates
  PROVE  /\ c[1] \in Nat
         /\ c[3] \in Nat
         /\ Image1(c) \in Parts
         /\ Image2(c) \in Parts
<1>1. PICK d \in DOMAIN disks :
        /\ c \in {d} \X (DOMAIN disks[d]) \X (DOMAIN disks[d])
        /\ c[3] < Len(disks[d])
  BY DEF Candidates
<1>2. disks \in Seq(Seq([size : Nat, type : STRING]))
  BY TablesAssumption
<1>3. d \in Nat /\ disks[d] \in Seq([size : Nat, type : STRING])
  BY <1>2
<1>4. c[1] = d /\ c[3] \in Nat /\ c[3] \in DOMAIN disks[d]
  BY <1>1, <1>3
<1>5. c[3] + 1 \in DOMAIN disks[d]
  BY <1>1, <1>3, <1>4
<1> QED  BY <1>3, <1>4, <1>5 DEF Parts, Image1, Image2

LEMMA ImagesTell ==
  ASSUME disks \in Tables, NEW c \in Candidates, NEW d \in Candidates
  PROVE  /\ Image1(c) # Image2(c)
         /\ Image1(c) = Image1(d) <=> Image2(c) = Image2(d)
         /\ Image1(c) = Image1(d) => Ranks(c) = Ranks(d)
<1>1. /\ c[1] \in Nat
      /\ c[3] \in Nat
      /\ d[1] \in Nat
      /\ d[3] \in Nat
  BY ImagesAre
<1>2. Image1(c) # Image2(c)
  BY <1>1 DEF Image1, Image2
<1>3. Image1(c) = Image1(d) <=> Image2(c) = Image2(d)
  BY <1>1 DEF Image1, Image2
<1> QED  BY <1>2, <1>3 DEF Ranks

(* The least rank of a candidate.                                          *)
Least(c) == CHOOSE r \in Ranks(c) : \A s \in Ranks(c) : r <= s

LEMMA LeastIs ==
  ASSUME types \in Lists, NEW c, Ranks(c) # {}
  PROVE  /\ Least(c) \in Ranks(c)
         /\ Least(c) \in 0 .. MAX_CFG_ARGS - 1
         /\ \A s \in Ranks(c) : Least(c) <= s
<1>1. Ranks(c) \subseteq 0 .. MAX_CFG_ARGS - 1
  BY RanksBounded
<1>2. Ranks(c) \in SUBSET Nat
  BY <1>1 DEF MAX_CFG_ARGS
<1>3. Least(c) \in Ranks(c) /\ \A s \in Ranks(c) : Least(c) <= s
  BY <1>2, LeastNat DEF Least
<1> QED  BY <1>1, <1>3

(* The marks fp leaves on a table that carried none: the candidates that   *)
(* were examined and have a wanted type are marked.  Without overlap, each *)
(* keeps its own rank; with one type, the first of them ended the search.  *)
Marked == {c \in Candidates \ todo : Ranks(c) # {}}
Clean ==
  /\ flags = [p \in Parts |-> {}]
  /\ pref = [p \in Parts |-> 0]
OnlyMarked(c) ==
  /\ flags = [p \in Parts |-> IF p = Image1(c) THEN {"IMAGE1"}
                              ELSE IF p = Image2(c) THEN {"IMAGE2"} ELSE {}]
  /\ pref = [p \in Parts |-> 0]
MarksAre ==
  /\ \A p \in Parts : "IMAGE1" \in flags[p] <=> \E c \in Marked : p = Image1(c)
  /\ \A p \in Parts : "IMAGE2" \in flags[p] <=> \E c \in Marked : p = Image2(c)
  /\ \A c \in Marked : pref[Image1(c)] = Least(c) /\ pref[Image2(c)] = Least(c)
FirstOfRank0(c) ==
  /\ c \in Candidates
  /\ 0 \in Ranks(c)
  /\ \A d \in Candidates : 0 \in Ranks(d) => d = c \/ Before(c, d)
MarksInv ==
  /\ DOMAIN flags = Parts
  /\ DOMAIN pref = Parts
  /\ pc = "scan" =>
       /\ best_pos = MAX_CFG_ARGS => Marked = {}
       /\ best_pos # MAX_CFG_ARGS => \E c \in Marked : best_pos = Least(c)
  /\ fresh /\ pc = "idle" => Clean
  /\ fresh /\ pc = "scan" =>
       /\ best_pos = MAX_CFG_ARGS => Clean
       /\ Len(types) < 2 /\ best_pos # MAX_CFG_ARGS =>
            best_pos = 0 /\ \E c : FirstOfRank0(c) /\ OnlyMarked(c)
       /\ ~Overlapping => MarksAre

LEMMA MarksInitial == FindInit => MarksInv
BY DEF FindInit, MarksInv, Clean

(* Examining a candidate that has a wanted type.                           *)
LEMMA MarkingKept ==
  ASSUME FindInv, MarksInv, Examine, Ranks(First(todo)) # {}
  PROVE  MarksInv'
<1> PICK c : c = First(todo)
  OBVIOUS
<1> PICK rank : rank = Least(c)
  OBVIOUS
<1>1. /\ pc = "scan" /\ pc' = "scan"
      /\ best_pos # 0
      /\ disks' = disks /\ types' = types /\ fresh' = fresh
      /\ todo # {} /\ todo' = todo \ {c}
      /\ types \in Lists /\ disks \in Tables
      /\ todo \subseteq Candidates
  BY DEF FindInv, Examine
<1>2. /\ Candidates' = Candidates
      /\ Parts' = Parts
      /\ Overlapping' <=> Overlapping
      /\ \A x : Ranks(x)' = Ranks(x)
      /\ \A x : Least(x)' = Least(x)
  <2>1. Candidates' = Candidates
    BY <1>1 DEF Candidates
  <2>2. Parts' = Parts /\ (Overlapping' <=> Overlapping)
    BY <1>1, <2>1 DEF Parts, Overlapping, Image1, Image2
  <2>3. \A x : Ranks(x)' = Ranks(x)
    BY <1>1 DEF Ranks, Part, Image1, Image2
  <2>4. \A x : Least(x)' = Least(x)
    BY <2>3 DEF Least
  <2> QED  BY <2>1, <2>2, <2>3, <2>4
<1>3. /\ flags' = [flags EXCEPT ![Image1(c)] = @ \cup {"IMAGE1"},
                                ![Image2(c)] = @ \cup {"IMAGE2"}]
      /\ pref' = [pref EXCEPT ![Image1(c)] = rank, ![Image2(c)] = rank]
      /\ best_pos' = IF rank < best_pos THEN rank ELSE best_pos
  BY DEF Examine, Least
<1>4. c \in todo /\ \A d \in todo \ {c} : Before(c, d)
  BY <1>1, CandidatesTyped, FirstTriple
<1>5. c \in Candidates /\ Ranks(c) # {}
  BY <1>1, <1>4
<1>6. rank \in Ranks(c) /\ rank \in 0 .. MAX_CFG_ARGS - 1
  BY <1>1, <1>5, LeastIs
<1>7. Marked' = Marked \cup {c}
  BY <1>1, <1>2, <1>4, <1>5 DEF Marked
<1>8. /\ Image1(c) \in Parts
      /\ Image2(c) \in Parts
      /\ Image1(c) # Image2(c)
  BY <1>1, <1>5, ImagesAre, ImagesTell
<1>9. DOMAIN flags = Parts /\ DOMAIN pref = Parts
  BY DEF MarksInv
<1>10. /\ DOMAIN flags' = Parts
       /\ DOMAIN pref' = Parts
       /\ \A p \in Parts : flags'[p] = IF p = Image1(c) THEN flags[p] \cup {"IMAGE1"}
                                       ELSE IF p = Image2(c) THEN flags[p] \cup {"IMAGE2"}
                                       ELSE flags[p]
       /\ \A p \in Parts : pref'[p] = IF p \in {Image1(c), Image2(c)} THEN rank ELSE pref[p]
  BY <1>3, <1>8, <1>9
<1>11. \A d \in Marked : Least(d) \in 0 .. MAX_CFG_ARGS - 1
  BY <1>1, LeastIs DEF Marked
<1>12. best_pos' # MAX_CFG_ARGS /\ \E d \in Marked' : best_pos' = Least(d)
  <2>1. CASE best_pos' = rank
    BY <1>6, <1>7, <2>1 DEF MAX_CFG_ARGS
  <2>2. CASE best_pos' # rank
    <3>1. best_pos' = best_pos
      BY <1>3, <2>2
    <3>2. best_pos # MAX_CFG_ARGS
      BY <1>3, <1>6, <2>2 DEF MAX_CFG_ARGS
    <3>3. PICK d \in Marked : best_pos = Least(d)
      BY <1>1, <3>2 DEF MarksInv
    <3> QED  BY <1>7, <3>1, <3>2, <3>3
  <2> QED  BY <2>1, <2>2
<1>13. ASSUME fresh, Len(types) < 2
       PROVE  /\ best_pos' = 0
              /\ FirstOfRank0(c)'
              /\ OnlyMarked(c)'
  <2>1. \A x : Ranks(x) \subseteq {0}
    BY <1>1, <1>13, RankOfOne
  <2>2. rank = 0
    BY <1>6, <2>1
  <2>3. best_pos = MAX_CFG_ARGS
    BY <1>1, <1>13 DEF MarksInv
  <2>4. Clean /\ Marked = {}
    BY <1>1, <1>13, <2>3 DEF MarksInv
  <2>5. best_pos' = 0
    BY <1>3, <2>2, <2>3 DEF MAX_CFG_ARGS
  <2>6. FirstOfRank0(c)
    <3>1. ASSUME NEW d \in Candidates, 0 \in Ranks(d) PROVE d \in todo
      BY <2>4, <3>1 DEF Marked
    <3> QED  BY <1>4, <1>5, <1>6, <2>2, <3>1 DEF FirstOfRank0
  <2>7. flags' = [p \in Parts |-> IF p = Image1(c) THEN {"IMAGE1"}
                                 ELSE IF p = Image2(c) THEN {"IMAGE2"} ELSE {}]
    BY <1>3, <1>8, <2>4 DEF Clean
  <2>8. pref' = [p \in Parts |-> 0]
    BY <1>3, <1>8, <2>2, <2>4 DEF Clean
  <2>9. FirstOfRank0(c)'
    BY <1>2, <2>6 DEF FirstOfRank0
  <2> QED  BY <1>2, <2>5, <2>7, <2>8, <2>9 DEF OnlyMarked
<1>14. ASSUME fresh, ~Overlapping
       PROVE  MarksAre'
  <2>1. MarksAre
    BY <1>1, <1>14 DEF MarksInv
  <2>2. \A p \in Parts : "IMAGE1" \in flags'[p] <=> \E d \in Marked' : p = Image1(d)
    BY <1>7, <1>8, <1>10, <2>1 DEF MarksAre
  <2>3. \A p \in Parts : "IMAGE2" \in flags'[p] <=> \E d \in Marked' : p = Image2(d)
    BY <1>7, <1>8, <1>10, <2>1 DEF MarksAre
  <2>4. ASSUME NEW d \in Marked'
        PROVE  pref'[Image1(d)] = Least(d) /\ pref'[Image2(d)] = Least(d)
    <3>1. d \in Candidates
      BY <1>5, <1>7 DEF Marked
    <3>2. Image1(d) \in Parts /\ Image2(d) \in Parts
      BY <1>1, <3>1, ImagesAre
    <3>3. Image1(d) # Image2(c) /\ Image2(d) # Image1(c)
      BY <1>5, <1>8, <1>14, <3>1 DEF Overlapping
    <3>4. CASE Image1(d) = Image1(c)
      <4>1. Ranks(d) = Ranks(c) /\ Image2(d) = Image2(c)
        BY <1>1, <1>5, <3>1, <3>4, ImagesTell
      <4>2. Least(d) = rank
        BY <4>1 DEF Least
      <4> QED  BY <1>10, <3>2, <3>4, <4>1, <4>2
    <3>5. CASE Image1(d) # Image1(c)
      <4>1. d \in Marked
        BY <1>7, <3>5
      <4>2. Image2(d) # Image2(c)
        BY <1>1, <1>5, <3>1, <3>5, ImagesTell
      <4> QED  BY <1>10, <2>1, <3>2, <3>3, <3>5, <4>1, <4>2 DEF MarksAre
    <3> QED  BY <3>4, <3>5
  <2> QED  BY <1>2, <2>2, <2>3, <2>4 DEF MarksAre
<1>15. fresh' /\ pc' = "scan" =>
         /\ best_pos' = MAX_CFG_ARGS => Clean'
         /\ Len(types') < 2 /\ best_pos' # MAX_CFG_ARGS =>
              best_pos' = 0 /\ \E x : FirstOfRank0(x)' /\ OnlyMarked(x)'
         /\ ~Overlapping' => MarksAre'
  <2>1. fresh' => fresh
    BY <1>1
  <2>2. fresh /\ Len(types') < 2 =>
          best_pos' = 0 /\ \E x : FirstOfRank0(x)' /\ OnlyMarked(x)'
    BY <1>1, <1>13
  <2>3. fresh /\ ~Overlapping' => MarksAre'
    BY <1>2, <1>14
  <2> QED  BY <1>12, <2>1, <2>2, <2>3
<1> QED  BY <1>1, <1>2, <1>10, <1>12, <1>15 DEF MarksInv

LEMMA MarksKept == FindInv /\ MarksInv /\ [FindNext]_fpvars => MarksInv'
<1> SUFFICES ASSUME FindInv, MarksInv, [FindNext]_fpvars
             PROVE  MarksInv'
  OBVIOUS
<1>1. CASE Rescan
  <2>1. Parts' = Parts
    BY <1>1 DEF Rescan, Parts
  <2> QED  BY <1>1, <2>1 DEF Rescan, MarksInv, Clean
<1>2. CASE Examine /\ Ranks(First(todo)) # {}
  BY <1>2, MarkingKept
<1>3. CASE Examine /\ Ranks(First(todo)) = {}
  <2> PICK c : c = First(todo)
    OBVIOUS
  <2>1. /\ pc = "scan" /\ pc' = "scan"
        /\ UNCHANGED <<flags, pref, best_pos, disks, types, fresh>>
        /\ todo # {} /\ todo' = todo \ {c}
        /\ disks \in Tables
        /\ todo \subseteq Candidates
    BY <1>3 DEF FindInv, Examine
  <2>2. /\ Candidates' = Candidates
        /\ Parts' = Parts
        /\ Overlapping' <=> Overlapping
        /\ \A x : Ranks(x)' = Ranks(x)
        /\ \A x : Least(x)' = Least(x)
    BY <2>1 DEF Candidates, Parts, Overlapping, Ranks, Least, Part, Image1, Image2
  <2>3. c \in todo
    BY <2>1, CandidatesTyped, FirstTriple
  <2>4. Marked' = Marked
    BY <1>3, <2>1, <2>2, <2>3 DEF Marked
  <2>5. Clean' = Clean /\ MarksAre' = MarksAre
    BY <2>1, <2>2, <2>4 DEF Clean, MarksAre
  <2>6. \A x : FirstOfRank0(x) /\ OnlyMarked(x) => FirstOfRank0(x)' /\ OnlyMarked(x)'
    BY <2>1, <2>2 DEF FirstOfRank0, OnlyMarked
  <2> QED  BY <2>1, <2>2, <2>4, <2>5, <2>6 DEF MarksInv
<1>4. CASE Pick
  <2>1. Parts' = Parts
    BY <1>4 DEF Pick, Parts
  <2>2. pc' # "scan" /\ ~fresh'
    BY <1>4 DEF Pick
  <2> QED  BY <1>4, <2>1, <2>2 DEF Pick, MarksInv
<1>5. CASE Crashed \/ UNCHANGED fpvars
  <2>1. UNCHANGED fpvars
    BY <1>5 DEF Crashed
  <2>2. /\ Candidates' = Candidates
        /\ Parts' = Parts
        /\ Overlapping' <=> Overlapping
        /\ \A x : Ranks(x)' = Ranks(x)
        /\ \A x : Least(x)' = Least(x)
    BY <2>1 DEF fpvars, Candidates, Parts, Overlapping, Ranks, Least, Part, Image1, Image2
  <2>3. Marked' = Marked
    BY <2>1, <2>2 DEF Marked, fpvars
  <2>4. Clean' = Clean /\ MarksAre' = MarksAre
    BY <2>1, <2>2, <2>3 DEF Clean, MarksAre, fpvars
  <2>5. \A x : FirstOfRank0(x) /\ OnlyMarked(x) => FirstOfRank0(x)' /\ OnlyMarked(x)'
    BY <2>1, <2>2 DEF FirstOfRank0, OnlyMarked, fpvars
  <2> QED  BY <2>1, <2>2, <2>3, <2>4, <2>5 DEF MarksInv, fpvars
<1>6. ASSUME NEW which \in {"image1", "image2"}, NEW list \in Lists,
             FindPart(which, list)
      PROVE  MarksInv'
  <2>1. /\ Candidates' = Candidates
        /\ Parts' = Parts
    BY <1>6 DEF FindPart, Candidates, Parts
  <2>2. /\ todo' = Candidates
        /\ best_pos' = MAX_CFG_ARGS
        /\ pc = "idle" /\ pc' = "scan"
        /\ UNCHANGED <<flags, pref, fresh>>
    BY <1>6 DEF FindPart
  <2>3. Marked' = {}
    BY <2>1, <2>2 DEF Marked
  <2>4. fresh' => Clean'
    BY <2>1, <2>2 DEF MarksInv, Clean
  <2>5. fresh' => MarksAre'
    BY <2>1, <2>3, <2>4 DEF Clean, MarksAre
  <2> QED  BY <2>1, <2>2, <2>3, <2>4, <2>5 DEF MarksInv
<1> QED  BY <1>1, <1>2, <1>3, <1>4, <1>5, <1>6 DEF FindNext

LEMMA BeforePairs ==
  ASSUME NEW s \in Nat \X Nat, NEW t \in Nat \X Nat
  PROVE  Before(s, t) <=> s[1] < t[1] \/ (s[1] = t[1] /\ s[2] < t[2])
<1>1. DOMAIN s = 1 .. 2 /\ \A k \in 1 .. 2 : s[k] \in Nat /\ t[k] \in Nat
  OBVIOUS
<1>2. 1 .. 2 = {1, 2} /\ 1 .. 1 - 1 = {} /\ 1 .. 2 - 1 = {1}
  OBVIOUS
<1>3. Before(s, t) <=> \E k \in {1, 2} : s[k] < t[k] /\ \A m \in 1 .. k - 1 : s[m] = t[m]
  BY <1>1, <1>2 DEF Before
<1> QED  BY <1>2, <1>3

(* A set of pairs of naturals that is not empty has a first one.           *)
LEMMA FirstPair ==
  ASSUME NEW S \in SUBSET (Nat \X Nat), S # {}
  PROVE  First(S) \in S /\ \A t \in S \ {First(S)} : Before(First(S), t)
<1>1. PICK a \in {s[1] : s \in S} : \A b \in {s[1] : s \in S} : a <= b
  <2> {s[1] : s \in S} \in SUBSET Nat /\ {s[1] : s \in S} # {}
    OBVIOUS
  <2> QED  BY LeastNat
<1> DEFINE S1 == {s \in S : s[1] = a}
<1>2. PICK b \in {s[2] : s \in S1} : \A x \in {s[2] : s \in S1} : b <= x
  <2> {s[2] : s \in S1} \in SUBSET Nat /\ {s[2] : s \in S1} # {}
    BY <1>1
  <2> QED  BY LeastNat
<1>3. PICK s \in S : s[1] = a /\ s[2] = b
  BY <1>2
<1>4. ASSUME NEW t \in S, t # s PROVE Before(s, t)
  <2>1. t \in Nat \X Nat /\ s \in Nat \X Nat
    OBVIOUS
  <2>2. t = <<t[1], t[2]>> /\ s = <<s[1], s[2]>>
    BY <2>1
  <2>3. a <= t[1]
    BY <1>1
  <2>4. t[1] = a => b <= t[2]
    BY <1>2
  <2>5. t[1] # s[1] \/ t[2] # s[2]
    BY <1>4, <2>2
  <2>6. /\ s[1] \in Nat
        /\ s[2] \in Nat
        /\ t[1] \in Nat
        /\ t[2] \in Nat
    BY <2>1
  <2> QED  BY <1>3, <2>1, <2>3, <2>4, <2>5, <2>6, BeforePairs
<1> QED  BY <1>4 DEF First

(* Of two candidates the one whose first image comes first also has the    *)
(* second image that comes first.                                          *)
LEMMA ImagesInOrder ==
  ASSUME disks \in Tables, NEW c \in Candidates, NEW d \in Candidates
  PROVE  /\ Before(Image1(c), Image1(d)) <=> Before(Image2(c), Image2(d))
         /\ ~(Before(Image1(c), Image1(d)) /\ Before(Image1(d), Image1(c)))
<1>1. /\ c[1] \in Nat
      /\ c[3] \in Nat
      /\ d[1] \in Nat
      /\ d[3] \in Nat
  BY ImagesAre
<1>2. /\ Before(Image1(c), Image1(d)) <=> c[1] < d[1] \/ (c[1] = d[1] /\ c[3] < d[3])
      /\ Before(Image1(d), Image1(c)) <=> d[1] < c[1] \/ (d[1] = c[1] /\ d[3] < c[3])
  BY <1>1, BeforePairs DEF Image1
<1>3. Before(Image2(c), Image2(d)) <=> c[1] < d[1] \/ (c[1] = d[1] /\ c[3] + 1 < d[3] + 1)
  BY <1>1, BeforePairs DEF Image2
<1> QED  BY <1>1, <1>2, <1>3

(* A pair behind two partitions that may be /flash is first met behind the *)
(* first of them: the first candidate that has rank 0 has the first pair.  *)
LEMMA FirstHasFirstPair ==
  ASSUME disks \in Tables, NEW c, FirstOfRank0(c), NEW d \in Candidates, 0 \in Ranks(d)
  PROVE  ~Before(Image1(d), Image1(c))
<1> SUFFICES ASSUME Before(Image1(d), Image1(c))
             PROVE  FALSE
  OBVIOUS
<1>1. c \in Candidates /\ d # c /\ Before(c, d)
  <2>1. c \in Candidates
    BY DEF FirstOfRank0
  <2>2. ~Before(Image1(c), Image1(c))
    BY <2>1, ImagesInOrder
  <2> QED  BY <2>1, <2>2 DEF FirstOfRank0
<1>2. c \in Nat \X Nat \X Nat /\ d \in Nat \X Nat \X Nat
  BY <1>1, CandidatesTyped
<1>3. /\ c[1] \in Nat
      /\ c[2] \in Nat
      /\ c[3] \in Nat
      /\ d[1] \in Nat
      /\ d[2] \in Nat
      /\ d[3] \in Nat
  BY <1>2
<1>4. d[1] < c[1] \/ (d[1] = c[1] /\ d[3] < c[3])
  BY <1>3, BeforePairs DEF Image1
<1>5. c[1] = d[1] /\ c[2] < d[2] /\ d[3] < c[3]
  BY <1>1, <1>2, <1>3, <1>4, BeforeTriples
<1> DEFINE e == <<d[1], c[2], d[3]>>
<1>6. e \in Candidates
  <2>1. /\ c[1] \in DOMAIN disks
        /\ c[2] \in DOMAIN disks[c[1]]
        /\ disks[c[1]][c[2]].size >= 8
        /\ disks[c[1]][c[2]].type \in ExtTypes
    BY <1>1 DEF Candidates
  <2>2. /\ d[1] \in DOMAIN disks
        /\ d[3] \in DOMAIN disks[d[1]]
        /\ d[2] < d[3] /\ d[3] < Len(disks[d[1]])
        /\ disks[d[1]][d[3]].size >= 16
        /\ disks[d[1]][d[3]].size = disks[d[1]][d[3] + 1].size
    BY DEF Candidates
  <2>3. c[2] < d[3]
    BY <1>3, <1>5, <2>2
  <2>4. e \in {d[1]} \X (DOMAIN disks[d[1]]) \X (DOMAIN disks[d[1]])
    BY <1>5, <2>1, <2>2
  <2>5. e[1] = d[1] /\ e[2] = c[2] /\ e[3] = d[3]
    OBVIOUS
  <2> HIDE DEF e
  <2> QED  BY <1>5, <2>1, <2>2, <2>3, <2>4, <2>5 DEF Candidates
<1>7. Ranks(e) = Ranks(d)
  BY DEF Ranks, Image1, Image2
<1>8. e \in Nat \X Nat \X Nat /\ e[1] = d[1] /\ e[2] = c[2] /\ e[3] = d[3]
  BY <1>3
<1> HIDE DEF e
<1>9. e = c \/ Before(c, e)
  BY <1>6, <1>7 DEF FirstOfRank0
<1> QED  BY <1>2, <1>3, <1>5, <1>8, <1>9, BeforeTriples

(* On a table that carries no marks of an earlier search, fp asked for one *)
(* type or none names the two images of the first candidate there is, in   *)
(* the right order; with a list of types, and no candidates that overlap,  *)
(* those of one of the best rank.                                          *)
LEMMA PairIsRight ==
  ASSUME FindInv, MarksInv, Pick, fresh
  PROVE  LET one == IF img = "image1" THEN chosen' ELSE second'
         IN /\ Len(types) < 2 =>
                 /\ pc' # "crashed"
                 /\ best_pos = 0 =>
                      /\ Ordered(chosen', second')
                      /\ \A c \in Candidates :
                           0 \in Ranks(c) => ~Before(Image1(c), one)
            /\ ~Overlapping =>
                 /\ pc' # "crashed"
                 /\ best_pos < MAX_CFG_ARGS =>
                      /\ Ordered(chosen', second')
                      /\ \E c \in Candidates : Image1(c) = one /\ best_pos \in Ranks(c)
<1>1. /\ pc = "scan"
      /\ types \in Lists /\ disks \in Tables
      /\ todo \subseteq Candidates
      /\ img' = img /\ img \in {"image1", "image2"}
  BY DEF FindInv, Pick
<1>2. CASE best_pos = MAX_CFG_ARGS
  BY <1>2 DEF Pick, MAX_CFG_ARGS
<1>3. CASE best_pos # MAX_CFG_ARGS
  <2> DEFINE part1 == FirstIfAny(Best("IMAGE1"))
             part2 == FirstIfAny(Best("IMAGE2") \ {part1})
  <2>1. ASSUME NEW c \in Candidates, part1 = Image1(c), part2 = Image2(c)
        PROVE  /\ pc' # "crashed"
               /\ Ordered(chosen', second')
               /\ Image1(c) = IF img = "image1" THEN chosen' ELSE second'
    <3>1. part1 # None /\ part2 # None
      BY <2>1 DEF Image1, Image2, None
    <3> HIDE DEF part1, part2
    <3>2. /\ pc' = "idle"
          /\ chosen' = IF img = "image2" THEN part2 ELSE part1
          /\ second' = IF img = "image2" THEN part1 ELSE part2
      BY <1>3, <3>1 DEF Pick, part1, part2
    <3>3. CASE img = "image2"
      BY <1>1, <2>1, <3>2, <3>3 DEF Ordered, IsPair
    <3>4. CASE img # "image2"
      BY <1>1, <2>1, <3>2, <3>4 DEF Ordered, IsPair
    <3> QED  BY <3>3, <3>4
  <2>2. ASSUME Len(types) < 2
        PROVE  \E c : FirstOfRank0(c) /\ part1 = Image1(c) /\ part2 = Image2(c)
    <3>1. PICK c : best_pos = 0 /\ FirstOfRank0(c) /\ OnlyMarked(c)
      BY <1>1, <1>3, <2>2 DEF MarksInv
    <3>2. /\ c \in Candidates
          /\ Image1(c) \in Parts
          /\ Image2(c) \in Parts
          /\ Image1(c) # Image2(c)
      BY <1>1, <3>1, ImagesAre, ImagesTell DEF FirstOfRank0
    <3>3. Best("IMAGE1") = {Image1(c)} /\ Best("IMAGE2") = {Image2(c)}
      BY <3>1, <3>2 DEF OnlyMarked, Best
    <3>4. \A x : First({x}) = x
      BY DEF First
    <3>5. part1 = Image1(c)
      BY <3>3, <3>4 DEF FirstIfAny
    <3> HIDE DEF part1
    <3>6. Best("IMAGE2") \ {part1} = {Image2(c)}
      BY <3>2, <3>3, <3>5
    <3>7. part2 = Image2(c)
      BY <3>4, <3>6 DEF FirstIfAny
    <3> QED  BY <3>1, <3>5, <3>7
  <2>3. ASSUME ~Overlapping
        PROVE  \E c \in Candidates : /\ part1 = Image1(c) /\ part2 = Image2(c)
                                     /\ best_pos \in Ranks(c)
    <3>1. MarksAre
      BY <1>1, <2>3 DEF MarksInv
    <3>2. PICK m \in Marked : best_pos = Least(m)
      BY <1>1, <1>3 DEF MarksInv
    <3>3. ASSUME NEW c \in Marked
          PROVE  /\ c \in Candidates
                 /\ Least(c) \in Ranks(c)
                 /\ Least(c) = best_pos => /\ Image1(c) \in Best("IMAGE1")
                                           /\ Image2(c) \in Best("IMAGE2")
      <4>1. c \in Candidates /\ Ranks(c) # {}
        BY DEF Marked
      <4>2. Image1(c) \in Parts /\ Image2(c) \in Parts
        BY <1>1, <4>1, ImagesAre
      <4> QED  BY <1>1, <3>1, <4>1, <4>2, LeastIs DEF MarksAre, Best
    <3>4. ASSUME NEW p \in Best("IMAGE1")
          PROVE  \E c \in Marked : p = Image1(c) /\ Least(c) = best_pos
      BY <3>1 DEF MarksAre, Best
    <3>5. ASSUME NEW p \in Best("IMAGE2")
          PROVE  \E c \in Marked : p = Image2(c) /\ Least(c) = best_pos
      BY <3>1 DEF MarksAre, Best
    <3>6. Best("IMAGE1") \in SUBSET (Nat \X Nat) /\ Best("IMAGE2") \in SUBSET (Nat \X Nat)
      BY <1>1, PartsTyped DEF Best
    <3>7. Best("IMAGE1") # {}
      BY <3>2, <3>3
    <3>8. /\ part1 \in Best("IMAGE1")
          /\ \A p \in Best("IMAGE1") \ {part1} : Before(part1, p)
      BY <3>6, <3>7, FirstPair DEF FirstIfAny
    <3> HIDE DEF part1
    <3>9. PICK c \in Marked : part1 = Image1(c) /\ Least(c) = best_pos
      BY <3>4, <3>8
    <3>10. part1 # Image2(c)
      BY <1>1, <3>3, <3>9, ImagesTell
    <3> DEFINE S == Best("IMAGE2") \ {part1}
    <3>11. Image2(c) \in S
      BY <3>3, <3>9, <3>10
    <3>12. part2 \in S /\ \A p \in S \ {part2} : Before(part2, p)
      <4>1. S \in SUBSET (Nat \X Nat) /\ S # {}
        BY <3>6, <3>11
      <4> HIDE DEF S
      <4>2. part2 = First(S)
        BY <4>1 DEF FirstIfAny, S
      <4> QED  BY <4>1, <4>2, FirstPair
    <3> HIDE DEF part2
    <3>13. PICK d \in Marked : part2 = Image2(d) /\ Least(d) = best_pos
      BY <3>5, <3>12
    <3>14. part2 = Image2(c)
      <4> SUFFICES ASSUME part2 # Image2(c)
                   PROVE  FALSE
        OBVIOUS
      <4>1. Before(Image2(d), Image2(c))
        BY <3>11, <3>12, <3>13
      <4>2. Before(Image1(d), Image1(c))
        BY <1>1, <3>3, <4>1, ImagesInOrder
      <4>3. Image1(d) # Image1(c)
        BY <1>1, <3>3, <3>13, ImagesTell
      <4>4. Before(Image1(c), Image1(d))
        BY <3>3, <3>8, <3>9, <3>13, <4>3
      <4> QED  BY <1>1, <3>3, <4>2, <4>4, ImagesInOrder
    <3> QED  BY <3>3, <3>9, <3>14
  <2> HIDE DEF part1, part2
  <2> DEFINE one == IF img = "image1" THEN chosen' ELSE second'
  <2>4. ASSUME Len(types) < 2
        PROVE  /\ pc' # "crashed"
               /\ Ordered(chosen', second')
               /\ \A d \in Candidates : 0 \in Ranks(d) => ~Before(Image1(d), one)
    <3>1. PICK c : FirstOfRank0(c) /\ part1 = Image1(c) /\ part2 = Image2(c)
      BY <2>2, <2>4
    <3>2. c \in Candidates
      BY <3>1 DEF FirstOfRank0
    <3> QED  BY <1>1, <2>1, <3>1, <3>2, FirstHasFirstPair
  <2>5. ASSUME ~Overlapping
        PROVE  /\ pc' # "crashed"
               /\ Ordered(chosen', second')
               /\ \E c \in Candidates : Image1(c) = one /\ best_pos \in Ranks(c)
    BY <2>1, <2>3, <2>5
  <2> QED  BY <2>4, <2>5
<1> QED  BY <1>2, <1>3

THEOREM PairIsNamed == FindSpec => RightPair
<1> USE DEF RightPair
<1>1. FindInv /\ MarksInv /\ [FindNext]_fpvars =>
        [Pick /\ fresh =>
           LET one == IF img = "image1" THEN chosen' ELSE second'
           IN /\ Len(types) < 2 =>
                   /\ pc' # "crashed"
                   /\ best_pos = 0 =>
                        /\ Ordered(chosen', second')
                        /\ \A c \in Candidates :
                             0 \in Ranks(c) => ~Before(Image1(c), one)
              /\ ~Overlapping =>
                   /\ pc' # "crashed"
                   /\ best_pos < MAX_CFG_ARGS =>
                        /\ Ordered(chosen', second')
                        /\ \E c \in Candidates :
                             Image1(c) = one /\ best_pos \in Ranks(c)]_fpvars
  BY PairIsRight
<1> QED  BY <1>1, FindInitial, FindKept, MarksInitial, MarksKept, PTL DEF FindSpec

-----------------------------------------------------------------------------
(* ta (TarExtract).                                                        *)

Parts4 == {"head", "tail", "data", "zero"}
UnitType == [of : Nat, part : Parts4]

LEMMA MembersTyped ==
  ASSUME NEW ms \in Archives, NEW i \in DOMAIN ms
  PROVE  /\ Len(ms) \in Nat /\ DOMAIN ms = 1 .. Len(ms)
         /\ i \in Nat /\ i >= 1 /\ i <= Len(ms)
         /\ ms[i].type \in {"file", "hard", "sym", "node", "dir", "other"}
         /\ ms[i].size \in Nat
         /\ ms[i].at \in Nat
         /\ NextAt(ms[i]) \in Nat
         /\ \/ ms[i].size % 2 = 0 /\ NextAt(ms[i]) = ms[i].at + 2 + ms[i].size
            \/ ms[i].size % 2 = 1 /\ NextAt(ms[i]) = ms[i].at + 2 + ms[i].size + 1
<1>1. ms \in Seq(MemberType)
  BY ArchivesAssumption
<1>2. ms[i] \in MemberType
  BY <1>1
<1>3. /\ ms[i].type \in {"file", "hard", "sym", "node", "dir", "other"}
      /\ ms[i].size \in Nat
      /\ ms[i].at \in Nat
  BY <1>2 DEF MemberType
<1>4. NextAt(ms[i]) = ms[i].at + 2 + (ms[i].size + (ms[i].size % 2))
  BY <1>3 DEF NextAt, Padded, Block
<1>5. \A n \in Nat : n % 2 = 0 \/ n % 2 = 1
  OBVIOUS
<1>6. ms[i].size % 2 = 0 \/ ms[i].size % 2 = 1
  BY <1>3, <1>5
<1>8. Len(ms) \in Nat /\ DOMAIN ms = 1 .. Len(ms)
  BY <1>1
<1> DEFINE r == ms[i].size % 2
<1>9. r \in {0, 1} /\ NextAt(ms[i]) = ms[i].at + 2 + (ms[i].size + r)
  BY <1>4, <1>6
<1>10. (r = 0 /\ NextAt(ms[i]) = ms[i].at + 2 + ms[i].size)
        \/ (r = 1 /\ NextAt(ms[i]) = ms[i].at + 2 + ms[i].size + 1)
  <2> HIDE DEF r
  <2> QED  BY <1>3, <1>9
<1>11. NextAt(ms[i]) \in Nat
  BY <1>3, <1>10
<1>12. i \in Nat /\ i >= 1 /\ i <= Len(ms)
  BY <1>8
<1> QED  BY <1>3, <1>8, <1>10, <1>11, <1>12

(* No unit belongs to two members.                                         *)
LEMMA UnitIs ==
  ASSUME NEW ms \in Archives, NEW i \in DOMAIN ms, NEW k \in Nat,
         ms[i].at < k, k <= NextAt(ms[i])
  PROVE  /\ k = ms[i].at + 1 => Unit(ms, k) = [of |-> i, part |-> "head"]
         /\ k = ms[i].at + 2 => Unit(ms, k) = [of |-> i, part |-> "tail"]
         /\ k > ms[i].at + 2 + ms[i].size => Unit(ms, k) = Zero
<1>1. ASSUME NEW j \in DOMAIN ms, ms[j].at < k, k <= NextAt(ms[j])
      PROVE  j = i
  <2>1. /\ i \in Nat /\ j \in Nat /\ i >= 1 /\ j >= 1
        /\ NextAt(ms[i]) \in Nat /\ NextAt(ms[j]) \in Nat
        /\ ms[i].at \in Nat /\ ms[j].at \in Nat
    BY MembersTyped
  <2>2. j < i => NextAt(ms[j]) <= ms[i].at
    BY <2>1, ArchivesAssumption
  <2>3. i < j => NextAt(ms[i]) <= ms[j].at
    BY <2>1, ArchivesAssumption
  <2> QED  BY <1>1, <2>1, <2>2, <2>3
<1> DEFINE holds == CHOOSE j \in DOMAIN ms : ms[j].at < k /\ k <= NextAt(ms[j])
<1>2. holds = i
  BY <1>1
<1>3. Unit(ms, k) = CASE k = ms[i].at + 1 -> [of |-> i, part |-> "head"]
                      [] k = ms[i].at + 2 -> [of |-> i, part |-> "tail"]
                      [] k > ms[i].at + 2 + ms[i].size -> Zero
                      [] OTHER -> [of |-> i, part |-> "data"]
  BY <1>2 DEF Unit
<1>4. ms[i].at \in Nat /\ ms[i].size \in Nat
  BY MembersTyped
<1>5. /\ k = ms[i].at + 1 => k # ms[i].at + 2 /\ ~(k > ms[i].at + 2 + ms[i].size)
      /\ k = ms[i].at + 2 => k # ms[i].at + 1 /\ ~(k > ms[i].at + 2 + ms[i].size)
      /\ k > ms[i].at + 2 + ms[i].size => k # ms[i].at + 1 /\ k # ms[i].at + 2
  BY <1>4
<1> QED  BY <1>3, <1>5

LEMMA UnitBehind ==
  ASSUME NEW ms \in Archives, NEW k \in Nat, k > Length(ms)
  PROVE  Unit(ms, k) = Zero
<1>1. ASSUME NEW i \in DOMAIN ms
      PROVE  NextAt(ms[i]) < k
  <2>1. /\ ms # <<>>
        /\ Len(ms) \in DOMAIN ms
        /\ Len(ms) \in Nat
        /\ i \in 1 .. Len(ms)
    BY MembersTyped
  <2>2. Length(ms) = NextAt(ms[Len(ms)])
    BY <2>1 DEF Length
  <2>3. i < Len(ms) => NextAt(ms[i]) <= ms[Len(ms)].at
    BY <2>1, ArchivesAssumption
  <2>4. /\ NextAt(ms[i]) \in Nat
        /\ ms[Len(ms)].at \in Nat
        /\ NextAt(ms[Len(ms)]) \in Nat
        /\ ms[Len(ms)].at <= NextAt(ms[Len(ms)])
    <3> PICK l \in DOMAIN ms : l = Len(ms)
      BY <2>1
    <3>1. /\ ms[l].at \in Nat /\ ms[l].size \in Nat
          /\ NextAt(ms[l]) \in {ms[l].at + 2 + ms[l].size, ms[l].at + 2 + ms[l].size + 1}
      BY MembersTyped
    <3>2. NextAt(ms[l]) \in Nat /\ ms[l].at <= NextAt(ms[l])
      BY <3>1
    <3> QED  BY <3>1, <3>2, MembersTyped
  <2> QED  BY <2>1, <2>2, <2>3, <2>4
<1>2. ASSUME NEW i \in DOMAIN ms
      PROVE  ~(k <= NextAt(ms[i]))
  BY <1>1, MembersTyped
<1> QED  BY <1>2 DEF Unit

LEMMA LengthTyped == \A ms \in Archives : Length(ms) \in Nat
<1> SUFFICES ASSUME NEW ms \in Archives
             PROVE  Length(ms) \in Nat
  OBVIOUS
<1>1. ms # <<>> => Len(ms) \in DOMAIN ms
  BY ArchivesAssumption
<1> QED  BY <1>1, MembersTyped DEF Length

LEMMA UnitTyped ==
  ASSUME NEW ms \in Archives, NEW k
  PROVE  /\ Unit(ms, k) \in UnitType
         /\ Unit(ms, k).part = "zero" => Unit(ms, k) = Zero
         /\ Unit(ms, k).part = "head" => Unit(ms, k).of \in DOMAIN ms
<1>1. Zero \in UnitType /\ Zero.part = "zero"
  BY DEF Zero, UnitType, Parts4
<1>2. CASE \E i \in DOMAIN ms : ms[i].at < k /\ k <= NextAt(ms[i])
  <2> DEFINE i == CHOOSE j \in DOMAIN ms : ms[j].at < k /\ k <= NextAt(ms[j])
  <2>1. i \in DOMAIN ms
    BY <1>2
  <2>2. Unit(ms, k) \in {Zero, [of |-> i, part |-> "head"], [of |-> i, part |-> "tail"],
                         [of |-> i, part |-> "data"]}
    BY <1>2 DEF Unit
  <2> HIDE DEF i
  <2>3. i \in Nat
    BY <2>1, MembersTyped
  <2> QED  BY <1>1, <2>1, <2>2, <2>3 DEF UnitType, Parts4
<1>3. CASE ~ \E i \in DOMAIN ms : ms[i].at < k /\ k <= NextAt(ms[i])
  <2>1. Unit(ms, k) = Zero
    BY <1>3 DEF Unit
  <2> QED  BY <1>1, <2>1
<1> QED  BY <1>2, <1>3

(* What is read where a member has ended, or one unit before or behind: the *)
(* header of the next one, nothing that can be used, or, after the last,   *)
(* empty blocks.                                                           *)
LEMMA AfterMember ==
  ASSUME NEW ms \in Archives, NEW i \in DOMAIN ms, NEW p \in Nat,
         \/ p = ms[i].at + 2 + ms[i].size
         \/ p = ms[i].at + 2 + ms[i].size + 1
  PROVE  LET c == Content(<<Unit(ms, p + 1), Unit(ms, p + 2)>>)
         IN \/ c = [of |-> 0, part |-> "junk"]
            \/ c = [of |-> i + 1, part |-> "header"] /\ i + 1 \in DOMAIN ms /\ p = ms[i + 1].at
            \/ c = [of |-> 0, part |-> "empty"] /\ i = Len(ms) /\ p + 2 >= Length(ms)
<1> DEFINE one == Unit(ms, p + 1)
           two == Unit(ms, p + 2)
           c == Content(<<one, two>>)
<1>1. /\ Len(ms) \in Nat /\ DOMAIN ms = 1 .. Len(ms)
      /\ i \in Nat /\ i >= 1 /\ i <= Len(ms)
      /\ ms[i].size \in Nat /\ ms[i].at \in Nat
      /\ NextAt(ms[i]) \in {ms[i].at + 2 + ms[i].size, ms[i].at + 2 + ms[i].size + 1}
  BY MembersTyped
<1>2. \/ p = NextAt(ms[i]) \/ p = NextAt(ms[i]) + 1
      \/ p + 1 = NextAt(ms[i]) /\ p = ms[i].at + 2 + ms[i].size
  BY <1>1
<1>3. CASE i = Len(ms)
  <2>1. Length(ms) = NextAt(ms[i])
    BY <1>1, <1>3 DEF Length
  <2>2. two = Zero
    <3>1. p + 2 > Length(ms)
      BY <1>1, <1>2, <2>1
    <3> QED  BY <3>1, UnitBehind
  <2>3. one = Zero
    <3>1. CASE p + 1 > Length(ms)
      BY <3>1, UnitBehind
    <3>2. CASE ~(p + 1 > Length(ms))
      <4>1. p + 1 = NextAt(ms[i]) /\ p = ms[i].at + 2 + ms[i].size
        BY <1>1, <1>2, <2>1, <3>2
      <4>2. /\ p + 1 \in Nat
            /\ ms[i].at < p + 1
            /\ p + 1 <= NextAt(ms[i])
            /\ p + 1 # ms[i].at + 1
            /\ p + 1 # ms[i].at + 2
            /\ p + 1 > ms[i].at + 2 + ms[i].size
        <5>1. ms[i].at \in Nat /\ ms[i].size \in Nat /\ p \in Nat
          BY <1>1
        <5> QED  BY ONLY <4>1, <5>1
      <4> QED  BY <4>2, UnitIs
    <3> QED  BY <3>1, <3>2
  <2>4. p + 2 >= Length(ms)
    BY <1>1, <1>2, <2>1
  <2>5. c = [of |-> 0, part |-> "empty"]
    <3> HIDE DEF one, two
    <3> QED  BY <2>2, <2>3 DEF Content, Zero
  <2> QED  BY <1>3, <2>4, <2>5
<1>4. CASE i # Len(ms)
  <2>1. i + 1 \in DOMAIN ms
    BY <1>1, <1>4
  <2>2. ms[i + 1].at = NextAt(ms[i])
    <3>1. (i + 1) - 1 = i /\ i + 1 # 1
      BY <1>1
    <3> QED  BY <2>1, <3>1, ArchivesAssumption
  <2>3. /\ NextAt(ms[i + 1]) \in Nat
        /\ NextAt(ms[i + 1]) >= ms[i + 1].at + 2
        /\ ms[i + 1].at \in Nat
    <3>1. /\ NextAt(ms[i + 1]) \in Nat
          /\ ms[i + 1].at \in Nat
          /\ ms[i + 1].size \in Nat
          /\ NextAt(ms[i + 1]) \in {ms[i + 1].at + 2 + ms[i + 1].size,
                                   ms[i + 1].at + 2 + ms[i + 1].size + 1}
      BY <2>1, MembersTyped
    <3> QED  BY <3>1
  <2>4. Unit(ms, ms[i + 1].at + 1) = [of |-> i + 1, part |-> "head"]
    <3>1. /\ ms[i + 1].at + 1 \in Nat
          /\ ms[i + 1].at < ms[i + 1].at + 1
          /\ ms[i + 1].at + 1 <= NextAt(ms[i + 1])
      BY <2>3
    <3> QED  BY <2>1, <3>1, UnitIs
  <2>5. Unit(ms, ms[i + 1].at + 2) = [of |-> i + 1, part |-> "tail"]
    <3>1. /\ ms[i + 1].at + 2 \in Nat
          /\ ms[i + 1].at < ms[i + 1].at + 2
          /\ ms[i + 1].at + 2 <= NextAt(ms[i + 1])
          /\ ms[i + 1].at + 2 # ms[i + 1].at + 1
      BY <2>3
    <3> QED  BY <2>1, <3>1, UnitIs
  <2>6. CASE p = NextAt(ms[i])
    <3>1. one = [of |-> i + 1, part |-> "head"] /\ two = [of |-> i + 1, part |-> "tail"]
      BY <2>2, <2>4, <2>5, <2>6
    <3>2. c = [of |-> i + 1, part |-> "header"]
      <4> HIDE DEF one, two
      <4> QED  BY <3>1 DEF Content
    <3> QED  BY <2>1, <2>2, <2>6, <3>2
  <2>7. CASE p = NextAt(ms[i]) + 1
    <3>1. p + 1 = ms[i + 1].at + 2
      BY <2>2, <2>3, <2>7
    <3>2. one.part = "tail"
      BY <2>5, <3>1
    <3>3. c = [of |-> 0, part |-> "junk"]
      <4> HIDE DEF one, two
      <4> QED  BY <3>2 DEF Content
    <3> QED  BY <3>3
  <2>8. CASE p + 1 = NextAt(ms[i]) /\ p = ms[i].at + 2 + ms[i].size
    <3>1. p + 2 = ms[i + 1].at + 1
      BY <2>2, <2>3, <2>8
    <3>2. two.part = "head"
      BY <2>4, <3>1
    <3>3. /\ p + 1 \in Nat
          /\ ms[i].at < p + 1
          /\ p + 1 <= NextAt(ms[i])
          /\ p + 1 # ms[i].at + 1
          /\ p + 1 # ms[i].at + 2
          /\ p + 1 > ms[i].at + 2 + ms[i].size
      <4>1. ms[i].at \in Nat /\ ms[i].size \in Nat /\ p \in Nat
        BY <1>1
      <4> QED  BY ONLY <2>8, <4>1
    <3>4. one = Zero
      BY <3>3, UnitIs
    <3>5. c = [of |-> 0, part |-> "junk"]
      <4> HIDE DEF one, two
      <4> QED  BY <3>2, <3>4 DEF Content, Zero
    <3> QED  BY <3>5
  <2> QED  BY <1>2, <2>6, <2>7, <2>8
<1> QED  BY <1>3, <1>4

TarTyped ==
  /\ members \in Archives
  /\ archive \in Seq(UnitType)
  /\ \A k \in 1 .. Len(archive) : archive[k] = Unit(members, k)
  /\ tarpc \in {"header", "block", "data", "returned", "undefined"}
  /\ pos \in 0 .. Len(archive)
  /\ blk \in [of : Nat, part : {"unset", "header", "empty", "junk"}]
  /\ blk.part = "header" => blk.of \in DOMAIN members
  /\ size \in Nat
  /\ ret \in {-1, 0, 1}
  /\ tarpc = "data" => blk.part = "header"
  /\ tarpc = "header" => blk.part # "junk"
  /\ tarpc = "block" => blk.part # "unset"

(* An empty block is two units of zeroes, and a second one in a row is at  *)
(* the next position.                                                      *)
ZerosAt(k) == k >= 2 /\ archive[k - 1] = Zero /\ archive[k] = Zero
EndsInv ==
  /\ blk.part = "empty" => ZerosAt(pos)
  /\ tarpc = "header" /\ ret = 1 => blk.part = "empty"
  /\ tarpc = "block" /\ ret = 1 => pos >= 4 /\ ZerosAt(pos - 2)
  /\ tarpc = "returned" /\ ret = 0 => WellEnded

(* Where the reading is, as long as no read failed: what precedes the      *)
(* current member is there, and the file of the current one has what was   *)
(* read of it.  A short read may leave the position one unit beside the    *)
(* end of the member.                                                      *)
Settled(i) == Extracted(i) \/ Replaced(i) \/ i \in lost
Covered(n) == \A i \in DOMAIN members : i <= n => Settled(i)
File(i, len) == [type |-> "file", of |-> i, len |-> len, to |-> <<>>]
WrittenTo(i) ==
  /\ Path(i) \in DOMAIN fs
  /\ Owner(fs, Path(i)) \in DOMAIN fs
  /\ \E len : fs[Owner(fs, Path(i))] = File(i, len)
Underway(i) ==
  /\ outfd \in {0, i}
  /\ outfd = i => members[i].type = "file" /\ WrittenTo(i)
  /\ i \notin lost =>
       IF members[i].type = "file"
       THEN outfd = i /\ fs[Owner(fs, Path(i))] = File(i, members[i].size - size)
       ELSE Extracted(i)
InMember(j) ==
  /\ Covered(j - 1)
  /\ tarpc = "block" => pos = members[j].at + 2
  /\ tarpc = "data" =>
       /\ Underway(j)
       /\ size <= members[j].size
       /\ \/ pos = members[j].at + 2 + (members[j].size - size)
          \/ size = 0 /\ pos = members[j].at + 2 + members[j].size + 1
  /\ tarpc = "header" =>
       /\ Covered(j)
       /\ \/ pos = members[j].at + 2 + members[j].size
          \/ pos = members[j].at + 2 + members[j].size + 1
AllCovered == \A i \in DOMAIN members : Settled(i)
ProgressInv ==
  /\ blk.part = "unset" => pos = 0
  /\ tarpc \in {"header", "block"} => outfd = 0
  /\ \A j \in DOMAIN members : blk.part = "header" /\ blk.of = j => InMember(j)
  /\ blk.part = "empty" => AllCovered /\ pos >= Length(members)
  /\ tarpc = "returned" /\ ret = 0 => AllCovered

TarInv ==
  /\ TarTyped
  /\ EndsInv
  /\ ~misread => ProgressInv

LEMMA TarInitial == TarInit => TarInv
<1> SUFFICES ASSUME TarInit
             PROVE  TarInv
  OBVIOUS
<1>1. members \in Archives /\ Length(members) \in Nat
  BY LengthTyped DEF TarInit
<1>2. PICK n \in Endings : \E len \in 1 .. Len(Layout(members, n)) :
        archive = SubSeq(Layout(members, n), 1, len)
  BY DEF TarInit
<1> DEFINE total == Length(members) + n * Block
<1>3. total \in Nat
  BY <1>1, EndingsAssumption DEF Block
<1> HIDE DEF total
<1>4. Layout(members, n) = [k \in 1 .. total |-> Unit(members, k)]
  BY DEF Layout, total
<1>5. Len(Layout(members, n)) = total
  BY <1>3, <1>4
<1>6. PICK len \in 1 .. total : archive = SubSeq(Layout(members, n), 1, len)
  BY <1>2, <1>5
<1>7. \A k \in 1 .. len : Layout(members, n)[k] = Unit(members, k)
  BY <1>3, <1>4, <1>6
<1>8. \A k \in 1 .. len : Layout(members, n)[k] \in UnitType
  BY <1>1, <1>7, UnitTyped
<1>9. 1 \in Int /\ len \in Int /\ 1 <= len
  BY <1>3, <1>6
<1>10. /\ archive \in Seq(UnitType)
       /\ Len(archive) = len
       /\ \A k \in 1 .. len : archive[k] = Layout(members, n)[k]
  BY <1>6, <1>8, <1>9, SubSeqProperties
<1>11. TarTyped
  BY <1>1, <1>7, <1>9, <1>10 DEF TarInit, TarTyped
<1>12. EndsInv /\ ProgressInv
  BY DEF TarInit, EndsInv, ProgressInv
<1> QED  BY <1>11, <1>12 DEF TarInv

(* What a step does to the files: nothing goes away, only a file changes,  *)
(* and only the one that the current member is written to.                 *)
Grows(o) ==
  \A q \in DOMAIN fs :
    /\ q \in DOMAIN fs'
    /\ fs'[q].type = fs[q].type
    /\ fs[q].type # "file" \/ q # o => fs'[q] = fs[q]

LEMMA OwnerKept ==
  ASSUME NEW o, Grows(o), NEW p \in DOMAIN fs
  PROVE  Owner(fs', p) = Owner(fs, p)
<1>1. p \in DOMAIN fs' /\ fs'[p].type = fs[p].type
  BY DEF Grows
<1>2. fs[p].type = "hard" => fs'[p] = fs[p]
  BY DEF Grows
<1> QED  BY <1>1, <1>2 DEF Owner

(* What was extracted stays, unless the current member is written over it. *)
LEMMA ExtractedKept ==
  ASSUME UNCHANGED source, members \in Archives, NEW o, Grows(o),
         NEW i \in DOMAIN members, Extracted(i)
  PROVE  \/ Extracted(i)'
         \/ /\ members[i].type = "file" /\ Path(i) \in DOMAIN fs
            /\ Owner(fs, Path(i)) = o
<1>1. members' = members /\ Path(i)' = Path(i) /\ Target(i)' = Target(i)
  BY DEF source, Path, Target
<1>2. CASE members[i].type = "other"
  BY <1>1, <1>2 DEF Extracted
<1>3. CASE members[i].type = "dir"
  <2>1. IsDir(fs, Path(i))
    BY <1>3 DEF Extracted
  <2>2. IsDir(fs', Path(i))
    BY <2>1 DEF IsDir, Grows
  <2> QED  BY <1>1, <1>3, <2>2 DEF Extracted
<1>4. CASE members[i].type \in {"node", "sym"}
  <2>1. Path(i) \in DOMAIN fs /\ fs[Path(i)].type # "file"
    <3>1. \A type, k, to : Entry(type, k, to).type = type
      BY DEF Entry
    <3>2. CASE members[i].type = "node"
      <4>1. Path(i) \in DOMAIN fs /\ fs[Path(i)] = Entry("node", i, <<>>)
        BY <3>2 DEF Extracted
      <4> QED  BY <3>1, <4>1
    <3>3. CASE members[i].type = "sym"
      <4>1. Path(i) \in DOMAIN fs /\ fs[Path(i)] = Entry("sym", i, Target(i))
        BY <3>3 DEF Extracted
      <4> QED  BY <3>1, <4>1
    <3> QED  BY <1>4, <3>2, <3>3
  <2>2. Path(i) \in DOMAIN fs' /\ fs'[Path(i)] = fs[Path(i)]
    BY <2>1 DEF Grows
  <2> QED  BY <1>1, <1>4, <2>2 DEF Extracted
<1>5. CASE members[i].type = "hard"
  <2>1. /\ Path(i) \in DOMAIN fs /\ fs[Path(i)].type = "hard" /\ Target(i) \in DOMAIN fs
        /\ Owner(fs, Path(i)) = Owner(fs, Target(i))
    BY <1>5 DEF Extracted
  <2>2. /\ Path(i) \in DOMAIN fs' /\ fs'[Path(i)].type = "hard" /\ Target(i) \in DOMAIN fs'
        /\ Owner(fs', Path(i)) = Owner(fs', Target(i))
    BY <2>1, OwnerKept DEF Grows
  <2> QED  BY <1>1, <1>5, <2>2 DEF Extracted
<1>6. CASE members[i].type = "file" /\ Owner(fs, Path(i)) # o
  <2>1. /\ Path(i) \in DOMAIN fs /\ Owner(fs, Path(i)) \in DOMAIN fs
        /\ fs[Owner(fs, Path(i))] = [Entry("file", i, <<>>) EXCEPT !.len = members[i].size]
    BY <1>6 DEF Extracted
  <2>2. /\ Path(i) \in DOMAIN fs' /\ Owner(fs, Path(i)) \in DOMAIN fs'
        /\ fs'[Owner(fs, Path(i))] = fs[Owner(fs, Path(i))]
    BY <1>6, <2>1 DEF Grows
  <2>3. Owner(fs', Path(i)) = Owner(fs, Path(i))
    BY <2>1, OwnerKept
  <2> QED  BY <1>1, <1>6, <2>1, <2>2, <2>3 DEF Extracted
<1>7. members[i].type = "file" => Path(i) \in DOMAIN fs
  BY DEF Extracted
<1>8. members[i].type \in {"file", "hard", "sym", "node", "dir", "other"}
  BY MembersTyped
<1> QED  BY <1>2, <1>3, <1>4, <1>5, <1>6, <1>7, <1>8

LEMMA CoveredKept ==
  ASSUME UNCHANGED source, members \in Archives, lost \subseteq lost',
         NEW j \in DOMAIN members, NEW o, Grows(o),
         \/ \A q \in DOMAIN fs : fs'[q] = fs[q]
         \/ /\ members[j].type = "file" /\ Path(j) \in DOMAIN fs'
            /\ Owner(fs', Path(j)) = o,
         Covered(j - 1)
  PROVE  Covered(j - 1)'
<1>1. members' = members /\ \A k : Path(k)' = Path(k)
  BY DEF source, Path
<1> SUFFICES ASSUME NEW i \in DOMAIN members, i <= j - 1
             PROVE  Settled(i)'
  BY <1>1 DEF Covered
<1>2. i \in Nat /\ j \in Nat /\ i < j
  BY MembersTyped
<1>3. CASE i \in lost
  BY <1>3 DEF Settled
<1>4. CASE Replaced(i)
  <2>1. PICK k \in DOMAIN members :
          /\ k > i /\ members[k].type = "file"
          /\ {Path(i), Path(k)} \subseteq DOMAIN fs
          /\ Owner(fs, Path(k)) = Owner(fs, Path(i))
    BY <1>4 DEF Replaced
  <2>2. {Path(i), Path(k)} \subseteq DOMAIN fs'
    BY <2>1 DEF Grows
  <2>3. Owner(fs', Path(k)) = Owner(fs', Path(i))
    BY <2>1, OwnerKept
  <2>4. Replaced(i)'
    BY <1>1, <2>1, <2>2, <2>3 DEF Replaced
  <2> QED  BY <2>4 DEF Settled
<1>5. CASE Extracted(i)
  <2>1. CASE Extracted(i)'
    BY <2>1 DEF Settled
  <2>2. CASE ~Extracted(i)'
    <3>1. /\ members[i].type = "file" /\ Path(i) \in DOMAIN fs
          /\ Owner(fs, Path(i)) = o
      BY <1>5, <2>2, ExtractedKept
    <3>2. Path(i) \in DOMAIN fs' /\ Owner(fs', Path(i)) = o
      BY <3>1, OwnerKept DEF Grows
    <3>3. CASE members[j].type = "file" /\ Path(j) \in DOMAIN fs' /\ Owner(fs', Path(j)) = o
      <4>1. Replaced(i)'
        BY <1>1, <1>2, <3>2, <3>3 DEF Replaced
      <4> QED  BY <4>1 DEF Settled
    <3>4. CASE \A q \in DOMAIN fs : fs'[q] = fs[q]
      <4>1. o \in DOMAIN fs /\ o \in DOMAIN fs'
        BY <1>5, <3>1 DEF Extracted, Grows
      <4>2. Extracted(i)'
        BY <1>1, <1>5, <3>1, <3>2, <3>4, <4>1 DEF Extracted
      <4> QED  BY <2>2, <4>2
    <3> QED  BY <3>3, <3>4
  <2> QED  BY <2>1, <2>2
<1> QED  BY <1>3, <1>4, <1>5 DEF Covered, Settled

(* Nothing of what has been extracted changes.                             *)
LEMMA CoveredSame ==
  ASSUME UNCHANGED <<source, fs>>, lost' = lost
  PROVE  /\ \A n : Covered(n)' = Covered(n)
         /\ \A i : Extracted(i)' = Extracted(i)
         /\ AllCovered' = AllCovered
<1>1. members' = members /\ \A i : Path(i)' = Path(i) /\ Target(i)' = Target(i)
  BY DEF source, Path, Target
<1>2. \A i : Extracted(i)' = Extracted(i)
  BY <1>1 DEF Extracted, IsDir
<1>3. \A i : Replaced(i)' = Replaced(i)
  BY <1>1 DEF Replaced
<1>4. \A i : Settled(i)' = Settled(i)
  BY <1>2, <1>3 DEF Settled
<1> QED  BY <1>1, <1>2, <1>4 DEF Covered, AllCovered

(* A block is read where the last one, or the data of the member, ended.    *)
LEMMA ReadHeaderKept == TarInv /\ ReadHeader => TarInv'
<1> SUFFICES ASSUME TarInv, ReadHeader
             PROVE  TarInv'
  OBVIOUS
<1>1. /\ UNCHANGED <<source, size, outfd, fs, lost, misread>> /\ tarpc = "header"
      /\ members' = members /\ archive' = archive
  BY DEF ReadHeader, source
<1>2. CASE /\ Len(archive) - pos >= Block
           /\ blk' = Content(SubSeq(archive, pos + 1, pos + Block))
           /\ pos' = pos + Block
           /\ tarpc' = "block"
           /\ UNCHANGED ret
  <2> DEFINE one == Unit(members, pos + 1)
             two == Unit(members, pos + 2)
  <2>1. /\ Len(archive) \in Nat
        /\ pos \in Nat
        /\ pos' = pos + 2
        /\ pos + 2 <= Len(archive)
        /\ archive[pos + 1] = one
        /\ archive[pos + 2] = two
        /\ members \in Archives
    BY <1>2 DEF TarInv, TarTyped, Block
  <2>2. blk' = Content(<<one, two>>)
    <3>1. \A k \in pos + 1 .. pos + 2 : archive[k] \in UnitType
      BY <2>1 DEF TarInv, TarTyped
    <3>2. /\ SubSeq(archive, pos + 1, pos + 2)[1] = archive[pos + 1 + 1 - 1]
          /\ SubSeq(archive, pos + 1, pos + 2)[2] = archive[pos + 1 + 2 - 1]
      BY <2>1, <3>1, SubSeqProperties
    <3>3. /\ SubSeq(archive, pos + 1, pos + 2)[1] = one
          /\ SubSeq(archive, pos + 1, pos + 2)[2] = two
      <4>1. pos + 1 + 1 - 1 = pos + 1 /\ pos + 1 + 2 - 1 = pos + 2
        BY <2>1
      <4> QED  BY <2>1, <3>2, <4>1
    <3> QED  BY <1>2, <3>3 DEF Content, Block
  <2>3. /\ one \in UnitType /\ two \in UnitType
        /\ one.part = "zero" => one = Zero
        /\ two.part = "zero" => two = Zero
        /\ one.part = "head" => one.of \in DOMAIN members
    BY <2>1, UnitTyped
  <2>4. \/ blk' = [of |-> one.of, part |-> "header"] /\ one.part = "head"
        \/ blk' = [of |-> 0, part |-> "empty"] /\ one = Zero /\ two = Zero
        \/ blk' = [of |-> 0, part |-> "junk"]
    <3> HIDE DEF one, two
    <3> QED  BY <2>2, <2>3 DEF Content
  <2>5. TarTyped'
    <3>1. blk' \in [of : Nat, part : {"unset", "header", "empty", "junk"}]
          /\ (blk'.part = "header" => blk'.of \in DOMAIN members)
          /\ blk'.part # "unset"
      <4> HIDE DEF one, two
      <4> QED  BY <2>3, <2>4 DEF UnitType
    <3>2. pos' \in 0 .. Len(archive)
      BY <2>1
    <3> QED  BY <1>1, <1>2, <3>1, <3>2 DEF TarInv, TarTyped
  <2>6. EndsInv'
    <3>1. blk'.part = "empty" => ZerosAt(pos)'
      <4>1. blk'.part = "empty" => one = Zero /\ two = Zero
        BY <2>4
      <4>2. pos' - 1 = pos + 1 /\ pos' >= 2
        BY <2>1
      <4> QED  BY <1>1, <2>1, <4>1, <4>2 DEF ZerosAt
    <3>2. ret' = 1 => pos' >= 4 /\ ZerosAt(pos - 2)'
      <4>1. ret' = 1 => ZerosAt(pos)
        BY <1>1, <1>2 DEF TarInv, EndsInv
      <4>2. pos' - 2 = pos /\ (pos >= 2 => pos' >= 4)
        BY <2>1
      <4> QED  BY <1>1, <4>1, <4>2 DEF ZerosAt
    <3> QED  BY <1>2, <3>1, <3>2 DEF EndsInv
  <2>7. ASSUME ~misread
        PROVE  ProgressInv'
    <3>1. /\ ProgressInv
          /\ \A n : Covered(n)' = Covered(n)
      BY <1>1, <2>7, CoveredSame DEF TarInv
    <3>2. blk.part \in {"unset", "header", "empty"}
      BY <1>1 DEF TarInv, TarTyped
    <3>3. \/ blk'.part = "junk"
          \/ /\ blk'.part = "header" /\ Covered(blk'.of - 1)
             /\ pos' = members[blk'.of].at + 2
          \/ /\ blk'.part = "empty" /\ AllCovered /\ pos' >= Length(members)
      <4>1. CASE blk.part = "unset"
        <5>1. pos = 0
          BY <3>1, <4>1 DEF ProgressInv
        <5>2. CASE members = <<>>
          <6>1. Length(members) = 0
            BY <5>2 DEF Length
          <6>2. one = Zero /\ two = Zero
            BY <2>1, <5>1, <6>1, UnitBehind
          <6>3. blk'.part = "empty"
            <7> HIDE DEF one, two
            <7> QED  BY <2>2, <6>2 DEF Content, Zero
          <6>4. AllCovered
            BY <5>2 DEF AllCovered
          <6> QED  BY <2>1, <6>1, <6>3, <6>4
        <5>3. CASE members # <<>>
          <6>1. 1 \in DOMAIN members
            BY <2>1, <5>3, ArchivesAssumption
          <6>2. members[1].at = 0
            BY <2>1, <6>1, ArchivesAssumption
          <6>3. /\ members[1].size \in Nat
                /\ NextAt(members[1]) \in {members[1].at + 2 + members[1].size,
                                          members[1].at + 2 + members[1].size + 1}
            BY <2>1, <6>1, MembersTyped
          <6>4. /\ members[1].at < 1 /\ 1 <= NextAt(members[1])
                /\ members[1].at < 2 /\ 2 <= NextAt(members[1])
                /\ 1 = members[1].at + 1
                /\ 2 = members[1].at + 2
            BY <6>2, <6>3
          <6>5. one = [of |-> 1, part |-> "head"]
            <7>1. one = Unit(members, 1)
              BY <5>1
            <7> QED  BY <2>1, <6>1, <6>4, <7>1, UnitIs
          <6>6. two = [of |-> 1, part |-> "tail"]
            <7>1. two = Unit(members, 2)
              BY <5>1
            <7> QED  BY <2>1, <6>1, <6>4, <7>1, UnitIs
          <6>7. blk'.part = "header" /\ blk'.of = 1
            <7> HIDE DEF one, two
            <7> QED  BY <2>2, <6>5, <6>6 DEF Content
          <6>8. Covered(1 - 1)
            <7>1. \A i \in DOMAIN members : ~(i <= 1 - 1)
              BY <2>1, MembersTyped
            <7> QED  BY <7>1 DEF Covered
          <6>9. pos' = members[1].at + 2
            BY <2>1, <5>1, <6>2
          <6> QED  BY <6>7, <6>8, <6>9
        <5> QED  BY <5>2, <5>3
      <4>2. CASE blk.part = "header"
        <5> PICK i : i = blk.of
          OBVIOUS
        <5>1. /\ i \in DOMAIN members
              /\ Covered(i)
              /\ \/ pos = members[i].at + 2 + members[i].size
                 \/ pos = members[i].at + 2 + members[i].size + 1
          BY <1>1, <3>1, <4>2 DEF TarInv, TarTyped, ProgressInv, InMember
        <5>2. \/ blk' = [of |-> 0, part |-> "junk"]
              \/ /\ blk' = [of |-> i + 1, part |-> "header"]
                 /\ i + 1 \in DOMAIN members /\ pos = members[i + 1].at
              \/ /\ blk' = [of |-> 0, part |-> "empty"]
                 /\ i = Len(members) /\ pos + 2 >= Length(members)
          BY <2>1, <2>2, <5>1, AfterMember
        <5>3. i \in Nat /\ i + 1 - 1 = i
          BY <2>1, <5>1, MembersTyped
        <5>4. i = Len(members) => AllCovered
          <6>1. \A k \in DOMAIN members : k <= Len(members)
            BY <2>1, MembersTyped
          <6> QED  BY <5>1, <6>1 DEF Covered, AllCovered
        <5> QED  BY <2>1, <5>1, <5>2, <5>3, <5>4
      <4>3. CASE blk.part = "empty"
        <5>1. AllCovered /\ pos >= Length(members)
          BY <3>1, <4>3 DEF ProgressInv
        <5>2. Length(members) \in Nat
          BY <2>1, LengthTyped
        <5>3. pos + 1 > Length(members) /\ pos + 2 > Length(members)
          BY <2>1, <5>1, <5>2
        <5>4. one = Zero /\ two = Zero
          BY <2>1, <5>3, UnitBehind
        <5>5. blk'.part = "empty"
          <6> HIDE DEF one, two
          <6> QED  BY <2>2, <5>4 DEF Content, Zero
        <5> QED  BY <2>1, <5>1, <5>2, <5>5
      <4> QED  BY <3>2, <4>1, <4>2, <4>3
    <3>4. blk'.part # "unset"
      <4> HIDE DEF one, two
      <4> QED  BY <2>4
    <3>5. outfd' = 0
      BY <1>1, <3>1 DEF ProgressInv
    <3>6. Len(members)' = Len(members) /\ Length(members)' = Length(members)
      BY <1>1
    <3>7. \A j \in DOMAIN members : blk'.part = "header" /\ blk'.of = j => InMember(j)'
      BY <1>1, <1>2, <3>1, <3>3 DEF InMember
    <3>8. blk'.part = "empty" => AllCovered'
      BY <1>1, <3>3, CoveredSame
    <3> QED  BY <1>1, <1>2, <3>3, <3>4, <3>5, <3>6, <3>7, <3>8 DEF ProgressInv
  <2> QED  BY <1>1, <1>2, <2>5, <2>6, <2>7 DEF TarInv
<1>3. CASE Return(-1) /\ UNCHANGED <<pos, blk>>
  <2>1. \A n : Covered(n)' = Covered(n)
    BY <1>1, CoveredSame
  <2>2. TarTyped' /\ EndsInv'
    BY <1>1, <1>3 DEF Return, TarInv, TarTyped, EndsInv, ZerosAt
  <2>3. ~misread => ProgressInv'
    BY <1>1, <1>3, <2>1, CoveredSame DEF Return, TarInv, ProgressInv, InMember
  <2> QED  BY <1>1, <1>3, <2>2, <2>3 DEF TarInv
<1> QED  BY <1>2, <1>3 DEF ReadHeader

LEMMA MkdirsKeep ==
  ASSUME NEW f, NEW p, NEW q \in DOMAIN f
  PROVE  q \in DOMAIN Mkdirs(f, p) /\ Mkdirs(f, p)[q] = f[q]
BY DEF Mkdirs

(* A member begins: what it creates is there, and the others stay.         *)
LEMMA BeginsKept ==
  ASSUME TarInv, tarpc = "block", blk.part = "header", tarpc' = "data",
         NEW j \in DOMAIN members, j = blk.of,
         UNCHANGED <<source, pos, blk, ret, misread>>,
         size' = members[j].size,
         ~misread => Covered(j - 1)' /\ Underway(j)'
  PROVE  TarInv'
<1> members' = members /\ archive' = archive
  BY DEF source
<1>1. TarTyped'
  <2>1. members \in Archives
    BY DEF TarInv, TarTyped
  <2>2. members[j].size \in Nat
    BY <2>1, MembersTyped
  <2> QED  BY <2>2 DEF TarInv, TarTyped
<1>2. EndsInv'
  BY DEF TarInv, TarTyped, EndsInv, ZerosAt
<1>3. ASSUME ~misread
      PROVE  ProgressInv'
  <2>1. /\ ProgressInv
        /\ members \in Archives
    BY <1>3 DEF TarInv, TarTyped
  <2>2. pos = members[j].at + 2
    BY <2>1 DEF ProgressInv, InMember
  <2>3. members[j].size \in Nat /\ members[j].at \in Nat
    BY <2>1, MembersTyped
  <2>4. size' <= members[j].size /\ pos' = members[j].at + 2 + (members[j].size - size')
    BY <2>2, <2>3
  <2>5. InMember(j)'
    BY <1>3, <2>4 DEF InMember
  <2> QED  BY <2>5 DEF ProgressInv
<1> QED  BY <1>1, <1>2, <1>3 DEF TarInv

(* A file that can be opened is then there and empty, and no path but those *)
(* that share it is changed.                                                *)
LEMMA FileIsOpened ==
  ASSUME NEW p, NEW f, f = Mkdirs(fs, Parent(p)), Writable(f, p),
         NEW w, w.type = "file", fs' = Put(f, Owner(f, p), w)
  PROVE  /\ Grows(Owner(f, p))
         /\ p \in DOMAIN fs' /\ Owner(fs', p) = Owner(f, p)
         /\ Owner(f, p) \in DOMAIN fs' /\ fs'[Owner(f, p)] = w
<1>1. PICK o : o = Owner(f, p)
  OBVIOUS
<1>2. \A q \in DOMAIN fs : q \in DOMAIN f /\ f[q] = fs[q]
  BY MkdirsKeep
<1>3. /\ DOMAIN fs' = DOMAIN f \cup {o}
      /\ fs'[o] = w
      /\ \A q \in DOMAIN f : q # o => fs'[q] = f[q]
  BY <1>1 DEF Put
<1>4. \/ p \notin DOMAIN f /\ o = p
      \/ p \in DOMAIN f /\ o \in DOMAIN f /\ f[o].type = "file"
  BY <1>1 DEF Writable, Creatable, Owner
<1>5. Grows(o)
  <2> SUFFICES ASSUME NEW q \in DOMAIN fs
               PROVE  /\ q \in DOMAIN fs' /\ fs'[q].type = fs[q].type
                      /\ fs[q].type # "file" \/ q # o => fs'[q] = fs[q]
    BY DEF Grows
  <2>1. CASE q = o
    BY <1>2, <1>3, <1>4, <2>1
  <2>2. CASE q # o
    BY <1>2, <1>3, <2>2
  <2> QED  BY <2>1, <2>2
<1>6. p \in DOMAIN fs' /\ Owner(fs', p) = o
  <2>1. CASE o = p
    BY <1>3, <2>1 DEF Owner
  <2>2. CASE o # p
    <3>1. p \in DOMAIN f /\ f[p].type = "hard" /\ o = f[p].to
      BY <1>1, <2>2 DEF Owner
    <3> QED  BY <1>3, <2>2, <3>1 DEF Owner
  <2> QED  BY <2>1, <2>2
<1> QED  BY <1>1, <1>3, <1>5, <1>6

(* A step that changes nothing that is there.                               *)
LEMMA CoveredStays ==
  ASSUME UNCHANGED source, members \in Archives, lost \subseteq lost',
         NEW j \in DOMAIN members, Covered(j - 1),
         \A q \in DOMAIN fs : q \in DOMAIN fs' /\ fs'[q] = fs[q]
  PROVE  Covered(j - 1)'
<1>1. Grows(0)
  BY DEF Grows
<1> QED  BY <1>1, CoveredKept

LEMMA CreateKept ==
  TarInv /\ (CreateFile \/ CreateNode \/ CreateDir \/ SkipMember) => TarInv'
<1> SUFFICES ASSUME TarInv, CreateFile \/ CreateNode \/ CreateDir \/ SkipMember
             PROVE  TarInv'
  OBVIOUS
<1>1. /\ tarpc = "block" /\ blk.part = "header" /\ tarpc' = "data"
      /\ UNCHANGED <<source, pos, blk, ret, misread>>
      /\ size' = Member.size
  BY DEF CreateFile, CreateNode, CreateDir, SkipMember, Begin
<1>2. members \in Archives /\ blk.of \in DOMAIN members
  BY <1>1 DEF TarInv, TarTyped
<1> PICK j \in DOMAIN members : j = blk.of
  BY <1>2
<1> DEFINE m == members[j]
           p == Path(j)
<1>3. Member = m /\ members' = members /\ Path(j)' = p /\ Target(j)' = Target(j)
  BY <1>1 DEF Member, source, Path, Target
<1>4. m.size \in Nat /\ j # 0
  BY <1>2, MembersTyped
<1>5. ~misread => Covered(j - 1) /\ outfd = 0
  BY <1>1 DEF TarInv, ProgressInv, InMember
<1> SUFFICES ASSUME ~misread
             PROVE  Covered(j - 1)' /\ Underway(j)'
  BY <1>1, <1>3, BeginsKept
<1>6. CASE CreateFile
  <2>1. PICK f : f = Mkdirs(fs, Parent(p))
    OBVIOUS
  <2>2. PICK w : w = Entry("file", j, <<>>)
    OBVIOUS
  <2>3. w = File(j, 0) /\ w.type = "file"
    BY <2>2 DEF Entry, File
  <2>4. m.type = "file"
    BY <1>3, <1>6 DEF CreateFile, Begin
  <2>5. CASE Writable(f, p)
    <3>1. fs' = Put(f, Owner(f, p), w) /\ outfd' = j /\ lost' = lost
      BY <1>6, <2>1, <2>2, <2>5 DEF CreateFile
    <3>2. PICK o : o = Owner(f, p)
      OBVIOUS
    <3>3. /\ Grows(o)
          /\ p \in DOMAIN fs' /\ Owner(fs', p) = o
          /\ o \in DOMAIN fs' /\ fs'[o] = w
      BY <2>1, <2>3, <2>5, <3>1, <3>2, FileIsOpened
    <3>4. Covered(j - 1)'
      BY <1>1, <1>2, <1>5, <2>4, <3>1, <3>3, CoveredKept
    <3>5. WrittenTo(j)'
      BY <1>3, <2>3, <3>3 DEF WrittenTo
    <3>6. members[j].size - members[j].size = 0
      BY <1>4
    <3>7. Underway(j)'
      BY <1>1, <1>3, <2>3, <2>4, <3>1, <3>3, <3>5, <3>6 DEF Underway
    <3> QED  BY <3>4, <3>7
  <2>6. CASE ~Writable(f, p)
    <3>1. fs' = f /\ outfd' = 0 /\ lost' = lost \cup {j}
      BY <1>6, <2>1, <2>6 DEF CreateFile
    <3>2. \A q \in DOMAIN fs : q \in DOMAIN fs' /\ fs'[q] = fs[q]
      BY <2>1, <3>1, MkdirsKeep
    <3>3. Covered(j - 1)'
      BY <1>1, <1>2, <1>5, <3>1, <3>2, CoveredStays
    <3>4. Underway(j)'
      BY <1>4, <3>1 DEF Underway
    <3> QED  BY <3>3, <3>4
  <2> QED  BY <2>5, <2>6
<1>7. CASE CreateNode
  <2>1. PICK f : f = Mkdirs(fs, Parent(p))
    OBVIOUS
  <2>2. m.type \in {"hard", "sym", "node"} /\ outfd' = 0
    BY <1>3, <1>5, <1>7 DEF CreateNode, Begin
  <2>3. PICK to : to = CASE m.type = "hard" -> Owner(f, Target(j))
                         [] m.type = "sym" -> Target(j)
                         [] OTHER -> <<>>
    OBVIOUS
  <2>4. PICK w : w = Entry(m.type, j, to)
    OBVIOUS
  <2>5. \/ fs' = f /\ lost' = lost \cup {j}
        \/ /\ Creatable(f, p)
           /\ m.type = "hard" => Target(j) \in DOMAIN f
           /\ fs' = Put(f, p, w) /\ lost' = lost
    BY <1>3, <1>7, <2>1, <2>3, <2>4 DEF CreateNode
  <2>6. CASE fs' = f /\ lost' = lost \cup {j}
    <3>1. \A q \in DOMAIN fs : q \in DOMAIN fs' /\ fs'[q] = fs[q]
      BY <2>1, <2>6, MkdirsKeep
    <3>2. Covered(j - 1)'
      BY <1>1, <1>2, <1>5, <2>6, <3>1, CoveredStays
    <3>3. Underway(j)'
      BY <1>4, <2>2, <2>6 DEF Underway
    <3> QED  BY <3>2, <3>3
  <2>7. CASE /\ Creatable(f, p)
             /\ m.type = "hard" => Target(j) \in DOMAIN f
             /\ fs' = Put(f, p, w) /\ lost' = lost
    <3>1. p \notin DOMAIN f
      BY <2>7 DEF Creatable
    <3>2. /\ p \in DOMAIN fs' /\ fs'[p] = w
          /\ \A q \in DOMAIN f : q \in DOMAIN fs' /\ fs'[q] = f[q]
      BY <2>7, <3>1 DEF Put
    <3>3. \A q \in DOMAIN fs : q \in DOMAIN fs' /\ fs'[q] = fs[q]
      BY <2>1, <3>2, MkdirsKeep
    <3>4. Covered(j - 1)'
      BY <1>1, <1>2, <1>5, <2>7, <3>3, CoveredStays
    <3>5. w.type = m.type /\ w.to = to
      BY <2>4 DEF Entry
    <3>6. ASSUME m.type = "hard"
          PROVE  Extracted(j)'
      <4>1. to = Owner(f, Target(j)) /\ Target(j) \in DOMAIN f
        BY <2>3, <2>7, <3>6
      <4>2. Owner(fs', p) = to
        BY <3>2, <3>5, <3>6 DEF Owner
      <4>3. Owner(fs', Target(j)) = Owner(f, Target(j)) /\ Target(j) \in DOMAIN fs'
        BY <3>2, <4>1 DEF Owner
      <4> QED  BY <1>3, <3>2, <3>5, <3>6, <4>1, <4>2, <4>3 DEF Extracted
    <3>7. ASSUME m.type = "sym"
          PROVE  Extracted(j)'
      <4>1. w = Entry("sym", j, Target(j))
        BY <2>3, <2>4, <3>7
      <4> QED  BY <1>3, <3>2, <3>7, <4>1 DEF Extracted
    <3>8. ASSUME m.type = "node"
          PROVE  Extracted(j)'
      <4>1. w = Entry("node", j, <<>>)
        BY <2>3, <2>4, <3>8
      <4> QED  BY <1>3, <3>2, <3>8, <4>1 DEF Extracted
    <3>9. Underway(j)'
      BY <1>3, <1>4, <2>2, <3>6, <3>7, <3>8 DEF Underway
    <3> QED  BY <3>4, <3>9
  <2> QED  BY <2>5, <2>6, <2>7
<1>8. CASE CreateDir
  <2>1. /\ m.type = "dir" /\ outfd' = 0 /\ fs' = Mkdirs(fs, p)
        /\ lost \subseteq lost' /\ (IsDir(fs', p) \/ j \in lost')
    BY <1>3, <1>5, <1>8 DEF CreateDir, Begin
  <2>2. \A q \in DOMAIN fs : q \in DOMAIN fs' /\ fs'[q] = fs[q]
    BY <2>1, MkdirsKeep
  <2>3. Covered(j - 1)'
    BY <1>1, <1>2, <1>5, <2>1, <2>2, CoveredStays
  <2>4. IsDir(fs', p) => Extracted(j)'
    BY <1>3, <2>1 DEF Extracted
  <2>5. Underway(j)'
    BY <1>3, <1>4, <2>1, <2>4 DEF Underway
  <2> QED  BY <2>3, <2>5
<1>9. CASE SkipMember
  <2>1. m.type = "other" /\ UNCHANGED <<outfd, fs, lost>>
    BY <1>3, <1>9 DEF SkipMember, Begin
  <2>2. Extracted(j)'
    BY <1>3, <2>1 DEF Extracted
  <2>3. Covered(j - 1)'
    BY <1>1, <1>2, <1>5, <2>1, CoveredStays
  <2>4. Underway(j)'
    BY <1>3, <1>4, <1>5, <2>1, <2>2 DEF Underway
  <2> QED  BY <2>3, <2>4
<1> QED  BY <1>6, <1>7, <1>8, <1>9

(* What is read of the data of a member, in whole blocks or cut short.     *)
LEMMA MinIs == \A a, b \in Int : Min({a, b}) = IF a <= b THEN a ELSE b
<1> SUFFICES ASSUME NEW a \in Int, NEW b \in Int
             PROVE  Min({a, b}) = IF a <= b THEN a ELSE b
  OBVIOUS
<1> QED  BY DEF Min

\* Bytes read of a member's data leave the position in the member.
LEMMA TakeData ==
  ASSUME NEW s \in Nat, NEW a \in Nat, NEW z \in Nat, NEW n \in Nat, NEW p \in Nat,
         z <= s,
         p = a + 2 + (s - z)
  PROVE  /\ n <= z => p + n = a + 2 + (s - (z - n))
         /\ n <= z => z - n <= s
         /\ n = z + 1 => p + n = a + 2 + s + 1
         /\ 0 <= s
OBVIOUS

LEMMA ReadDataKept == TarInv /\ ReadData => TarInv'
<1> SUFFICES ASSUME TarInv, ReadData
             PROVE  TarInv'
  OBVIOUS
<1>1. /\ tarpc = "data" /\ size > 0 /\ tarpc' = "data"
      /\ UNCHANGED <<source, blk, ret, misread>>
      /\ members' = members /\ archive' = archive
      /\ members \in Archives /\ blk.part = "header" /\ blk.of \in DOMAIN members
      /\ size \in Nat /\ pos \in Nat /\ Len(archive) \in Nat /\ pos <= Len(archive)
  BY DEF ReadData, TarInv, TarTyped, source
<1>2. PICK n \in 1 .. Min({Wanted, Len(archive) - pos}) :
        /\ size' = size - Min({n, size})
        /\ \/ /\ outfd = 0
              /\ UNCHANGED <<fs, outfd, lost>>
           \/ /\ outfd # 0
              /\ outfd' = 0
              /\ lost' = lost \cup {outfd}
              /\ fs' = fs
           \/ \E written \in 0 .. Kept(n) :
                /\ outfd # 0
                /\ fs' = [fs EXCEPT ![Owner(fs, Path(outfd))].len = @ + written]
                /\ lost' = IF written = Kept(n) THEN lost ELSE lost \cup {outfd}
                /\ outfd' = outfd
        /\ pos' = pos + n
  BY DEF ReadData
<1>3. /\ n \in Nat /\ n >= 1
      /\ n <= Len(archive) - pos
      /\ n <= size \/ n = size + 1
  <2> DEFINE k == Min({size, Chunk})
             r == k % Block
  <2>1. k \in Nat /\ k <= size /\ k <= 4
    BY <1>1, MinIs DEF Chunk
  <2> HIDE DEF k
  <2>2. \A x \in Nat : x % 2 \in {0, 1}
    OBVIOUS
  <2>3. r \in {0, 1}
    BY <2>1, <2>2 DEF Block
  <2>4. Wanted = k + r
    BY DEF Wanted, Padded, k
  <2> HIDE DEF r
  <2>5. Wanted \in Int /\ Wanted <= size + 1
    BY <1>1, <2>1, <2>3, <2>4
  <2>6. Len(archive) - pos \in Int
    BY <1>1
  <2>7. /\ Min({Wanted, Len(archive) - pos}) <= Wanted
        /\ Min({Wanted, Len(archive) - pos}) <= Len(archive) - pos
        /\ Min({Wanted, Len(archive) - pos}) \in Int
    <3>1. \A a, b \in Int : Min({a, b}) <= a /\ Min({a, b}) <= b /\ Min({a, b}) \in Int
      BY MinIs
    <3> QED  BY <2>5, <2>6, <3>1
  <2>8. n \in Int /\ n >= 1 /\ n <= Min({Wanted, Len(archive) - pos})
    BY <2>7
  <2> QED  BY <1>1, <2>5, <2>6, <2>7, <2>8
<1>4. \/ n <= size /\ Min({n, size}) = n
      \/ n = size + 1 /\ Min({n, size}) = size
  <2>1. Min({n, size}) = IF n <= size THEN n ELSE size
    BY <1>1, <1>3, MinIs
  <2> QED  BY <1>1, <1>3, <2>1
<1>5. /\ size' \in Nat
      /\ pos' \in 0 .. Len(archive)
      /\ \/ n <= size /\ size' = size - n
         \/ n = size + 1 /\ size' = 0
  BY <1>1, <1>2, <1>3, <1>4
<1>6. TarTyped'
  BY <1>1, <1>5 DEF TarInv, TarTyped
<1>7. EndsInv'
  BY <1>1 DEF TarInv, EndsInv
<1>8. ASSUME ~misread
      PROVE  ProgressInv'
  <2>1. ProgressInv
    BY <1>8 DEF TarInv
  <2> PICK j \in DOMAIN members : j = blk.of
    BY <1>1
  <2> DEFINE m == members[j]
             p == Path(j)
  <2>2. /\ Covered(j - 1)
        /\ Underway(j)
        /\ size <= m.size
        /\ pos = m.at + 2 + (m.size - size)
    BY <1>1, <2>1 DEF ProgressInv, InMember
  <2>3. /\ m.size \in Nat /\ m.at \in Nat /\ j # 0
        /\ Path(j)' = p /\ members' = members
    BY <1>1, MembersTyped DEF source, Path
  <2>4. /\ size' <= m.size
        /\ \/ pos' = m.at + 2 + (m.size - size')
           \/ size' = 0 /\ pos' = m.at + 2 + m.size + 1
    <3>1. pos' = pos + n
      BY <1>2
    <3>2. /\ n <= size => pos + n = m.at + 2 + (m.size - (size - n))
          /\ n <= size => size - n <= m.size
          /\ n = size + 1 => pos + n = m.at + 2 + m.size + 1
          /\ 0 <= m.size
      <4> PICK s, a, z, b : s = m.size /\ a = m.at /\ z = size /\ b = pos
        OBVIOUS
      <4>1. s \in Nat /\ a \in Nat /\ z \in Nat /\ b \in Nat /\ n \in Nat
        BY <1>1, <1>3, <2>3
      <4>2. z <= s /\ b = a + 2 + (s - z)
        BY <2>2
      <4>3. /\ n <= z => b + n = a + 2 + (s - (z - n))
            /\ n <= z => z - n <= s
            /\ n = z + 1 => b + n = a + 2 + s + 1
            /\ 0 <= s
        BY ONLY <4>1, <4>2, TakeData
      <4> QED  BY <4>3
    <3> QED  BY <1>5, <3>1, <3>2
  <2> SUFFICES Covered(j - 1)' /\ Underway(j)'
    <3>1. Covered(j - 1)' /\ Underway(j)' => InMember(j)'
      BY <1>1, <2>4 DEF InMember
    <3> QED  BY <1>1, <3>1 DEF ProgressInv
  <2>5. CASE outfd = 0
    <3>1. UNCHANGED <<fs, outfd, lost>>
      BY <1>2, <2>5
    <3> QED  BY <1>1, <2>2, <2>3, <2>5, <3>1, CoveredSame DEF Underway
  <2>6. CASE outfd # 0 /\ outfd' = 0 /\ lost' = lost \cup {outfd} /\ fs' = fs
    <3>1. j \in lost'
      BY <2>2, <2>6 DEF Underway
    <3>2. Covered(j - 1)'
      BY <1>1, <2>2, <2>6, CoveredStays
    <3> QED  BY <2>3, <2>6, <3>1, <3>2 DEF Underway
  <2>7. ASSUME NEW written \in 0 .. Kept(n),
               outfd # 0,
               fs' = [fs EXCEPT ![Owner(fs, Path(outfd))].len = @ + written],
               lost' = IF written = Kept(n) THEN lost ELSE lost \cup {outfd},
               outfd' = outfd
        PROVE  Covered(j - 1)' /\ Underway(j)'
    <3>1. outfd = j /\ m.type = "file" /\ WrittenTo(j)
      BY <2>2, <2>7 DEF Underway
    <3>2. PICK o : o = Owner(fs, p)
      OBVIOUS
    <3>3. /\ p \in DOMAIN fs /\ o \in DOMAIN fs
          /\ fs' = [fs EXCEPT ![o].len = @ + written]
      BY <2>7, <3>1, <3>2 DEF WrittenTo
    <3>4. \A len : fs[o] = File(j, len) => fs'[o] = File(j, len + written)
      BY <3>3 DEF File
    <3>5. PICK len : fs[o] = File(j, len) /\ fs'[o] = File(j, len + written)
      BY <3>1, <3>2, <3>4 DEF WrittenTo
    <3>6. Grows(o)
      BY <3>3, <3>5 DEF Grows, File
    <3>7. Owner(fs', p) = o /\ DOMAIN fs' = DOMAIN fs
      BY <3>2, <3>3, <3>6, OwnerKept
    <3>8. Covered(j - 1)'
      BY <1>1, <2>2, <2>3, <2>7, <3>1, <3>3, <3>6, <3>7, CoveredKept
    <3>9. WrittenTo(j)'
      BY <2>3, <3>3, <3>5, <3>7 DEF WrittenTo
    <3>10. ASSUME j \notin lost'
           PROVE  fs'[o] = File(j, m.size - size')
      <4>1. j \notin lost /\ written = Kept(n)
        BY <2>7, <3>1, <3>10
      <4>2. fs[o] = File(j, m.size - size)
        BY <2>2, <3>1, <3>2, <4>1 DEF Underway
      <4>3. m.size - size + Kept(n) = m.size - size'
        <5>1. Kept(n) = Min({n, size})
          BY DEF Kept
        <5>2. Kept(n) \in Int /\ size' = size - Kept(n)
          BY <1>1, <1>2, <1>3, <1>4, <5>1
        <5> HIDE DEF m
        <5> QED  BY <1>1, <2>3, <5>2
      <4> QED  BY <3>4, <4>1, <4>2, <4>3
    <3> QED  BY <2>3, <2>7, <3>1, <3>7, <3>8, <3>9, <3>10 DEF Underway
  <2> QED  BY <1>2, <2>5, <2>6, <2>7
<1> QED  BY <1>1, <1>6, <1>7, <1>8 DEF TarInv

LEMMA MemberDoneKept == TarInv /\ MemberDone => TarInv'
<1> SUFFICES ASSUME TarInv, MemberDone
             PROVE  TarInv'
  OBVIOUS
<1>1. /\ tarpc = "data" /\ tarpc' = "header" /\ size = 0 /\ ret' = 0 /\ outfd' = 0
      /\ UNCHANGED <<source, pos, blk, size, fs, lost, misread>>
      /\ members' = members /\ archive' = archive
      /\ members \in Archives /\ blk.part = "header" /\ blk.of \in DOMAIN members
  BY DEF MemberDone, TarInv, TarTyped, source
<1>2. TarTyped' /\ EndsInv'
  BY <1>1 DEF TarInv, TarTyped, EndsInv
<1>3. ASSUME ~misread
      PROVE  ProgressInv'
  <2> PICK j \in DOMAIN members : j = blk.of
    BY <1>1
  <2>1. ProgressInv
    BY <1>3 DEF TarInv
  <2>2. InMember(j)
    BY <1>1, <2>1 DEF ProgressInv
  <2>3. members[j].size \in Nat /\ members[j].at \in Nat /\ j \in Nat
    BY <1>1, MembersTyped
  <2>4. Settled(j)
    <3>1. CASE members[j].type = "file" /\ j \notin lost
      <4>1. members[j].size - size = members[j].size
        BY <1>1, <2>3
      <4>2. /\ fs[Owner(fs, Path(j))] = File(j, members[j].size)
            /\ WrittenTo(j)
        BY <1>1, <2>2, <2>3, <3>1, <4>1 DEF InMember, Underway
      <4>3. File(j, members[j].size) = [Entry("file", j, <<>>) EXCEPT !.len = members[j].size]
        BY DEF File, Entry
      <4>4. Extracted(j)
        BY <3>1, <4>2, <4>3 DEF Extracted, WrittenTo
      <4> QED  BY <4>4 DEF Settled
    <3>2. CASE members[j].type # "file" \/ j \in lost
      BY <1>1, <2>2, <3>2 DEF InMember, Underway, Settled
    <3> QED  BY <3>1, <3>2
  <2>5. Covered(j)
    <3>1. \A i \in DOMAIN members : i <= j => i <= j - 1 \/ i = j
      BY <1>1, <2>3, MembersTyped
    <3> QED  BY <2>2, <2>4, <3>1 DEF InMember, Covered
  <2>6. \/ pos = members[j].at + 2 + members[j].size
        \/ pos = members[j].at + 2 + members[j].size + 1
    BY <1>1, <2>2, <2>3 DEF InMember
  <2>7. Covered(j)' /\ Covered(j - 1)'
    BY <1>1, <2>2, <2>5, CoveredSame DEF InMember
  <2>8. InMember(j)'
    BY <1>1, <2>6, <2>7 DEF InMember
  <2> QED  BY <1>1, <2>8 DEF ProgressInv
<1> QED  BY <1>1, <1>2, <1>3 DEF TarInv

LEMMA TarKept == TarInv /\ [TarNext]_tar => TarInv'
<1> SUFFICES ASSUME TarInv, [TarNext]_tar
             PROVE  TarInv'
  OBVIOUS
<1>1. CASE ReadHeader
  BY <1>1, ReadHeaderKept
<1>2. CASE ReadError
  <2>1. UNCHANGED <<source, pos, blk, size, outfd, ret, fs, lost>>
        /\ members' = members /\ archive' = archive
        /\ tarpc = "header" /\ misread'
        /\ tarpc' = IF blk.part = "header" THEN "block" ELSE "undefined"
    BY <1>2 DEF ReadError, source
  <2>2. TarTyped'
    BY <2>1 DEF TarInv, TarTyped
  <2>3. EndsInv'
    BY <2>1 DEF TarInv, EndsInv, ZerosAt
  <2> QED  BY <2>1, <2>2, <2>3 DEF TarInv
<1>3. CASE NoHeader
  <2>1. /\ UNCHANGED <<source, pos, blk, size, outfd, fs, lost, misread>>
        /\ members' = members /\ archive' = archive
        /\ tarpc = "block" /\ blk.part \in {"empty", "junk"}
        /\ ret \in {-1, 0, 1}
        /\ \/ blk.part = "junk" /\ ret' = -1 /\ tarpc' = "returned"
           \/ blk.part = "empty" /\ ret + 1 < 2 /\ ret' = ret + 1 /\ tarpc' = "header"
           \/ blk.part = "empty" /\ ~(ret + 1 < 2) /\ ret' = 0 /\ tarpc' = "returned"
    BY <1>3 DEF NoHeader, Return, TarInv, TarTyped, source
  <2>2. TarTyped'
    <3>1. ret' \in {-1, 0, 1}
      BY <2>1
    <3> QED  BY <2>1, <3>1 DEF TarInv, TarTyped
  <2>3. blk.part = "empty" /\ ~(ret + 1 < 2) => WellEnded
    <3> SUFFICES ASSUME ret = 1, blk.part = "empty"
                 PROVE  WellEnded
      BY <2>1
    <3>1. /\ pos >= 4 /\ pos <= Len(archive) /\ pos \in Nat /\ Len(archive) \in Nat
          /\ ZerosAt(pos - 2) /\ ZerosAt(pos)
      BY <2>1 DEF TarInv, TarTyped, EndsInv
    <3> DEFINE i == pos - 3
    <3>2. i \in 1 .. Len(archive) - 3 /\ i .. i + 3 = {pos - 3, pos - 2, pos - 1, pos}
          /\ pos - 2 - 1 = pos - 3
      BY <3>1
    <3>3. /\ archive[pos - 3] = Zero
          /\ archive[pos - 2] = Zero
          /\ archive[pos - 1] = Zero
          /\ archive[pos] = Zero
      BY <3>1, <3>2 DEF ZerosAt
    <3>4. \A k \in i .. i + 3 : archive[k] = Zero
      BY <3>2, <3>3
    <3> QED  BY <3>2, <3>4 DEF WellEnded
  <2>4. EndsInv'
    BY <2>1, <2>3 DEF TarInv, EndsInv, ZerosAt, WellEnded
  <2>5. ~misread => ProgressInv'
    BY <2>1, CoveredSame DEF TarInv, ProgressInv
  <2> QED  BY <2>1, <2>2, <2>4, <2>5 DEF TarInv
<1>4. CASE CreateFile \/ CreateNode \/ CreateDir \/ SkipMember
  BY <1>4, CreateKept
<1>5. CASE ReadData
  BY <1>5, ReadDataKept
<1>6. CASE DataEnds
  <2>1. /\ UNCHANGED <<source, pos, blk, size, outfd, fs, lost>>
        /\ members' = members /\ archive' = archive
        /\ ret' = -1 /\ tarpc' = "returned" /\ tarpc = "data"
        /\ ~misread' => ~misread
    BY <1>6 DEF DataEnds, Return, source
  <2>2. TarTyped' /\ EndsInv'
    BY <2>1 DEF TarInv, TarTyped, EndsInv, ZerosAt
  <2>3. ~misread => ProgressInv'
    BY <2>1, CoveredSame DEF TarInv, ProgressInv, InMember
  <2> QED  BY <2>1, <2>2, <2>3 DEF TarInv
<1>7. CASE MemberDone
  BY <1>7, MemberDoneKept
<1>8. CASE UNCHANGED tar
  <2>1. UNCHANGED <<source, pos, blk, size, outfd, ret, fs, tarpc, lost, misread>>
        /\ members' = members /\ archive' = archive /\ \A i : Path(i)' = Path(i)
    BY <1>8 DEF tar, source, Path
  <2>2. TarTyped' /\ EndsInv'
    BY <2>1 DEF TarInv, TarTyped, EndsInv, ZerosAt, WellEnded
  <2>3. \A i : Underway(i)' = Underway(i)
    BY <2>1, CoveredSame DEF Underway, WrittenTo
  <2>4. ~misread => ProgressInv'
    BY <2>1, <2>3, CoveredSame DEF TarInv, ProgressInv, InMember
  <2> QED  BY <2>1, <2>2, <2>4 DEF TarInv
<1> QED  BY <1>1, <1>2, <1>3, <1>4, <1>5, <1>6, <1>7, <1>8 DEF TarNext

(* A success of ta means that the archive ended with two empty blocks and,  *)
(* if no read failed, that every member is where its texts put it, whole,  *)
(* or replaced by a later one, or one of those whose own calls failed or   *)
(* wrote too little: for any archive, cut anywhere, any reads and any      *)
(* files that were there before.                                           *)
THEOREM ArchiveIsExtracted == TarSpec => []SuccessIsComplete
<1>1. TarInv => SuccessIsComplete
  BY DEF TarInv, EndsInv, ProgressInv, AllCovered, Settled, SuccessIsComplete
<1> QED  BY <1>1, TarInitial, TarKept, PTL DEF TarSpec

-----------------------------------------------------------------------------
(***************************************************************************)
(* The commands that are a few system calls in a row (Mounts).             *)
(***************************************************************************)
Fields ==
  {"node", "mounts", "root", "cwd", "console", "loop", "files", "module", "kernel", "stopped"}

MountsTyped ==
  /\ cmd \in Cmds
  /\ cmderr \in {0, 1}
  /\ DOMAIN world = Fields

LEMMA WorldTyped == DOMAIN World = Fields
BY DEF World, Fields

LEMMA EffectTyped ==
  ASSUME NEW w, DOMAIN w = Fields, NEW call
  PROVE  DOMAIN Effect(call, w) = Fields
BY DEF Effect, ReopenConsole

\* Only reopening it changes the console.
LEMMA EffectElsewhere ==
  ASSUME NEW w, DOMAIN w = Fields, NEW call, call # "console"
  PROVE  Effect(call, w).console = w.console
BY DEF Effect, Fields

LEMMA MountsTypedKept == MountsTyped /\ MountsNext => MountsTyped'
<1> SUFFICES ASSUME MountsTyped, MountsNext
             PROVE  MountsTyped'
  OBVIOUS
<1>1. CASE Succeeds
  BY <1>1, EffectTyped DEF Succeeds, MountsTyped
<1>2. CASE Fails
  BY <1>2 DEF Fails, MountsTyped
<1>3. CASE Misreads
  BY <1>3 DEF Misreads, MountsTyped
<1> QED  BY <1>1, <1>2, <1>3 DEF MountsNext

Closing == {"close loop", "close image", "close kernel", "close initrd"}

(***************************************************************************)
(* One step of a command, as the table of its steps says.                  *)
(***************************************************************************)
Quiet == denied \subseteq {"detect"}
Attached == "clear fd" \in denied

StepTaken(s) ==
  \/ /\ Possible(s.call, s.as)
     /\ step' = s.ok
     /\ world' = Effect(s.call, world)
     /\ cmderr' = IF s.clears THEN 0 ELSE cmderr
     /\ denied' = denied
  \/ /\ s.call \notin Closing
     /\ step' \in s.fails
     /\ world' = world
     /\ cmderr' = IF s.sets = 1 THEN 1 ELSE cmderr
     /\ denied' = IF Possible(s.call, s.as) THEN denied \cup {s.call} ELSE denied
  \/ /\ s.call = "detect"
     /\ step' = s.ok
     /\ world' = world
     /\ cmderr' = cmderr
     /\ denied' = denied \cup {"detect"}

(* A step is the one the table of its command has at step.                 *)
LEMMA StepIsTaken ==
  MountsNext => /\ step # End /\ StepTaken(Steps(cmd)[step])
                /\ UNCHANGED <<cmd, image, piped>>
BY DEF MountsNext, Succeeds, Fails, Misreads, Current, StepTaken, mvars, Closing

(* How a call ends that is no try of one of the kernel's types.             *)
Succeeded(c, o) ==
  /\ Possible(c, "none")
  /\ step' = o
  /\ world' = Effect(c, world)
  /\ denied' = denied
Failed(c, f) ==
  /\ c \notin Closing
  /\ step' \in f
  /\ world' = world
  /\ IF Possible(c, "none") THEN denied' = denied \cup {c} ELSE denied' = denied

LEMMA AttemptTaken ==
  ASSUME NEW c, NEW o, NEW f, StepTaken(Attempt(c, o, f)), c # "detect"
  PROVE  \/ Succeeded(c, o) /\ cmderr' = cmderr
         \/ Failed(c, f) /\ cmderr' = 1
BY DEF StepTaken, Attempt, Succeeded, Failed, Quiet
LEMMA AskTaken ==
  ASSUME NEW c, NEW o, NEW f, StepTaken(Ask(c, o, f)), c # "detect"
  PROVE  \/ Succeeded(c, o) /\ cmderr' = cmderr
         \/ Failed(c, f) /\ cmderr' = cmderr
BY DEF StepTaken, Attempt, Ask, Succeeded, Failed, Quiet
LEMMA ClearTaken ==
  ASSUME NEW c, NEW o, NEW f, StepTaken(Clear(c, o, f)), c # "detect"
  PROVE  \/ Succeeded(c, o) /\ cmderr' = 0
         \/ Failed(c, f) /\ cmderr' = 1
BY DEF StepTaken, Attempt, Clear, Succeeded, Failed, Quiet

\* What is taken for a type may be known or not.
LEMMA DetectTaken ==
  ASSUME NEW o, NEW f, StepTaken(Attempt("detect", o, f))
  PROVE  \/ Succeeded("detect", o) /\ cmderr' = cmderr
         \/ Failed("detect", f) /\ cmderr' = 1
         \/ step' = o /\ world' = world /\ cmderr' = cmderr /\ denied' = denied \cup {"detect"}
BY DEF StepTaken, Attempt, Succeeded, Failed

(***************************************************************************)
(* lo: the image is attached from step 4 on, unless the error it left is    *)
(* told; and the files that are open before each step.                     *)
(***************************************************************************)
LoInv ==
  cmd = "lo" =>
    /\ \/ step \in 1 .. 3 /\ cmderr = 0 /\ world.loop = "free"
       \/ step = 4 /\ cmderr = 0 /\ world.loop = "attached"
       \/ step = 5 /\ cmderr = 1 /\ world.loop = "attached"
       \/ step \in {0, 6, 7} /\ cmderr = 0 /\ world.loop = "named"
       \/ step \in {0, 6, 7} /\ cmderr = 1 /\ world.loop = "free"
       \/ step \in {0, 6, 7} /\ cmderr = 1 /\ Attached
    /\ Quiet => cmderr = 0
LoFiles ==
  cmd = "lo" =>
    world.files \subseteq
      CASE step = 2 -> {"loop"}
        [] step \in 3 .. 6 -> {"loop", "image"}
        [] step = 7 -> {"image"}
        [] OTHER -> {}

(* What a call that was denied changes.                                    *)
LEMMA DeniedKept ==
  /\ denied' = denied => (Quiet' <=> Quiet) /\ (Attached' <=> Attached)
  /\ \A c : c # "detect" /\ denied' = denied \cup {c} => ~Quiet' /\ (Attached => Attached')
  /\ denied' = denied \cup {"detect"} => (Quiet' <=> Quiet)
  /\ denied' = denied \cup {"clear fd"} => Attached'
BY DEF Quiet, Attached

LEMMA LoIsKept == MountsTyped /\ LoInv /\ LoFiles /\ cmd = "lo" /\ MountsNext
  => LoInv' /\ LoFiles'
<1>1. SUFFICES ASSUME MountsTyped, LoInv, LoFiles, cmd = "lo", MountsNext
               PROVE  LoInv' /\ LoFiles'
  OBVIOUS
<1>2. /\ StepTaken(Lo[step])
      /\ step \in 1 .. 7
      /\ cmd' = cmd
      /\ cmderr \in {0, 1}
      /\ DOMAIN world = Fields
  <2>1. Steps(cmd) = Lo
    BY <1>1 DEF Steps
  <2>2. StepTaken(Lo[step]) /\ step # 0 /\ cmd' = cmd
    BY <1>1, <2>1, StepIsTaken DEF End
  <2>3. step \in 0 .. 7
    BY <1>1 DEF LoInv
  <2> QED  BY <1>1, <2>2, <2>3 DEF MountsTyped
<1>3. DOMAIN world = Fields
  BY <1>2
<1>4. CASE step = 1
  <2>1. \/ Succeeded("open loop", 2) /\ cmderr' = cmderr
        \/ Failed("open loop", {End}) /\ cmderr' = 1
    BY <1>2, <1>4, AttemptTaken DEF Lo
  <2>2. /\ Effect("open loop", world).loop = world.loop
        /\ Effect("open loop", world).files = world.files \cup {"loop"}
        /\ Possible("open loop", "none")
    BY <1>3 DEF Effect, Possible, Fields
  <2>3. \/ /\ step' = 2 /\ cmderr' = cmderr /\ (Quiet' <=> Quiet)
           /\ world'.loop = world.loop
           /\ world'.files = world.files \cup {"loop"}
        \/ /\ step' = 0 /\ cmderr' = 1 /\ ~Quiet'
           /\ world'.loop = world.loop
           /\ world'.files = world.files
    BY <2>1, <2>2, DeniedKept DEF Succeeded, Failed, End
  <2>4. LoInv'
    BY <1>1, <1>2, <1>4, <2>3 DEF LoInv
  <2>5. LoFiles'
    BY <1>1, <1>2, <1>4, <2>3 DEF LoFiles
  <2> QED  BY <2>4, <2>5
<1>5. CASE step = 2
  <2>1. \/ Succeeded("open image", 3) /\ cmderr' = cmderr
        \/ Failed("open image", {6}) /\ cmderr' = 1
    BY <1>2, <1>5, AttemptTaken DEF Lo
  <2>2. /\ Effect("open image", world).loop = world.loop
        /\ Effect("open image", world).files = world.files \cup {"image"}
        /\ Possible("open image", "none")
    BY <1>3 DEF Effect, Possible, Fields
  <2>3. \/ /\ step' = 3 /\ cmderr' = cmderr /\ (Quiet' <=> Quiet)
           /\ world'.loop = world.loop
           /\ world'.files = world.files \cup {"image"}
        \/ /\ step' = 6 /\ cmderr' = 1 /\ ~Quiet'
           /\ world'.loop = world.loop
           /\ world'.files = world.files
    BY <2>1, <2>2, DeniedKept DEF Succeeded, Failed, End
  <2>4. LoInv'
    BY <1>1, <1>2, <1>5, <2>3 DEF LoInv
  <2>5. LoFiles'
    BY <1>1, <1>2, <1>5, <2>3 DEF LoFiles
  <2> QED  BY <2>4, <2>5
<1>6. CASE step = 3
  <2>1. \/ Succeeded("set fd", 4) /\ cmderr' = cmderr
        \/ Failed("set fd", {6}) /\ cmderr' = 1
    BY <1>2, <1>6, AttemptTaken DEF Lo
  <2>2. /\ Effect("set fd", world).loop = "attached"
        /\ Effect("set fd", world).files = world.files
        /\ Possible("set fd", "none")
    BY <1>3 DEF Effect, Possible, Fields
  <2>3. \/ /\ step' = 4 /\ cmderr' = cmderr /\ (Quiet' <=> Quiet)
           /\ world'.loop = "attached"
           /\ world'.files = world.files
        \/ /\ step' = 6 /\ cmderr' = 1 /\ ~Quiet'
           /\ world'.loop = world.loop
           /\ world'.files = world.files
    BY <2>1, <2>2, DeniedKept DEF Succeeded, Failed, End
  <2>4. LoInv'
    BY <1>1, <1>2, <1>6, <2>3 DEF LoInv
  <2>5. LoFiles'
    BY <1>1, <1>2, <1>6, <2>3 DEF LoFiles
  <2> QED  BY <2>4, <2>5
<1>7. CASE step = 4
  <2>1. \/ Succeeded("set status", 6) /\ cmderr' = cmderr
        \/ Failed("set status", {5}) /\ cmderr' = 1
    BY <1>2, <1>7, AttemptTaken DEF Lo
  <2>2. /\ Effect("set status", world).loop = "named"
        /\ Effect("set status", world).files = world.files
        /\ Possible("set status", "none")
    BY <1>3 DEF Effect, Possible, Fields
  <2>3. \/ /\ step' = 6 /\ cmderr' = cmderr /\ (Quiet' <=> Quiet)
           /\ world'.loop = "named"
           /\ world'.files = world.files
        \/ /\ step' = 5 /\ cmderr' = 1 /\ ~Quiet'
           /\ world'.loop = world.loop
           /\ world'.files = world.files
    BY <2>1, <2>2, DeniedKept DEF Succeeded, Failed, End
  <2>4. LoInv'
    BY <1>1, <1>2, <1>7, <2>3 DEF LoInv
  <2>5. LoFiles'
    BY <1>1, <1>2, <1>7, <2>3 DEF LoFiles
  <2> QED  BY <2>4, <2>5
<1>8. CASE step = 5
  <2>1. \/ Succeeded("clear fd", 6) /\ cmderr' = cmderr
        \/ Failed("clear fd", {6}) /\ cmderr' = cmderr
    BY <1>2, <1>8, AskTaken DEF Lo
  <2>2. /\ Effect("clear fd", world).loop = "free"
        /\ Effect("clear fd", world).files = world.files
        /\ Possible("clear fd", "none")
    BY <1>3 DEF Effect, Possible, Fields
  <2>3. \/ /\ step' = 6 /\ cmderr' = cmderr /\ (Quiet' <=> Quiet)
           /\ world'.loop = "free"
           /\ world'.files = world.files
        \/ /\ step' = 6 /\ cmderr' = cmderr /\ ~Quiet'
           /\ world'.loop = world.loop
           /\ world'.files = world.files
           /\ Attached'
    BY <2>1, <2>2, DeniedKept DEF Succeeded, Failed, End
  <2>4. LoInv'
    BY <1>1, <1>2, <1>8, <2>3 DEF LoInv
  <2>5. LoFiles'
    BY <1>1, <1>2, <1>8, <2>3 DEF LoFiles
  <2> QED  BY <2>4, <2>5
<1>9. CASE step = 6
  <2>1. Succeeded("close loop", 7) /\ cmderr' = cmderr
    BY <1>2, <1>9, AskTaken DEF Lo, Failed, Closing
  <2>2. /\ Effect("close loop", world).loop = world.loop
        /\ Effect("close loop", world).files = world.files \ {"loop"}
    BY <1>3 DEF Effect, Possible, Fields
  <2>3. /\ step' = 7
        /\ cmderr' = cmderr
        /\ (Quiet' <=> Quiet)
        /\ world'.loop = world.loop
        /\ world'.files = world.files \ {"loop"}
        /\ (Attached' <=> Attached)
    BY <2>1, <2>2, DeniedKept DEF Succeeded, End
  <2>4. LoInv'
    BY <1>1, <1>2, <1>9, <2>3 DEF LoInv
  <2>5. LoFiles'
    BY <1>1, <1>2, <1>9, <2>3 DEF LoFiles
  <2> QED  BY <2>4, <2>5
<1>10. CASE step = 7
  <2>1. Succeeded("close image", End) /\ cmderr' = cmderr
    BY <1>2, <1>10, AskTaken DEF Lo, Failed, Closing
  <2>2. /\ Effect("close image", world).loop = world.loop
        /\ Effect("close image", world).files = world.files \ {"image"}
    BY <1>3 DEF Effect, Possible, Fields
  <2>3. /\ step' = 0
        /\ cmderr' = cmderr
        /\ (Quiet' <=> Quiet)
        /\ world'.loop = world.loop
        /\ world'.files = world.files \ {"image"}
        /\ (Attached' <=> Attached)
    BY <2>1, <2>2, DeniedKept DEF Succeeded, End
  <2>4. LoInv'
    BY <1>1, <1>2, <1>10, <2>3 DEF LoInv
  <2>5. LoFiles'
    BY <1>1, <1>2, <1>10, <2>3 DEF LoFiles
  <2> QED  BY <2>4, <2>5
<1> QED  BY <1>2, <1>4, <1>5, <1>6, <1>7, <1>8, <1>9, <1>10

(* The other commands open no file.                                        *)
NoFiles == cmd \notin {"lo", "mp", "kx", "kx initrd"} => world.files = {}

(* Parts of the world, on their own.                                       *)
OldThere == <<"fs", "old">> \in world.mounts
NewThere == <<"fs", "new">> \in world.mounts
Mounted == <<"device", "target">> \in world.mounts
Stopped == world.stopped
Loaded == world.kernel = "loaded"
IsKx == cmd \in {"kx", "kx initrd"}
RootNew == world.root = "new root"
CwdNew == world.cwd = "new root"

(* mv: a call of it fails only if it is denied, as the old mount is there.  *)
MvInv ==
  cmd = "mv" =>
    \/ step = 1 /\ cmderr = 0 /\ OldThere
    \/ step = 2 /\ cmderr = 0 /\ OldThere /\ ~Quiet
    \/ step = 3 /\ cmderr = 0 /\ OldThere /\ ~Quiet /\ NewThere
    \/ step = 3 /\ cmderr = 1 /\ OldThere /\ ~Quiet
    \/ step = 0 /\ cmderr = 0 /\ ~OldThere /\ NewThere
    \/ step = 0 /\ cmderr = 1 /\ ~Quiet

LEMMA MvIsKept == MountsTyped /\ MvInv /\ NoFiles /\ cmd = "mv" /\ MountsNext
  => MvInv' /\ NoFiles'
<1>1. SUFFICES ASSUME MountsTyped, MvInv, NoFiles, cmd = "mv", MountsNext
               PROVE  MvInv' /\ NoFiles'
  OBVIOUS
<1>2. /\ StepTaken(Mv[step])
      /\ step \in 1 .. 3
      /\ cmd' = cmd
      /\ cmderr \in {0, 1}
      /\ DOMAIN world = Fields
  <2>1. Steps(cmd) = Mv
    BY <1>1 DEF Steps
  <2>2. StepTaken(Mv[step]) /\ step # 0 /\ cmd' = cmd
    BY <1>1, <2>1, StepIsTaken DEF End
  <2>3. step \in 0 .. 3
    BY <1>1 DEF MvInv
  <2> QED  BY <1>1, <2>2, <2>3 DEF MountsTyped
<1>3. DOMAIN world = Fields
  BY <1>2
<1>4. CASE step = 1
  <2>1. \/ Succeeded("move", End) /\ cmderr' = cmderr
        \/ Failed("move", {2}) /\ cmderr' = cmderr
    BY <1>2, <1>4, AskTaken DEF Mv
  <2>2. /\ <<"fs", "old">> \notin Effect("move", world).mounts
        /\ <<"fs", "new">> \in Effect("move", world).mounts
        /\ Effect("move", world).files = world.files
        /\ (OldThere => Possible("move", "none"))
    BY <1>3 DEF Effect, Possible, Fields, OldThere, NewThere
  <2>3. \/ /\ step' = 0 /\ cmderr' = cmderr /\ (Quiet' <=> Quiet)
           /\ world'.files = world.files
           /\ ~OldThere'
           /\ NewThere'
        \/ /\ step' = 2 /\ cmderr' = cmderr /\ (OldThere => ~Quiet')
           /\ (OldThere' <=> OldThere)
           /\ (NewThere' <=> NewThere)
           /\ (Quiet' => Quiet)
           /\ world'.files = world.files
    BY <2>1, <2>2, DeniedKept DEF Succeeded, Failed, End, OldThere, NewThere
  <2>4. MvInv'
    BY <1>1, <1>2, <1>4, <2>3 DEF MvInv
  <2>5. NoFiles'
    BY <1>1, <1>2, <1>4, <2>3 DEF NoFiles
  <2> QED  BY <2>4, <2>5
<1>5. CASE step = 2
  <2>1. \/ Succeeded("bind", 3) /\ cmderr' = cmderr
        \/ Failed("bind", {3}) /\ cmderr' = 1
    BY <1>2, <1>5, AttemptTaken DEF Mv
  <2>2. /\ (<<"fs", "old">> \in Effect("bind", world).mounts <=> OldThere)
        /\ <<"fs", "new">> \in Effect("bind", world).mounts
        /\ Effect("bind", world).files = world.files
        /\ (OldThere => Possible("bind", "none"))
    BY <1>3 DEF Effect, Possible, Fields, OldThere, NewThere
  <2>3. \/ /\ step' = 3 /\ cmderr' = cmderr /\ (Quiet' <=> Quiet)
           /\ world'.files = world.files
           /\ (OldThere' <=> OldThere)
           /\ NewThere'
        \/ /\ step' = 3 /\ cmderr' = 1 /\ (OldThere => ~Quiet')
           /\ (OldThere' <=> OldThere)
           /\ (NewThere' <=> NewThere)
           /\ (Quiet' => Quiet)
           /\ world'.files = world.files
    BY <2>1, <2>2, DeniedKept DEF Succeeded, Failed, End, OldThere, NewThere
  <2>4. MvInv'
    BY <1>1, <1>2, <1>5, <2>3 DEF MvInv
  <2>5. NoFiles'
    BY <1>1, <1>2, <1>5, <2>3 DEF NoFiles
  <2> QED  BY <2>4, <2>5
<1>6. CASE step = 3
  <2>1. \/ Succeeded("umount", End) /\ cmderr' = cmderr
        \/ Failed("umount", {End}) /\ cmderr' = 1
    BY <1>2, <1>6, AttemptTaken DEF Mv
  <2>2. /\ <<"fs", "old">> \notin Effect("umount", world).mounts
        /\ (<<"fs", "new">> \in Effect("umount", world).mounts <=> NewThere)
        /\ Effect("umount", world).files = world.files
        /\ (OldThere => Possible("umount", "none"))
    BY <1>3 DEF Effect, Possible, Fields, OldThere, NewThere
  <2>3. \/ /\ step' = 0 /\ cmderr' = cmderr /\ (Quiet' <=> Quiet)
           /\ world'.files = world.files
           /\ ~OldThere'
           /\ (NewThere' <=> NewThere)
        \/ /\ step' = 0 /\ cmderr' = 1 /\ (OldThere => ~Quiet')
           /\ (OldThere' <=> OldThere)
           /\ (NewThere' <=> NewThere)
           /\ (Quiet' => Quiet)
           /\ world'.files = world.files
    BY <2>1, <2>2, DeniedKept DEF Succeeded, Failed, End, OldThere, NewThere
  <2>4. MvInv'
    BY <1>1, <1>2, <1>6, <2>3 DEF MvInv
  <2>5. NoFiles'
    BY <1>1, <1>2, <1>6, <2>3 DEF NoFiles
  <2> QED  BY <2>4, <2>5
<1> QED  BY <1>2, <1>4, <1>5, <1>6

(* sw and pr: without an error so far, each change so far was made.        *)
SwInv ==
  cmd = "sw" =>
    /\ \/ step = 1 /\ cmderr = 0
       \/ step = 2 /\ cmderr = 0 /\ RootNew
       \/ step \in {0, 3} /\ cmderr = 0 /\ RootNew /\ CwdNew
       \/ step \in {0, 1, 2, 3} /\ cmderr = 1
    /\ Quiet => cmderr = 0

LEMMA SwIsKept == MountsTyped /\ SwInv /\ NoFiles /\ cmd = "sw" /\ MountsNext
  => SwInv' /\ NoFiles'
<1>1. SUFFICES ASSUME MountsTyped, SwInv, NoFiles, cmd = "sw", MountsNext
               PROVE  SwInv' /\ NoFiles'
  OBVIOUS
<1>2. /\ StepTaken(Sw[step])
      /\ step \in 1 .. 3
      /\ cmd' = cmd
      /\ cmderr \in {0, 1}
      /\ DOMAIN world = Fields
  <2>1. Steps(cmd) = Sw
    BY <1>1 DEF Steps
  <2>2. StepTaken(Sw[step]) /\ step # 0 /\ cmd' = cmd
    BY <1>1, <2>1, StepIsTaken DEF End
  <2>3. step \in 0 .. 3
    BY <1>1 DEF SwInv
  <2> QED  BY <1>1, <2>2, <2>3 DEF MountsTyped
<1>3. DOMAIN world = Fields
  BY <1>2
<1>4. CASE step = 1
  <2>1. \/ Succeeded("chroot new", 2) /\ cmderr' = cmderr
        \/ Failed("chroot new", {2}) /\ cmderr' = 1
    BY <1>2, <1>4, AttemptTaken DEF Sw
  <2>2. /\ Effect("chroot new", world).root = "new root"
        /\ Effect("chroot new", world).files = world.files
        /\ Possible("chroot new", "none")
    BY <1>3 DEF Effect, Possible, Fields, RootNew, CwdNew
  <2>3. \/ /\ step' = 2 /\ cmderr' = cmderr /\ (Quiet' <=> Quiet)
           /\ world'.files = world.files
           /\ RootNew'
        \/ /\ step' = 2 /\ cmderr' = 1 /\ ~Quiet'
           /\ (RootNew' <=> RootNew)
           /\ (CwdNew' <=> CwdNew)
           /\ world'.files = world.files
           /\ (Quiet' => Quiet)
    BY <2>1, <2>2, DeniedKept DEF Succeeded, Failed, End, RootNew, CwdNew
  <2>4. SwInv'
    BY <1>1, <1>2, <1>4, <2>3 DEF SwInv
  <2>5. NoFiles'
    BY <1>1, <1>2, <1>4, <2>3 DEF NoFiles
  <2> QED  BY <2>4, <2>5
<1>5. CASE step = 2
  <2>1. \/ Succeeded("chdir /", 3) /\ cmderr' = cmderr
        \/ Failed("chdir /", {3}) /\ cmderr' = 1
    BY <1>2, <1>5, AttemptTaken DEF Sw
  <2>2. /\ (Effect("chdir /", world).root = "new root" <=> RootNew)
        /\ (Effect("chdir /", world).cwd = "new root" <=> RootNew)
        /\ Effect("chdir /", world).files = world.files
        /\ Possible("chdir /", "none")
    BY <1>3 DEF Effect, Possible, Fields, RootNew, CwdNew
  <2>3. \/ /\ step' = 3 /\ cmderr' = cmderr /\ (Quiet' <=> Quiet)
           /\ world'.files = world.files
           /\ (RootNew' <=> RootNew)
           /\ (CwdNew' <=> RootNew)
        \/ /\ step' = 3 /\ cmderr' = 1 /\ ~Quiet'
           /\ (RootNew' <=> RootNew)
           /\ (CwdNew' <=> CwdNew)
           /\ world'.files = world.files
           /\ (Quiet' => Quiet)
    BY <2>1, <2>2, DeniedKept DEF Succeeded, Failed, End, RootNew, CwdNew
  <2>4. SwInv'
    BY <1>1, <1>2, <1>5, <2>3 DEF SwInv
  <2>5. NoFiles'
    BY <1>1, <1>2, <1>5, <2>3 DEF NoFiles
  <2> QED  BY <2>4, <2>5
<1>6. CASE step = 3
  <2>1. \/ Succeeded("console", End) /\ cmderr' = cmderr
        \/ Failed("console", {End}) /\ cmderr' = cmderr
    BY <1>2, <1>6, AskTaken DEF Sw
  <2>2. /\ (Effect("console", world).root = "new root" <=> RootNew)
        /\ (Effect("console", world).cwd = "new root" <=> CwdNew)
        /\ Effect("console", world).files = world.files
        /\ Possible("console", "none")
    BY <1>3 DEF Effect, ReopenConsole, Possible, Fields, RootNew, CwdNew
  <2>3. \/ /\ step' = 0 /\ cmderr' = cmderr /\ (Quiet' <=> Quiet)
           /\ world'.files = world.files
           /\ (RootNew' <=> RootNew)
           /\ (CwdNew' <=> CwdNew)
        \/ /\ step' = 0 /\ cmderr' = cmderr /\ ~Quiet'
           /\ (RootNew' <=> RootNew)
           /\ (CwdNew' <=> CwdNew)
           /\ world'.files = world.files
           /\ (Quiet' => Quiet)
    BY <2>1, <2>2, DeniedKept DEF Succeeded, Failed, End, RootNew, CwdNew
  <2>4. SwInv'
    BY <1>1, <1>2, <1>6, <2>3 DEF SwInv
  <2>5. NoFiles'
    BY <1>1, <1>2, <1>6, <2>3 DEF NoFiles
  <2> QED  BY <2>4, <2>5
<1> QED  BY <1>2, <1>4, <1>5, <1>6

PrInv ==
  cmd = "pr" =>
    /\ \/ step = 1 /\ cmderr = 0
       \/ step = 2 /\ cmderr = 0 /\ CwdNew
       \/ step \in {0, 3, 4, 5} /\ cmderr = 0 /\ RootNew /\ CwdNew
       \/ step \in {0, 1, 2, 3, 4, 5} /\ cmderr = 1
    /\ Quiet => cmderr = 0

LEMMA PrIsKept == MountsTyped /\ PrInv /\ NoFiles /\ cmd = "pr" /\ MountsNext
  => PrInv' /\ NoFiles'
<1>1. SUFFICES ASSUME MountsTyped, PrInv, NoFiles, cmd = "pr", MountsNext
               PROVE  PrInv' /\ NoFiles'
  OBVIOUS
<1>2. /\ StepTaken(Pr[step])
      /\ step \in 1 .. 5
      /\ cmd' = cmd
      /\ cmderr \in {0, 1}
      /\ DOMAIN world = Fields
  <2>1. Steps(cmd) = Pr
    BY <1>1 DEF Steps
  <2>2. StepTaken(Pr[step]) /\ step # 0 /\ cmd' = cmd
    BY <1>1, <2>1, StepIsTaken DEF End
  <2>3. step \in 0 .. 5
    BY <1>1 DEF PrInv
  <2> QED  BY <1>1, <2>2, <2>3 DEF MountsTyped
<1>3. DOMAIN world = Fields
  BY <1>2
<1>4. CASE step = 1
  <2>1. \/ Succeeded("chdir new", 2) /\ cmderr' = cmderr
        \/ Failed("chdir new", {2}) /\ cmderr' = 1
    BY <1>2, <1>4, AttemptTaken DEF Pr
  <2>2. /\ Effect("chdir new", world).cwd = "new root"
        /\ Effect("chdir new", world).files = world.files
        /\ Possible("chdir new", "none")
    BY <1>3 DEF Effect, Possible, Fields, RootNew, CwdNew
  <2>3. \/ /\ step' = 2 /\ cmderr' = cmderr /\ (Quiet' <=> Quiet)
           /\ world'.files = world.files
           /\ CwdNew'
        \/ /\ step' = 2 /\ cmderr' = 1 /\ ~Quiet'
           /\ (RootNew' <=> RootNew)
           /\ (CwdNew' <=> CwdNew)
           /\ world'.files = world.files
           /\ (Quiet' => Quiet)
    BY <2>1, <2>2, DeniedKept DEF Succeeded, Failed, End, RootNew, CwdNew
  <2>4. PrInv'
    BY <1>1, <1>2, <1>4, <2>3 DEF PrInv
  <2>5. NoFiles'
    BY <1>1, <1>2, <1>4, <2>3 DEF NoFiles
  <2> QED  BY <2>4, <2>5
<1>5. CASE step = 2
  <2>1. \/ Succeeded("pivot_root", 3) /\ cmderr' = cmderr
        \/ Failed("pivot_root", {3}) /\ cmderr' = 1
    BY <1>2, <1>5, AttemptTaken DEF Pr
  <2>2. /\ (Effect("pivot_root", world).cwd = "new root" <=> CwdNew)
        /\ (Effect("pivot_root", world).root = "new root" <=> CwdNew)
        /\ Effect("pivot_root", world).files = world.files
        /\ (CwdNew => Possible("pivot_root", "none"))
    BY <1>3 DEF Effect, Possible, Fields, RootNew, CwdNew
  <2>3. \/ /\ step' = 3 /\ cmderr' = cmderr /\ (Quiet' <=> Quiet)
           /\ world'.files = world.files
           /\ (CwdNew' <=> CwdNew)
           /\ (RootNew' <=> CwdNew)
        \/ /\ step' = 3 /\ cmderr' = 1 /\ (CwdNew => ~Quiet')
           /\ (RootNew' <=> RootNew)
           /\ (CwdNew' <=> CwdNew)
           /\ world'.files = world.files
           /\ (Quiet' => Quiet)
    <3>1. CASE Succeeded("pivot_root", 3) /\ cmderr' = cmderr
      BY <2>2, <3>1, DeniedKept DEF Succeeded, RootNew, CwdNew
    <3>2. CASE Failed("pivot_root", {3}) /\ cmderr' = 1
      BY <2>2, <3>2, DeniedKept DEF Failed, RootNew, CwdNew
    <3> QED  BY <2>1, <3>1, <3>2
  <2>4. PrInv'
    BY <1>1, <1>2, <1>5, <2>3 DEF PrInv
  <2>5. NoFiles'
    BY <1>1, <1>2, <1>5, <2>3 DEF NoFiles
  <2> QED  BY <2>4, <2>5
<1>6. CASE step = 3
  <2>1. \/ Succeeded("chroot .", 4) /\ cmderr' = cmderr
        \/ Failed("chroot .", {4}) /\ cmderr' = cmderr
    BY <1>2, <1>6, AskTaken DEF Pr
  <2>2. /\ (Effect("chroot .", world).cwd = "new root" <=> CwdNew)
        /\ (Effect("chroot .", world).root = "new root" <=> CwdNew)
        /\ Effect("chroot .", world).files = world.files
        /\ Possible("chroot .", "none")
    BY <1>3 DEF Effect, Possible, Fields, RootNew, CwdNew
  <2>3. \/ /\ step' = 4 /\ cmderr' = cmderr /\ (Quiet' <=> Quiet)
           /\ world'.files = world.files
           /\ (CwdNew' <=> CwdNew)
           /\ (RootNew' <=> CwdNew)
        \/ /\ step' = 4 /\ cmderr' = cmderr /\ ~Quiet'
           /\ (RootNew' <=> RootNew)
           /\ (CwdNew' <=> CwdNew)
           /\ world'.files = world.files
           /\ (Quiet' => Quiet)
    BY <2>1, <2>2, DeniedKept DEF Succeeded, Failed, End, RootNew, CwdNew
  <2>4. PrInv'
    BY <1>1, <1>2, <1>6, <2>3 DEF PrInv
  <2>5. NoFiles'
    BY <1>1, <1>2, <1>6, <2>3 DEF NoFiles
  <2> QED  BY <2>4, <2>5
<1>7. CASE step = 4
  <2>1. \/ Succeeded("chdir /", 5) /\ cmderr' = cmderr
        \/ Failed("chdir /", {5}) /\ cmderr' = 1
    BY <1>2, <1>7, AttemptTaken DEF Pr
  <2>2. /\ (Effect("chdir /", world).root = "new root" <=> RootNew)
        /\ (Effect("chdir /", world).cwd = "new root" <=> RootNew)
        /\ Effect("chdir /", world).files = world.files
        /\ Possible("chdir /", "none")
    BY <1>3 DEF Effect, Possible, Fields, RootNew, CwdNew
  <2>3. \/ /\ step' = 5 /\ cmderr' = cmderr /\ (Quiet' <=> Quiet)
           /\ world'.files = world.files
           /\ (RootNew' <=> RootNew)
           /\ (CwdNew' <=> RootNew)
        \/ /\ step' = 5 /\ cmderr' = 1 /\ ~Quiet'
           /\ (RootNew' <=> RootNew)
           /\ (CwdNew' <=> CwdNew)
           /\ world'.files = world.files
           /\ (Quiet' => Quiet)
    BY <2>1, <2>2, DeniedKept DEF Succeeded, Failed, End, RootNew, CwdNew
  <2>4. PrInv'
    BY <1>1, <1>2, <1>7, <2>3 DEF PrInv
  <2>5. NoFiles'
    BY <1>1, <1>2, <1>7, <2>3 DEF NoFiles
  <2> QED  BY <2>4, <2>5
<1>8. CASE step = 5
  <2>1. \/ Succeeded("console", End) /\ cmderr' = cmderr
        \/ Failed("console", {End}) /\ cmderr' = cmderr
    BY <1>2, <1>8, AskTaken DEF Pr
  <2>2. /\ (Effect("console", world).root = "new root" <=> RootNew)
        /\ (Effect("console", world).cwd = "new root" <=> CwdNew)
        /\ Effect("console", world).files = world.files
        /\ Possible("console", "none")
    BY <1>3 DEF Effect, ReopenConsole, Possible, Fields, RootNew, CwdNew
  <2>3. \/ /\ step' = 0 /\ cmderr' = cmderr /\ (Quiet' <=> Quiet)
           /\ world'.files = world.files
           /\ (RootNew' <=> RootNew)
           /\ (CwdNew' <=> CwdNew)
        \/ /\ step' = 0 /\ cmderr' = cmderr /\ ~Quiet'
           /\ (RootNew' <=> RootNew)
           /\ (CwdNew' <=> CwdNew)
           /\ world'.files = world.files
           /\ (Quiet' => Quiet)
    BY <2>1, <2>2, DeniedKept DEF Succeeded, Failed, End, RootNew, CwdNew
  <2>4. PrInv'
    BY <1>1, <1>2, <1>8, <2>3 DEF PrInv
  <2>5. NoFiles'
    BY <1>1, <1>2, <1>8, <2>3 DEF NoFiles
  <2> QED  BY <2>4, <2>5
<1> QED  BY <1>2, <1>4, <1>5, <1>6, <1>7, <1>8

(* The console is left alone up to the last step, which opens that of the  *)
(* root it finds.                                                          *)
ConsoleTold ==
  world.console = IF piped \/ "console" \in denied THEN "old" ELSE "new root"
ConsoleInv ==
  cmd \in {"sw", "pr"} =>
    IF step = 0 THEN cmderr = 0 => ConsoleTold
    ELSE world.console = "old" /\ "console" \notin denied

LEMMA ConsoleIsKept ==
  MountsTyped /\ SwInv /\ PrInv /\ ConsoleInv /\ cmd \in {"sw", "pr"} /\ MountsNext => ConsoleInv'
<1>1. SUFFICES ASSUME MountsTyped, SwInv, PrInv, ConsoleInv, cmd \in {"sw", "pr"}, MountsNext
               PROVE  ConsoleInv'
  OBVIOUS
<1>2. /\ step # 0 /\ StepTaken(Steps(cmd)[step]) /\ UNCHANGED <<cmd, piped>>
      /\ DOMAIN world = Fields
      /\ world.console = "old" /\ "console" \notin denied
  <2>1. step # 0 /\ StepTaken(Steps(cmd)[step]) /\ UNCHANGED <<cmd, piped>>
    BY <1>1, StepIsTaken DEF End
  <2> QED  BY <1>1, <2>1 DEF MountsTyped, ConsoleInv
<1>3. ASSUME NEW c, NEW o, c # "console", c # "detect", o # 0,
             Steps(cmd)[step] \in {Attempt(c, o, {o}), Ask(c, o, {o})}
      PROVE  ConsoleInv'
  <2>1. Succeeded(c, o) \/ Failed(c, {o})
    BY <1>2, <1>3, AttemptTaken, AskTaken
  <2>2. Effect(c, world).console = "old"
    BY <1>2, <1>3, EffectElsewhere
  <2>3. step' # 0 /\ world'.console = "old" /\ "console" \notin denied'
    BY <1>2, <1>3, <2>1, <2>2 DEF Succeeded, Failed
  <2> QED  BY <2>3 DEF ConsoleInv
<1>4. ASSUME Steps(cmd)[step] = Ask("console", End, {End}), cmderr = 0 => RootNew
      PROVE  ConsoleInv'
  <2>1. \/ Succeeded("console", End) /\ cmderr' = cmderr
        \/ Failed("console", {End}) /\ cmderr' = cmderr
    BY <1>2, <1>4, AskTaken
  <2>2. Possible("console", "none") /\ Effect("console", world) = ReopenConsole(world)
    BY DEF Possible, Effect
  <2>3. ReopenConsole(world).console = IF piped THEN "old" ELSE world.root
    BY <1>2 DEF ReopenConsole, Fields
  <2>4. step' = 0
    BY <2>1 DEF Succeeded, Failed, End
  <2>5. ASSUME cmderr' = 0
        PROVE  ConsoleTold'
    <3>1. world.root = "new root"
      BY <1>4, <2>1, <2>5 DEF RootNew
    <3>2. CASE Succeeded("console", End)
      BY <1>2, <2>2, <2>3, <3>1, <3>2 DEF Succeeded, ConsoleTold
    <3>3. CASE Failed("console", {End})
      BY <1>2, <2>2, <3>3 DEF Failed, ConsoleTold
    <3> QED  BY <2>1, <3>2, <3>3
  <2> QED  BY <2>4, <2>5 DEF ConsoleInv
<1>5. CASE cmd = "sw"
  <2>1. Steps(cmd) = Sw /\ step \in 1 .. 3 /\ (step = 3 /\ cmderr = 0 => RootNew)
    BY <1>1, <1>2, <1>5 DEF Steps, SwInv
  <2>2. /\ Sw[1] = Attempt("chroot new", 2, {2})
        /\ Sw[2] = Attempt("chdir /", 3, {3})
        /\ Sw[3] = Ask("console", End, {End})
    BY DEF Sw
  <2>3. CASE step = 1
    <3>1. Steps(cmd)[step] = Attempt("chroot new", 2, {2})
      BY <2>1, <2>2, <2>3
    <3>2. "chroot new" # "console" /\ "chroot new" # "detect" /\ 2 # 0
      OBVIOUS
    <3> QED  BY <1>3, <3>1, <3>2
  <2>4. CASE step = 2
    <3>1. Steps(cmd)[step] = Attempt("chdir /", 3, {3})
      BY <2>1, <2>2, <2>4
    <3>2. "chdir /" # "console" /\ "chdir /" # "detect" /\ 3 # 0
      OBVIOUS
    <3> QED  BY <1>3, <3>1, <3>2
  <2>5. CASE step = 3
    BY <1>4, <2>1, <2>2, <2>5
  <2> QED  BY <2>1, <2>3, <2>4, <2>5
<1>6. CASE cmd = "pr"
  <2>1. Steps(cmd) = Pr /\ step \in 1 .. 5 /\ (step = 5 /\ cmderr = 0 => RootNew)
    BY <1>1, <1>2, <1>6 DEF Steps, PrInv
  <2>2. /\ Pr[1] = Attempt("chdir new", 2, {2})
        /\ Pr[2] = Attempt("pivot_root", 3, {3})
        /\ Pr[3] = Ask("chroot .", 4, {4})
        /\ Pr[4] = Attempt("chdir /", 5, {5})
        /\ Pr[5] = Ask("console", End, {End})
    BY DEF Pr
  <2>3. CASE step = 1
    <3>1. Steps(cmd)[step] = Attempt("chdir new", 2, {2})
      BY <2>1, <2>2, <2>3
    <3>2. "chdir new" # "console" /\ "chdir new" # "detect" /\ 2 # 0
      OBVIOUS
    <3> QED  BY <1>3, <3>1, <3>2
  <2>4. CASE step = 2
    <3>1. Steps(cmd)[step] = Attempt("pivot_root", 3, {3})
      BY <2>1, <2>2, <2>4
    <3>2. "pivot_root" # "console" /\ "pivot_root" # "detect" /\ 3 # 0
      OBVIOUS
    <3> QED  BY <1>3, <3>1, <3>2
  <2>5. CASE step = 3
    <3>1. Steps(cmd)[step] = Ask("chroot .", 4, {4})
      BY <2>1, <2>2, <2>5
    <3>2. "chroot ." # "console" /\ "chroot ." # "detect" /\ 4 # 0
      OBVIOUS
    <3> QED  BY <1>3, <3>1, <3>2
  <2>6. CASE step = 4
    <3>1. Steps(cmd)[step] = Attempt("chdir /", 5, {5})
      BY <2>1, <2>2, <2>6
    <3>2. "chdir /" # "console" /\ "chdir /" # "detect" /\ 5 # 0
      OBVIOUS
    <3> QED  BY <1>3, <3>1, <3>2
  <2>7. CASE step = 5
    BY <1>4, <2>1, <2>2, <2>7
  <2> QED  BY <2>1, <2>3, <2>4, <2>5, <2>6, <2>7
<1> QED  BY <1>1, <1>5, <1>6

(* mt with the numbers of its node.                                        *)
MtNodeInv ==
  cmd = "mt node" =>
    /\ \/ step \in {1, 2}
       \/ step = 0 /\ cmderr = 0 /\ Mounted
       \/ step = 0 /\ cmderr = 1
    /\ Quiet => cmderr = 0

NodeMt == Mt(TRUE)

LEMMA MtNodeTable ==
  NodeMt[1] = Attempt("mknod", 2, {2}) /\ NodeMt[2] = Attempt("mount", End, {End})
BY DEF NodeMt, Mt, Node

LEMMA MtNodeIsKept == MountsTyped /\ MtNodeInv /\ NoFiles /\ cmd = "mt node" /\ MountsNext
  => MtNodeInv' /\ NoFiles'
<1>1. SUFFICES ASSUME MountsTyped, MtNodeInv, NoFiles, cmd = "mt node", MountsNext
               PROVE  MtNodeInv' /\ NoFiles'
  OBVIOUS
<1>2. /\ StepTaken(NodeMt[step])
      /\ step \in {1, 2}
      /\ cmd' = cmd
      /\ cmderr \in {0, 1}
      /\ DOMAIN world = Fields
  <2>1. Steps(cmd) = NodeMt
    BY <1>1 DEF Steps, NodeMt
  <2>2. StepTaken(NodeMt[step]) /\ step # 0 /\ cmd' = cmd
    BY <1>1, <2>1, StepIsTaken DEF End
  <2>3. step \in {0, 1, 2}
    BY <1>1 DEF MtNodeInv
  <2> QED  BY <1>1, <2>2, <2>3 DEF MountsTyped
<1>3. DOMAIN world = Fields
  BY <1>2
<1>4. CASE step = 1
  <2>1. \/ Succeeded("mknod", 2) /\ cmderr' = cmderr
        \/ Failed("mknod", {2}) /\ cmderr' = 1
    BY <1>2, <1>4, AttemptTaken, MtNodeTable
  <2>2. /\ Effect("mknod", world).files = world.files
        /\ Possible("mknod", "none")
    BY <1>3 DEF Effect, Possible, Fields, Mounted
  <2>3. \/ /\ step' = 2 /\ cmderr' = cmderr /\ (Quiet' <=> Quiet)
           /\ world'.files = world.files
        \/ /\ step' = 2 /\ cmderr' = 1 /\ ~Quiet'
           /\ world'.files = world.files
    BY <2>1, <2>2, DeniedKept DEF Succeeded, Failed, End, Mounted
  <2>4. MtNodeInv'
    BY <1>1, <1>2, <1>4, <2>3 DEF MtNodeInv
  <2>5. NoFiles'
    BY <1>1, <1>2, <1>4, <2>3 DEF NoFiles
  <2> QED  BY <2>4, <2>5
<1>5. CASE step = 2
  <2>1. \/ Succeeded("mount", End) /\ cmderr' = cmderr
        \/ Failed("mount", {End}) /\ cmderr' = 1
    BY <1>2, <1>5, AttemptTaken, MtNodeTable
  <2>2. /\ <<"device", "target">> \in Effect("mount", world).mounts
        /\ Effect("mount", world).files = world.files
        /\ Possible("mount", "none")
    BY <1>3 DEF Effect, Possible, Fields, Mounted
  <2>3. \/ /\ step' = 0 /\ cmderr' = cmderr /\ (Quiet' <=> Quiet)
           /\ world'.files = world.files
           /\ Mounted'
        \/ /\ step' = 0 /\ cmderr' = 1 /\ ~Quiet'
           /\ world'.files = world.files
    BY <2>1, <2>2, DeniedKept DEF Succeeded, Failed, End, Mounted
  <2>4. MtNodeInv'
    BY <1>1, <1>2, <1>5, <2>3 DEF MtNodeInv
  <2>5. NoFiles'
    BY <1>1, <1>2, <1>5, <2>3 DEF NoFiles
  <2> QED  BY <2>4, <2>5
<1> QED  BY <1>2, <1>4, <1>5

(* mp: its file may stay open.                                             *)
MpInv ==
  cmd = "mp" =>
    /\ \/ step \in {1, 2} /\ cmderr = 0
       \/ step = 0 /\ cmderr = 0 /\ world.module = "in"
       \/ step = 0 /\ cmderr = 1
    /\ Quiet => cmderr = 0
MpFiles ==
  cmd = "mp" => world.files \subseteq {"module"}

LEMMA MpIsKept == MountsTyped /\ MpInv /\ MpFiles /\ cmd = "mp" /\ MountsNext
  => MpInv' /\ MpFiles'
<1>1. SUFFICES ASSUME MountsTyped, MpInv, MpFiles, cmd = "mp", MountsNext
               PROVE  MpInv' /\ MpFiles'
  OBVIOUS
<1>2. /\ StepTaken(Mp[step])
      /\ step \in 1 .. 2
      /\ cmd' = cmd
      /\ cmderr \in {0, 1}
      /\ DOMAIN world = Fields
  <2>1. Steps(cmd) = Mp
    BY <1>1 DEF Steps
  <2>2. StepTaken(Mp[step]) /\ step # 0 /\ cmd' = cmd
    BY <1>1, <2>1, StepIsTaken DEF End
  <2>3. step \in 0 .. 2
    BY <1>1 DEF MpInv
  <2> QED  BY <1>1, <2>2, <2>3 DEF MountsTyped
<1>3. DOMAIN world = Fields
  BY <1>2
<1>4. CASE step = 1
  <2>1. \/ Succeeded("open module", 2) /\ cmderr' = cmderr
        \/ Failed("open module", {End}) /\ cmderr' = 1
    BY <1>2, <1>4, AttemptTaken DEF Mp
  <2>2. /\ Effect("open module", world).files = world.files \cup {"module"}
        /\ Possible("open module", "none")
    BY <1>3 DEF Effect, Possible, Fields
  <2>3. \/ /\ step' = 2 /\ cmderr' = cmderr /\ (Quiet' <=> Quiet)
           /\ world'.files = world.files \cup {"module"}
        \/ /\ step' = 0 /\ cmderr' = 1 /\ ~Quiet'
           /\ world'.files = world.files
    BY <2>1, <2>2, DeniedKept DEF Succeeded, Failed, End
  <2>4. MpInv'
    BY <1>1, <1>2, <1>4, <2>3 DEF MpInv
  <2>5. MpFiles'
    BY <1>1, <1>2, <1>4, <2>3 DEF MpFiles
  <2> QED  BY <2>4, <2>5
<1>5. CASE step = 2
  <2>1. \/ Succeeded("finit_module", End) /\ cmderr' = cmderr
        \/ Failed("finit_module", {End}) /\ cmderr' = 1
    BY <1>2, <1>5, AttemptTaken DEF Mp
  <2>2. /\ Effect("finit_module", world).files = world.files
        /\ Effect("finit_module", world).module = "in"
        /\ Possible("finit_module", "none")
    BY <1>3 DEF Effect, Possible, Fields
  <2>3. \/ /\ step' = 0 /\ cmderr' = cmderr /\ (Quiet' <=> Quiet)
           /\ world'.files = world.files
           /\ world'.module = "in"
        \/ /\ step' = 0 /\ cmderr' = 1 /\ ~Quiet'
           /\ world'.files = world.files
    BY <2>1, <2>2, DeniedKept DEF Succeeded, Failed, End
  <2>4. MpInv'
    BY <1>1, <1>2, <1>5, <2>3 DEF MpInv
  <2>5. MpFiles'
    BY <1>1, <1>2, <1>5, <2>3 DEF MpFiles
  <2> QED  BY <2>4, <2>5
<1> QED  BY <1>2, <1>4, <1>5

(* kx: the restart comes after the kernel was loaded, on the first try or   *)
(* the second; and the files that may be open before each step.            *)
KxInv ==
  IsKx =>
    /\ \/ step \in {1, 2, 3} /\ cmderr = 0 /\ ~Stopped
       \/ step \in {4, 8, 9} /\ cmderr = 1 /\ ~Stopped
       \/ step \in {5, 6, 7} /\ cmderr = 0 /\ ~Stopped /\ Loaded
       \/ step = 0 /\ cmderr = 0 /\ Stopped /\ Loaded
       \/ step = 0 /\ cmderr = 1 /\ ~Stopped
    /\ Quiet => cmderr = 0
KxFiles ==
  IsKx =>
    world.files \subseteq
      CASE step \in {2, 6, 8} -> {"kernel"}
        [] step \in {3, 4, 5, 9} -> {"kernel", "initrd"}
        [] OTHER -> {}

LEMMA KxIsKept == MountsTyped /\ KxInv /\ KxFiles /\ IsKx /\ MountsNext
  => KxInv' /\ KxFiles'
<1>1. SUFFICES ASSUME MountsTyped, KxInv, KxFiles, IsKx, MountsNext
               PROVE  KxInv' /\ KxFiles'
  OBVIOUS
<1> PICK b \in BOOLEAN : Steps(cmd) = Kx(b)
  BY <1>1 DEF Steps, IsKx
<1>2. Steps(cmd) = Kx(b)
  OBVIOUS
<1>3. /\ StepTaken(Kx(b)[step])
      /\ step \in 1 .. 9
      /\ cmd' = cmd
      /\ cmderr \in {0, 1}
      /\ DOMAIN world = Fields
  <2>1. Steps(cmd) = Kx(b)
    BY <1>2
  <2>2. StepTaken(Kx(b)[step]) /\ step # 0 /\ cmd' = cmd
    BY <1>1, <2>1, StepIsTaken DEF End
  <2>3. step \in 0 .. 9
    BY <1>1 DEF KxInv
  <2> QED  BY <1>1, <2>2, <2>3 DEF MountsTyped
<1>4. DOMAIN world = Fields
  BY <1>3
<1>5. CASE step = 1
  <2>1. \/ Succeeded("open kernel", IF b THEN 2 ELSE 3) /\ cmderr' = cmderr
        \/ Failed("open kernel", {End}) /\ cmderr' = 1
    BY <1>3, <1>5, AttemptTaken DEF Kx
  <2>2. /\ (Effect("open kernel", world).stopped <=> Stopped)
        /\ Effect("open kernel", world).files = world.files \cup {"kernel"}
        /\ Possible("open kernel", "none")
    BY <1>4 DEF Effect, Possible, Fields, Stopped, Loaded
  <2>3. \/ /\ step' \in {2, 3} /\ cmderr' = cmderr /\ (Quiet' <=> Quiet)
           /\ world'.files = world.files \cup {"kernel"}
           /\ (Stopped' <=> Stopped)
        \/ /\ step' = 0 /\ cmderr' = 1 /\ ~Quiet'
           /\ world'.files = world.files
           /\ (Loaded' <=> Loaded)
           /\ (Stopped' <=> Stopped)
    BY <2>1, <2>2, DeniedKept DEF Succeeded, Failed, End, Stopped, Loaded
  <2>4. KxInv'
    BY <1>1, <1>3, <1>5, <2>3 DEF KxInv
  <2>5. KxFiles'
    BY <1>1, <1>3, <1>5, <2>3 DEF KxFiles
  <2> QED  BY <2>4, <2>5
<1>6. CASE step = 2
  <2>1. \/ Succeeded("open initrd", 3) /\ cmderr' = cmderr
        \/ Failed("open initrd", {8}) /\ cmderr' = 1
    BY <1>3, <1>6, AttemptTaken DEF Kx
  <2>2. /\ (Effect("open initrd", world).stopped <=> Stopped)
        /\ Effect("open initrd", world).files = world.files \cup {"initrd"}
        /\ Possible("open initrd", "none")
    BY <1>4 DEF Effect, Possible, Fields, Stopped, Loaded
  <2>3. \/ /\ step' = 3 /\ cmderr' = cmderr /\ (Quiet' <=> Quiet)
           /\ world'.files = world.files \cup {"initrd"}
           /\ (Stopped' <=> Stopped)
        \/ /\ step' = 8 /\ cmderr' = 1 /\ ~Quiet'
           /\ world'.files = world.files
           /\ (Loaded' <=> Loaded)
           /\ (Stopped' <=> Stopped)
    BY <2>1, <2>2, DeniedKept DEF Succeeded, Failed, End, Stopped, Loaded
  <2>4. KxInv'
    BY <1>1, <1>3, <1>6, <2>3 DEF KxInv
  <2>5. KxFiles'
    BY <1>1, <1>3, <1>6, <2>3 DEF KxFiles
  <2> QED  BY <2>4, <2>5
<1>7. CASE step = 3
  <2>1. \/ Succeeded("kexec_file_load", 5) /\ cmderr' = 0
        \/ Failed("kexec_file_load", {4, 9}) /\ cmderr' = 1
    BY <1>3, <1>7, ClearTaken DEF Kx
  <2>2. /\ Effect("kexec_file_load", world).kernel = "loaded"
        /\ (Effect("kexec_file_load", world).stopped <=> Stopped)
        /\ Effect("kexec_file_load", world).files = world.files
        /\ Possible("kexec_file_load", "none")
    BY <1>4 DEF Effect, Possible, Fields, Stopped, Loaded
  <2>3. \/ /\ step' = 5 /\ cmderr' = 0 /\ (Quiet' <=> Quiet)
           /\ world'.files = world.files
           /\ Loaded'
           /\ (Stopped' <=> Stopped)
        \/ /\ step' \in {4, 9} /\ cmderr' = 1 /\ ~Quiet'
           /\ world'.files = world.files
           /\ (Loaded' <=> Loaded)
           /\ (Stopped' <=> Stopped)
    BY <2>1, <2>2, DeniedKept DEF Succeeded, Failed, End, Stopped, Loaded
  <2>4. KxInv'
    BY <1>1, <1>3, <1>7, <2>3 DEF KxInv
  <2>5. KxFiles'
    BY <1>1, <1>3, <1>7, <2>3 DEF KxFiles
  <2> QED  BY <2>4, <2>5
<1>8. CASE step = 4
  <2>1. \/ Succeeded("kexec_file_load", 5) /\ cmderr' = 0
        \/ Failed("kexec_file_load", {9}) /\ cmderr' = 1
    BY <1>3, <1>8, ClearTaken DEF Kx
  <2>2. /\ Effect("kexec_file_load", world).kernel = "loaded"
        /\ (Effect("kexec_file_load", world).stopped <=> Stopped)
        /\ Effect("kexec_file_load", world).files = world.files
        /\ Possible("kexec_file_load", "none")
    BY <1>4 DEF Effect, Possible, Fields, Stopped, Loaded
  <2>3. \/ /\ step' = 5 /\ cmderr' = 0 /\ (Quiet' <=> Quiet)
           /\ world'.files = world.files
           /\ Loaded'
           /\ (Stopped' <=> Stopped)
        \/ /\ step' = 9 /\ cmderr' = 1 /\ ~Quiet'
           /\ world'.files = world.files
           /\ (Loaded' <=> Loaded)
           /\ (Stopped' <=> Stopped)
    BY <2>1, <2>2, DeniedKept DEF Succeeded, Failed, End, Stopped, Loaded
  <2>4. KxInv'
    BY <1>1, <1>3, <1>8, <2>3 DEF KxInv
  <2>5. KxFiles'
    BY <1>1, <1>3, <1>8, <2>3 DEF KxFiles
  <2> QED  BY <2>4, <2>5
<1>9. CASE step = 5
  <2>1. Succeeded("close initrd", 6) /\ cmderr' = cmderr
    BY <1>3, <1>9, AskTaken DEF Kx, Failed, Closing
  <2>2. /\ (Effect("close initrd", world).kernel = "loaded" <=> Loaded)
        /\ (Effect("close initrd", world).stopped <=> Stopped)
        /\ Effect("close initrd", world).files = world.files \ {"initrd"}
    BY <1>4 DEF Effect, Possible, Fields, Stopped, Loaded
  <2>3. /\ step' = 6
        /\ cmderr' = cmderr
        /\ (Quiet' <=> Quiet)
        /\ world'.files = world.files \ {"initrd"}
        /\ (Loaded' <=> Loaded)
        /\ (Stopped' <=> Stopped)
    BY <2>1, <2>2, DeniedKept DEF Succeeded, End, Stopped, Loaded
  <2>4. KxInv'
    BY <1>1, <1>3, <1>9, <2>3 DEF KxInv
  <2>5. KxFiles'
    BY <1>1, <1>3, <1>9, <2>3 DEF KxFiles
  <2> QED  BY <2>4, <2>5
<1>10. CASE step = 6
  <2>1. Succeeded("close kernel", 7) /\ cmderr' = cmderr
    BY <1>3, <1>10, AskTaken DEF Kx, Failed, Closing
  <2>2. /\ (Effect("close kernel", world).kernel = "loaded" <=> Loaded)
        /\ (Effect("close kernel", world).stopped <=> Stopped)
        /\ Effect("close kernel", world).files = world.files \ {"kernel"}
    BY <1>4 DEF Effect, Possible, Fields, Stopped, Loaded
  <2>3. /\ step' = 7
        /\ cmderr' = cmderr
        /\ (Quiet' <=> Quiet)
        /\ world'.files = world.files \ {"kernel"}
        /\ (Loaded' <=> Loaded)
        /\ (Stopped' <=> Stopped)
    BY <2>1, <2>2, DeniedKept DEF Succeeded, End, Stopped, Loaded
  <2>4. KxInv'
    BY <1>1, <1>3, <1>10, <2>3 DEF KxInv
  <2>5. KxFiles'
    BY <1>1, <1>3, <1>10, <2>3 DEF KxFiles
  <2> QED  BY <2>4, <2>5
<1>11. CASE step = 7
  <2>1. \/ Succeeded("reboot", End) /\ cmderr' = cmderr
        \/ Failed("reboot", {End}) /\ cmderr' = 1
    BY <1>3, <1>11, AttemptTaken DEF Kx
  <2>2. /\ (Effect("reboot", world).kernel = "loaded" <=> Loaded)
        /\ Effect("reboot", world).stopped
        /\ Effect("reboot", world).files = world.files
        /\ Possible("reboot", "none")
    BY <1>4 DEF Effect, Possible, Fields, Stopped, Loaded
  <2>3. \/ /\ step' = 0 /\ cmderr' = cmderr /\ (Quiet' <=> Quiet)
           /\ world'.files = world.files
           /\ (Loaded' <=> Loaded)
           /\ Stopped'
        \/ /\ step' = 0 /\ cmderr' = 1 /\ ~Quiet'
           /\ world'.files = world.files
           /\ (Loaded' <=> Loaded)
           /\ (Stopped' <=> Stopped)
    BY <2>1, <2>2, DeniedKept DEF Succeeded, Failed, End, Stopped, Loaded
  <2>4. KxInv'
    BY <1>1, <1>3, <1>11, <2>3 DEF KxInv
  <2>5. KxFiles'
    BY <1>1, <1>3, <1>11, <2>3 DEF KxFiles
  <2> QED  BY <2>4, <2>5
<1>12. CASE step = 8
  <2>1. Succeeded("close kernel", End) /\ cmderr' = cmderr
    BY <1>3, <1>12, AskTaken DEF Kx, Failed, Closing
  <2>2. /\ (Effect("close kernel", world).kernel = "loaded" <=> Loaded)
        /\ (Effect("close kernel", world).stopped <=> Stopped)
        /\ Effect("close kernel", world).files = world.files \ {"kernel"}
    BY <1>4 DEF Effect, Possible, Fields, Stopped, Loaded
  <2>3. /\ step' = 0
        /\ cmderr' = cmderr
        /\ (Quiet' <=> Quiet)
        /\ world'.files = world.files \ {"kernel"}
        /\ (Loaded' <=> Loaded)
        /\ (Stopped' <=> Stopped)
    BY <2>1, <2>2, DeniedKept DEF Succeeded, End, Stopped, Loaded
  <2>4. KxInv'
    BY <1>1, <1>3, <1>12, <2>3 DEF KxInv
  <2>5. KxFiles'
    BY <1>1, <1>3, <1>12, <2>3 DEF KxFiles
  <2> QED  BY <2>4, <2>5
<1>13. CASE step = 9
  <2>1. Succeeded("close initrd", 8) /\ cmderr' = cmderr
    BY <1>3, <1>13, AskTaken DEF Kx, Failed, Closing
  <2>2. /\ (Effect("close initrd", world).kernel = "loaded" <=> Loaded)
        /\ (Effect("close initrd", world).stopped <=> Stopped)
        /\ Effect("close initrd", world).files = world.files \ {"initrd"}
    BY <1>4 DEF Effect, Possible, Fields, Stopped, Loaded
  <2>3. /\ step' = 8
        /\ cmderr' = cmderr
        /\ (Quiet' <=> Quiet)
        /\ world'.files = world.files \ {"initrd"}
        /\ (Loaded' <=> Loaded)
        /\ (Stopped' <=> Stopped)
    BY <2>1, <2>2, DeniedKept DEF Succeeded, End, Stopped, Loaded
  <2>4. KxInv'
    BY <1>1, <1>3, <1>13, <2>3 DEF KxInv
  <2>5. KxFiles'
    BY <1>1, <1>3, <1>13, <2>3 DEF KxFiles
  <2> QED  BY <2>4, <2>5
<1> QED  BY <1>3, <1>5, <1>6, <1>7, <1>8, <1>9, <1>10, <1>11, <1>12, <1>13

(* The commands of one call: a failure of it is always told.               *)
Singles == {"mt", "re", "bi", "um", "cd", "cr", "mr", "rb"}
IsSingle == cmd \in Singles

SingleInv ==
  IsSingle =>
    \/ step = 1 /\ world = World /\ cmderr = 0
    \/ step = 0 /\ cmderr = 0 /\ Done
    \/ step = 0 /\ cmderr = 1 /\ ~Quiet

LEMMA OneCall ==
  ASSUME NEW call, call # "detect", step = 1, cmderr = 0, MountsNext,
         Steps(cmd)[1] = Attempt(call, End, {End}),
         Possible(call, "none"), Effect(call, world).files = world.files
  PROVE  /\ cmd' = cmd
         /\ step' = 0
         /\ world'.files = world.files
         /\ \/ cmderr' = 0 /\ world' = Effect(call, world)
            \/ cmderr' = 1 /\ ~Quiet'
<1>1. cmd' = cmd /\ StepTaken(Attempt(call, End, {End}))
  BY StepIsTaken
<1>2. \/ Succeeded(call, End) /\ cmderr' = cmderr
      \/ Failed(call, {End}) /\ cmderr' = 1
  BY <1>1, AttemptTaken
<1> QED  BY <1>1, <1>2, DeniedKept DEF Succeeded, Failed, End

LEMMA SingleIsKept ==
  MountsTyped /\ SingleInv /\ NoFiles /\ IsSingle /\ MountsNext => SingleInv' /\ NoFiles'
<1>1. SUFFICES ASSUME MountsTyped, SingleInv, NoFiles, IsSingle, MountsNext
               PROVE  SingleInv' /\ NoFiles'
  OBVIOUS
<1>2. /\ step = 1 /\ world = World /\ cmderr = 0
      /\ cmd' = cmd
      /\ world.files = {}
  <2>1. step # 0 /\ cmd' = cmd
    BY <1>1, StepIsTaken DEF End
  <2>2. world.files = {}
    BY <1>1 DEF NoFiles, IsSingle, Singles
  <2> QED  BY <1>1, <2>1, <2>2 DEF SingleInv
<1>3. SUFFICES ASSUME NEW call, call # "detect",
                      Steps(cmd)[1] = Attempt(call, End, {End}),
                      Possible(call, "none"),
                      Effect(call, World).files = World.files,
                      world' = Effect(call, World) => Done'
               PROVE  SingleInv' /\ NoFiles'
  <2> DEFINE Calls(c) ==
        /\ c # "detect"
        /\ Steps(cmd)[1] = Attempt(c, End, {End})
        /\ Possible(c, "none")
        /\ Effect(c, World).files = World.files
        /\ world' = Effect(c, World) => Done'
  <2>1. CASE cmd = "mt"
    <3>1. Steps(cmd)[1] = Attempt("mount", End, {End})
      BY <2>1 DEF Steps, Mt
    <3>2. Calls("mount")
      <4>1. Effect("mount", World).files = World.files /\ Possible("mount", "none")
        BY DEF Possible, Effect, World
      <4>2. <<"device", "target">> \in Effect("mount", World).mounts
        BY DEF Effect, World
      <4>3. <<"device", "target">> \in world'.mounts => Done'
        BY <1>2, <2>1 DEF Done, Autos
      <4> QED  BY <3>1, <4>1, <4>2, <4>3
    <3> QED  BY <1>3, <3>2
  <2>2. CASE cmd = "re"
    <3>1. Steps(cmd)[1] = Attempt("remount", End, {End})
      BY <2>2 DEF Steps, Re
    <3>2. Calls("remount")
      <4>1. Effect("remount", World).files = World.files /\ Possible("remount", "none")
        BY DEF Possible, Effect, World
      <4>2. <<"device", "target">> \in Effect("remount", World).mounts
        BY DEF Effect, World
      <4>3. <<"device", "target">> \in world'.mounts => Done'
        BY <1>2, <2>2 DEF Done, Autos
      <4> QED  BY <3>1, <4>1, <4>2, <4>3
    <3> QED  BY <1>3, <3>2
  <2>3. CASE cmd = "bi"
    <3>1. Steps(cmd)[1] = Attempt("bind", End, {End})
      BY <2>3 DEF Steps, Bi
    <3>2. Calls("bind")
      BY <1>2, <2>3, <3>1 DEF Possible, Effect, World, Done, Autos
    <3> QED  BY <1>3, <3>2
  <2>4. CASE cmd = "um"
    <3>1. Steps(cmd)[1] = Attempt("umount", End, {End})
      BY <2>4 DEF Steps, Um
    <3>2. Calls("umount")
      BY <1>2, <2>4, <3>1 DEF Possible, Effect, World, Done, Autos
    <3> QED  BY <1>3, <3>2
  <2>5. CASE cmd = "cd"
    <3>1. Steps(cmd)[1] = Attempt("chdir new", End, {End})
      BY <2>5 DEF Steps, Cd
    <3>2. Calls("chdir new")
      BY <1>2, <2>5, <3>1 DEF Possible, Effect, World, Done, Autos
    <3> QED  BY <1>3, <3>2
  <2>6. CASE cmd = "cr"
    <3>1. Steps(cmd)[1] = Attempt("chroot new", End, {End})
      BY <2>6 DEF Steps, Cr
    <3>2. Calls("chroot new")
      BY <1>2, <2>6, <3>1 DEF Possible, Effect, World, Done, Autos
    <3> QED  BY <1>3, <3>2
  <2>7. CASE cmd = "mr"
    <3>1. Steps(cmd)[1] = Attempt("delete_module", End, {End})
      BY <2>7 DEF Steps, Mr
    <3>2. Calls("delete_module")
      BY <1>2, <2>7, <3>1 DEF Possible, Effect, World, Done, Autos
    <3> QED  BY <1>3, <3>2
  <2>8. CASE cmd = "rb"
    <3>1. Steps(cmd)[1] = Attempt("reboot", End, {End})
      BY <2>8 DEF Steps, Rb
    <3>2. Calls("reboot")
      BY <1>2, <2>8, <3>1 DEF Possible, Effect, World, Done, Autos
    <3> QED  BY <1>3, <3>2
  <2> QED  BY <1>1, <2>1, <2>2, <2>3, <2>4, <2>5, <2>6, <2>7, <2>8 DEF IsSingle, Singles
<1>4. /\ step' = 0
      /\ world'.files = world.files
      /\ \/ cmderr' = 0 /\ world' = Effect(call, world)
         \/ cmderr' = 1 /\ ~Quiet'
  BY <1>1, <1>2, <1>3, OneCall
<1>5. SingleInv'
  BY <1>2, <1>3, <1>4 DEF SingleInv
<1>6. NoFiles'
  BY <1>2, <1>4 DEF NoFiles
<1> QED  BY <1>5, <1>6

(***************************************************************************)
(* mt with auto, where n is 1 when the node is made first: up to the tries  *)
(* only a denied call can set error; from then on it is set, and, unless    *)
(* something was denied, none of the types tried so far reads the device.  *)
(***************************************************************************)
Unreadable(k) == \A j \in 1 .. k : Filesystems[j] \notin Readable(image)

AutoAt(n) ==
  /\ step \in 0 .. n + 3 + Len(Filesystems)
  /\ \/ step \in 1 .. n + 2 /\ (Quiet => cmderr = 0)
     \/ step = n + 3 /\ cmderr = 1
     \/ step > n + 3 /\ cmderr = 1 /\ (Quiet => Unreadable(step - (n + 4)))
     \/ step = 0 /\ cmderr = 0 /\ Mounted
     \/ step = 0 /\ cmderr = 1 /\ (Quiet => Unreadable(Len(Filesystems)))

AutoInv ==
  /\ cmd = "mt auto" => AutoAt(0)
  /\ cmd = "mt node auto" => AutoAt(1)

(* The table of the steps of mt with auto.                                 *)
AutoTable(n) ==
  /\ n = 1 => Steps(cmd)[1] = Attempt("mknod", 2, {2})
  /\ Steps(cmd)[n + 1] = Attempt("detect", n + 2, {n + 3})
  /\ Steps(cmd)[n + 2] = Attempt("mount found", End, {n + 3})
  /\ Steps(cmd)[n + 3] = ReadTypes(n + 3)
  /\ \A k \in 1 .. Len(Filesystems) : Steps(cmd)[n + 3 + k] = Tries(n + 3)[k]

LEMMA TriesIsSeq ==
  ASSUME NEW n, NEW S, \A k \in 1 .. Len(Filesystems) : Tries(n)[k] \in S
  PROVE  Tries(n) \in Seq(S) /\ Len(Tries(n)) = Len(Filesystems)
<1>1. Len(Filesystems) \in Nat /\ DOMAIN Filesystems = 1 .. Len(Filesystems)
  BY FilesystemsAssumption, LenProperties
<1>2. Tries(n) = [k \in 1 .. Len(Filesystems) |-> Tries(n)[k]]
  BY <1>1 DEF Tries
<1>3. Tries(n) \in [1 .. Len(Filesystems) -> S]
  BY <1>2, Zenon
<1> QED  BY <1>1, <1>3, LenProperties

LEMMA AutoTables ==
  /\ cmd = "mt auto" => AutoTable(0)
  /\ cmd = "mt node auto" => AutoTable(1)
<1>1. ASSUME NEW n \in {0, 1}, NEW A,
             Steps(cmd) = A \o <<Attempt("detect", n + 2, {n + 3}), Attempt("mount found", End, {n + 3}),
                                ReadTypes(n + 3)>> \o Tries(n + 3),
             n = 0 => A = <<>>,
             n = 1 => A = <<Attempt("mknod", 2, {2})>>
      PROVE  AutoTable(n)
  <2> DEFINE a == Attempt("detect", n + 2, {n + 3})
             b == Attempt("mount found", End, {n + 3})
             c == ReadTypes(n + 3)
             d == Attempt("mknod", 2, {2})
             T == Tries(n + 3)
             S == {a, b, c, d} \cup {T[k] : k \in 1 .. Len(Filesystems)}
  <2>1. T \in Seq(S) /\ Len(T) = Len(Filesystems)
    <3>1. \A k \in 1 .. Len(Filesystems) : T[k] \in S
      OBVIOUS
    <3> QED  BY <3>1, TriesIsSeq
  <2>2. A \in Seq(S) /\ Len(A) = n /\ (n = 1 => A[1] = d)
    <3>1. n = 0 => A = <<>>
      BY <1>1
    <3>2. n = 1 => A = <<d>>
      BY <1>1
    <3>3. d \in S /\ n \in {0, 1}
      BY <1>1
    <3> HIDE DEF S, d
    <3>4. CASE n = 0
      BY <3>1, <3>4
    <3>5. CASE n = 1
      <4>1. A = <<d>>
        BY <3>2, <3>5
      <4>2. <<d>> \in Seq(S) /\ Len(<<d>>) = 1 /\ <<d>>[1] = d
        BY <3>3
      <4> QED  BY <3>5, <4>1, <4>2
    <3> QED  BY <3>3, <3>4, <3>5
  <2>3. <<a, b, c>> \in Seq(S) /\ Len(<<a, b, c>>) = 3
    OBVIOUS
  <2>4. Steps(cmd) = A \o <<a, b, c>> \o T
    BY <1>1
  <2> HIDE DEF a, b, c, d, T, S
  <2>5. /\ \A i \in 1 .. n : Steps(cmd)[i] = A[i]
        /\ \A i \in 1 .. 3 : Steps(cmd)[n + i] = <<a, b, c>>[i]
        /\ \A i \in 1 .. Len(Filesystems) : Steps(cmd)[n + 3 + i] = T[i]
    <3>1. /\ \A i \in 1 .. Len(A) : (A \o <<a, b, c>> \o T)[i] = A[i]
          /\ \A i \in 1 .. Len(<<a, b, c>>) : (A \o <<a, b, c>> \o T)[Len(A) + i] = <<a, b, c>>[i]
          /\ \A i \in 1 .. Len(T) : (A \o <<a, b, c>> \o T)[Len(A) + Len(<<a, b, c>>) + i] = T[i]
      <4> DEFINE B == <<a, b, c>>
      <4>1. A \in Seq(S) /\ B \in Seq(S) /\ T \in Seq(S)
        BY <2>1, <2>2, <2>3
      <4> HIDE DEF B
      <4>2. /\ \A i \in 1 .. Len(A) : (A \o B \o T)[i] = A[i]
            /\ \A i \in 1 .. Len(B) : (A \o B \o T)[Len(A) + i] = B[i]
            /\ \A i \in 1 .. Len(T) : (A \o B \o T)[Len(A) + Len(B) + i] = T[i]
        <5>1. A \o B \in Seq(S) /\ Len(A \o B) = Len(A) + Len(B)
          BY <4>1, ConcatProperties
        <5>2. Len(A) \in Nat /\ Len(B) \in Nat /\ Len(T) \in Nat
          BY <4>1, LenProperties
        <5>3. \A i \in 1 .. Len(A) + Len(B) : (A \o B \o T)[i] = (A \o B)[i]
          BY <4>1, <5>1, <5>2
        <5>4. \A i \in 1 .. Len(A) : (A \o B)[i] = A[i]
          BY <4>1, <5>1, <5>2
        <5>5. \A i \in 1 .. Len(B) : (A \o B)[Len(A) + i] = B[i]
          BY <4>1, <5>1, <5>2
        <5>6. \A i \in 1 .. Len(T) : (A \o B \o T)[Len(A) + Len(B) + i] = T[i]
          BY <4>1, <5>1, <5>2
        <5> QED  BY ONLY <5>2, <5>3, <5>4, <5>5, <5>6
      <4> QED  BY <4>2 DEF B
    <3> QED  BY <2>1, <2>2, <2>3, <2>4, <3>1
  <2>6. /\ n = 1 => Steps(cmd)[1] = d
        /\ Steps(cmd)[n + 1] = a
        /\ Steps(cmd)[n + 2] = b
        /\ Steps(cmd)[n + 3] = c
    BY <2>2, <2>5
  <2> QED  BY <2>5, <2>6 DEF AutoTable, a, b, c, d, T
<1>2. CASE cmd = "mt auto"
  <2>1. Steps(cmd) = MtAuto(FALSE)
    BY <1>2 DEF Steps
  <2>2. Steps(cmd) = <<>>
                     \o <<Attempt("detect", 0 + 2, {0 + 3}), Attempt("mount found", End, {0 + 3}),
                          ReadTypes(0 + 3)>>
                     \o Tries(0 + 3)
    BY <2>1 DEF MtAuto
  <2>3. 0 \in {0, 1} /\ (0 = 1 => <<>> = <<Attempt("mknod", 2, {2})>>)
    OBVIOUS
  <2> QED  BY <1>1, <1>2, <2>2, <2>3, Zenon
<1>3. CASE cmd = "mt node auto"
  <2>1. Steps(cmd) = MtAuto(TRUE)
    BY <1>3 DEF Steps
  <2>2. Steps(cmd) = <<Attempt("mknod", 2, {2})>>
                     \o <<Attempt("detect", 1 + 2, {1 + 3}), Attempt("mount found", End, {1 + 3}),
                          ReadTypes(1 + 3)>>
                     \o Tries(1 + 3)
    BY <2>1 DEF MtAuto, Node
  <2>3. 1 \in {0, 1} /\ 1 # 0
    OBVIOUS
  <2> QED  BY <1>1, <1>3, <2>2, <2>3, Zenon
<1> QED  BY <1>2, <1>3

\* A try of one type of the kernel's.
LEMMA TryTaken ==
  ASSUME NEW n \in Nat, NEW k \in 1 .. Len(Filesystems), StepTaken(Tries(n)[k])
  PROVE  \/ /\ step' = 0 /\ cmderr' = 0
            /\ world' = Effect("mount as", world)
         \/ /\ step' = TryFrom(n, k + 1) /\ cmderr' = cmderr
            /\ world' = world
            /\ IF Filesystems[k] \in Readable(image)
               THEN denied' = denied \cup {"mount as"} ELSE denied' = denied
<1>1. k \in DOMAIN Filesystems
  BY FilesystemsAssumption, LenProperties
<1>2. Tries(n)[k] = [call |-> "mount as", ok |-> End, fails |-> {TryFrom(n, k + 1)},
                     sets |-> 0, clears |-> TRUE, as |-> Filesystems[k]]
  BY <1>1 DEF Tries, Clear, Attempt
<1>3. Possible("mount as", Filesystems[k]) <=> Filesystems[k] \in Readable(image)
  BY DEF Possible
<1>4. ASSUME NEW s, s = [call |-> "mount as", ok |-> End, fails |-> {TryFrom(n, k + 1)},
                         sets |-> 0, clears |-> TRUE, as |-> Filesystems[k]]
      PROVE  /\ s.call = "mount as" /\ s.ok = 0 /\ s.fails = {TryFrom(n, k + 1)}
             /\ s.sets = 0 /\ s.clears /\ s.as = Filesystems[k]
  BY <1>4 DEF End
<1>5. PICK s : s = Tries(n)[k]
  OBVIOUS
<1>6. /\ s.call = "mount as" /\ s.ok = 0 /\ s.fails = {TryFrom(n, k + 1)}
      /\ s.sets = 0 /\ s.clears /\ s.as = Filesystems[k]
  BY <1>2, <1>4, <1>5
<1>7. StepTaken(s)
  BY <1>5
<1>8. \/ /\ step' = 0 /\ cmderr' = 0
         /\ world' = Effect("mount as", world)
      \/ /\ step' = TryFrom(n, k + 1) /\ cmderr' = cmderr
         /\ world' = world
         /\ IF Possible("mount as", Filesystems[k])
            THEN denied' = denied \cup {"mount as"} ELSE denied' = denied
  <2>0. s.call # "detect"
    BY <1>6
  <2>1. \/ /\ step' = s.ok
           /\ world' = Effect(s.call, world)
           /\ cmderr' = IF s.clears THEN 0 ELSE cmderr
        \/ /\ step' \in s.fails
           /\ world' = world
           /\ cmderr' = IF s.sets = 1 THEN 1 ELSE cmderr
           /\ denied' = IF Possible(s.call, s.as) THEN denied \cup {s.call} ELSE denied
    BY <1>7, <2>0, Zenon DEF StepTaken
  <2>2. Effect(s.call, world) = Effect("mount as", world)
    BY <1>6
  <2>3. Possible(s.call, s.as) <=> Possible("mount as", Filesystems[k])
    BY <1>6
  <2>4. CASE /\ step' = s.ok
             /\ world' = Effect(s.call, world)
             /\ cmderr' = IF s.clears THEN 0 ELSE cmderr
    BY ONLY <1>6, <2>2, <2>4
  <2>5. CASE /\ step' \in s.fails
             /\ world' = world
             /\ cmderr' = IF s.sets = 1 THEN 1 ELSE cmderr
             /\ denied' = IF Possible(s.call, s.as) THEN denied \cup {s.call} ELSE denied
    <3>1. step' = TryFrom(n, k + 1) /\ cmderr' = cmderr /\ world' = world
      <4>1. step' \in {TryFrom(n, k + 1)}
        BY <1>6, <2>5, Zenon
      <4>2. s.sets # 1
        <5>1. s.sets = 0
          BY <1>6, Zenon
        <5> QED  BY ONLY <5>1
      <4>3. cmderr' = cmderr
        BY <2>5, <4>2, Zenon
      <4> QED  BY <2>5, <4>1, <4>3, Zenon
    <3>2. CASE Possible("mount as", Filesystems[k])
      <4>1. denied' = denied \cup {s.call}
        BY <2>3, <2>5, <3>2, Zenon
      <4> QED  BY <1>6, <3>1, <3>2, <4>1, Zenon
    <3>3. CASE ~Possible("mount as", Filesystems[k])
      <4>1. denied' = denied
        BY <2>3, <2>5, <3>3, Zenon
      <4> QED  BY <3>1, <3>3, <4>1, Zenon
    <3> QED  BY <3>2, <3>3
  <2> QED  BY <2>1, <2>4, <2>5
<1> QED  BY <1>3, <1>8

LEMMA AutoAtKept ==
  \A n \in {0, 1} :
    /\ AutoAt(n) /\ AutoTable(n) /\ MountsTyped /\ NoFiles /\ MountsNext
    /\ cmd \notin {"lo", "mp", "kx", "kx initrd"}
    => AutoAt(n)' /\ NoFiles'
<1>1. SUFFICES ASSUME NEW n \in {0, 1},
                      AutoAt(n), AutoTable(n), MountsTyped, NoFiles, MountsNext,
                      cmd \notin {"lo", "mp", "kx", "kx initrd"}
               PROVE  AutoAt(n)' /\ NoFiles'
  OBVIOUS
<1> DEFINE L == Len(Filesystems)
<1>2. StepTaken(Steps(cmd)[step])
  BY <1>1, StepIsTaken
<1>3. /\ step # 0
      /\ cmd' = cmd
      /\ image' = image
      /\ cmderr \in {0, 1}
      /\ DOMAIN world = Fields
      /\ world.files = {}
      /\ L \in Nat
  BY <1>1, StepIsTaken, FilesystemsAssumption, LenProperties DEF End, MountsTyped, NoFiles
<1>4. \A k : Unreadable(k)' <=> Unreadable(k)
  BY <1>3 DEF Unreadable, Readable
<1>5. /\ step \in 0 .. n + 3 + L
      /\ \/ step \in 1 .. n + 2 /\ (Quiet => cmderr = 0)
         \/ step = n + 3 /\ cmderr = 1
         \/ step > n + 3 /\ cmderr = 1 /\ (Quiet => Unreadable(step - (n + 4)))
         \/ step = 0
  BY <1>1 DEF AutoAt
<1>6. \A k \in 1 .. L : Steps(cmd)[n + 3 + k] = Tries(n + 3)[k]
  BY <1>1 DEF AutoTable
<1>7. step \in 1 .. n + 3 + L
  BY <1>3, <1>5
<1>8. SUFFICES AutoAt(n)' /\ world'.files = {}
  BY <1>3 DEF NoFiles
<1>9. ASSUME n = 1, step = 1
      PROVE  AutoAt(n)' /\ world'.files = {}
  <2>1. \/ Succeeded("mknod", 2) /\ cmderr' = cmderr
        \/ Failed("mknod", {2}) /\ cmderr' = 1
    <3>1. n = 1 => Steps(cmd)[1] = Attempt("mknod", 2, {2})
      BY <1>1 DEF AutoTable
    <3>2. StepTaken(Attempt("mknod", 2, {2}))
      BY <1>2, <1>9, <3>1
    <3> QED  BY <3>2, AttemptTaken
  <2>2. Effect("mknod", world).files = world.files /\ Possible("mknod", "none")
    BY <1>3 DEF Effect, Possible, Fields
  <2>3. /\ step' = 2 /\ world'.files = world.files
        /\ \/ cmderr' = cmderr /\ (Quiet' <=> Quiet)
           \/ cmderr' = 1 /\ ~Quiet'
    BY <2>1, <2>2, DeniedKept DEF Succeeded, Failed
  <2>4. Quiet => cmderr = 0
    BY <1>3, <1>5, <1>9
  <2> QED  BY <1>3, <1>9, <2>3, <2>4 DEF AutoAt
<1>10. ASSUME step = n + 1
      PROVE  AutoAt(n)' /\ world'.files = {}
  <2>1. \/ Succeeded("detect", n + 2) /\ cmderr' = cmderr
        \/ Failed("detect", {n + 3}) /\ cmderr' = 1
        \/ /\ step' = n + 2 /\ world' = world /\ cmderr' = cmderr
           /\ denied' = denied \cup {"detect"}
    <3>1. Steps(cmd)[n + 1] = Attempt("detect", n + 2, {n + 3})
      BY <1>1 DEF AutoTable
    <3>2. StepTaken(Attempt("detect", n + 2, {n + 3}))
      BY <1>2, <1>10, <3>1
    <3> QED  BY <3>2, DetectTaken
  <2>2. Effect("detect", world).files = world.files
    BY <1>3 DEF Effect, Fields
  <2>3. /\ world'.files = world.files
        /\ \/ step' = n + 2 /\ cmderr' = cmderr /\ (Quiet' <=> Quiet)
           \/ step' = n + 3 /\ cmderr' = 1
    BY <2>1, <2>2, DeniedKept DEF Succeeded, Failed
  <2>4. Quiet => cmderr = 0
    BY <1>3, <1>5, <1>10
  <2> QED  BY <1>3, <1>10, <2>3, <2>4 DEF AutoAt
<1>11. ASSUME step = n + 2
      PROVE  AutoAt(n)' /\ world'.files = {}
  <2>1. \/ Succeeded("mount found", End) /\ cmderr' = cmderr
        \/ Failed("mount found", {n + 3}) /\ cmderr' = 1
    <3>1. Steps(cmd)[n + 2] = Attempt("mount found", End, {n + 3})
      BY <1>1 DEF AutoTable
    <3>2. StepTaken(Attempt("mount found", End, {n + 3}))
      BY <1>2, <1>11, <3>1
    <3> QED  BY <3>2, AttemptTaken
  <2>2. /\ Effect("mount found", world).files = world.files
        /\ <<"device", "target">> \in Effect("mount found", world).mounts
    BY <1>3 DEF Effect, Fields
  <2>3. /\ world'.files = world.files
        /\ \/ step' = 0 /\ cmderr' = cmderr /\ (Quiet' <=> Quiet) /\ Mounted'
           \/ step' = n + 3 /\ cmderr' = 1
    BY <2>1, <2>2, DeniedKept DEF Succeeded, Failed, End, Mounted
  <2>4. Quiet => cmderr = 0
    BY <1>3, <1>5, <1>11
  <2> QED  BY <1>3, <1>11, <2>3, <2>4 DEF AutoAt
<1>12. ASSUME step = n + 3
      PROVE  AutoAt(n)' /\ world'.files = {}
  <2>1. \/ Succeeded("read types", TryFrom(n + 3, 1)) /\ cmderr' = cmderr
        \/ Failed("read types", {End}) /\ cmderr' = cmderr
    <3>1. Steps(cmd)[n + 3] = Ask("read types", TryFrom(n + 3, 1), {End})
      BY <1>1 DEF AutoTable, ReadTypes
    <3>2. StepTaken(Ask("read types", TryFrom(n + 3, 1), {End}))
      BY <1>2, <1>12, <3>1
    <3> QED  BY <3>2, AskTaken
  <2>2. Effect("read types", world).files = world.files /\ Possible("read types", "none")
    BY <1>3 DEF Effect, Possible, Fields
  <2>3. /\ world'.files = world.files /\ cmderr' = cmderr
        /\ \/ step' = TryFrom(n + 3, 1)
           \/ step' = 0 /\ ~Quiet'
    BY <2>1, <2>2, DeniedKept DEF Succeeded, Failed, End
  <2>4. cmderr = 1
    BY <1>3, <1>5, <1>12
  <2>5. TryFrom(n + 3, 1) = IF L >= 1 THEN n + 4 ELSE 0
    BY <1>3, FilesystemsAssumption, LenProperties DEF TryFrom, End
  <2>6. Unreadable(0)
    BY DEF Unreadable
  <2>7. \/ step' = n + 4 /\ L >= 1
        \/ step' = 0 /\ (Quiet' => Unreadable(L))
    BY <1>3, <2>3, <2>5, <2>6
  <2> QED  BY <1>3, <1>4, <2>3, <2>4, <2>6, <2>7 DEF AutoAt
<1>13. ASSUME step > n + 3
      PROVE  AutoAt(n)' /\ world'.files = {}
  <2> DEFINE k == step - (n + 3)
  <2>1. k \in 1 .. L /\ step = n + 3 + k /\ n + 3 \in Nat
    BY <1>3, <1>7, <1>13
  <2>2. cmderr = 1 /\ (Quiet => Unreadable(k - 1))
    BY <1>3, <1>5, <1>13
  <2> HIDE DEF k
  <2>3. StepTaken(Tries(n + 3)[k])
    BY <1>2, <1>6, <2>1
  <2>4. /\ Effect("mount as", world).files = world.files
        /\ <<"device", "target">> \in Effect("mount as", world).mounts
    BY <1>3 DEF Effect, Fields
  <2>5. \/ step' = 0 /\ cmderr' = 0 /\ world'.files = {} /\ Mounted'
        \/ /\ step' = TryFrom(n + 3, k + 1) /\ cmderr' = 1 /\ world'.files = {}
           /\ Quiet' => Quiet /\ Filesystems[k] \notin Readable(image)
    BY <1>3, <2>1, <2>2, <2>3, <2>4, TryTaken, DeniedKept DEF Mounted
  <2>6. TryFrom(n + 3, k + 1) = IF k < L THEN n + 4 + k ELSE 0
    BY <1>3, <2>1, FilesystemsAssumption, LenProperties DEF TryFrom, End
  <2>7. ASSUME Quiet => Unreadable(k - 1), Quiet, Filesystems[k] \notin Readable(image)
        PROVE  Unreadable(k)
    <3>1. \A j \in 1 .. k : j \in 1 .. k - 1 \/ j = k
      BY <2>1
    <3> QED  BY <2>7, <3>1 DEF Unreadable
  <2>8. CASE step' = 0 /\ cmderr' = 0 /\ Mounted'
    BY <1>3, <2>5, <2>8 DEF AutoAt
  <2>9. CASE /\ step' = TryFrom(n + 3, k + 1) /\ cmderr' = 1
             /\ Quiet' => Unreadable(k)
    <3>1. CASE k < L
      BY <1>3, <1>4, <2>1, <2>5, <2>6, <2>9, <3>1 DEF AutoAt
    <3>2. CASE k = L
      BY <1>3, <1>4, <2>1, <2>5, <2>6, <2>9, <3>2 DEF AutoAt
    <3> QED  BY <1>3, <2>1, <3>1, <3>2
  <2> QED  BY <2>2, <2>5, <2>7, <2>8, <2>9
<1> QED  BY <1>3, <1>7, <1>8, <1>9, <1>10, <1>11, <1>12, <1>13

LEMMA AutoIsKept ==
  MountsTyped /\ AutoInv /\ NoFiles /\ cmd \in Autos /\ MountsNext => AutoInv' /\ NoFiles'
<1>1. SUFFICES ASSUME MountsTyped, AutoInv, NoFiles, cmd \in Autos, MountsNext
               PROVE  AutoInv' /\ NoFiles'
  OBVIOUS
<1>2. cmd' = cmd
  BY <1>1, StepIsTaken
<1>3. CASE cmd = "mt auto"
  BY <1>1, <1>2, <1>3, AutoAtKept, AutoTables DEF AutoInv
<1>4. CASE cmd = "mt node auto"
  BY <1>1, <1>2, <1>4, AutoAtKept, AutoTables DEF AutoInv
<1> QED  BY <1>1, <1>3, <1>4 DEF Autos


(***************************************************************************)
(* What every command keeps: its own invariant, and those of the others,   *)
(* which say nothing of it.                                                *)
(***************************************************************************)
CommandInv ==
  /\ SingleInv
  /\ NoFiles
  /\ LoInv
  /\ LoFiles
  /\ MvInv
  /\ SwInv
  /\ PrInv
  /\ ConsoleInv
  /\ MtNodeInv
  /\ MpInv
  /\ MpFiles
  /\ KxInv
  /\ KxFiles
  /\ AutoInv
MountsInv == MountsTyped /\ CommandInv

\* Nothing is done yet.
LEMMA MountsStarts == MountsInit => MountsInv
<1>1. SUFFICES ASSUME MountsInit
               PROVE  MountsInv
  OBVIOUS
<1>2. /\ cmd \in Cmds /\ step = 1 /\ cmderr = 0 /\ world = World /\ Len(Filesystems) \in Nat
      /\ denied = {}
  BY <1>1, FilesystemsAssumption, LenProperties DEF MountsInit
<1>3. MountsTyped
  BY <1>2, WorldTyped DEF MountsTyped
<1>4. /\ world.files = {} /\ world.loop = "free"
      /\ OldThere /\ ~Stopped /\ world.console = "old"
  BY <1>2 DEF World, OldThere, Stopped
<1>5. SingleInv /\ NoFiles /\ LoInv /\ MvInv /\ SwInv /\ PrInv /\ MtNodeInv /\ MpInv /\ KxInv
  BY <1>2, <1>4
     DEF SingleInv, NoFiles, LoInv, MvInv, SwInv, PrInv, MtNodeInv, MpInv, KxInv
<1>6. LoFiles /\ MpFiles /\ KxFiles /\ ConsoleInv
  BY <1>2, <1>4 DEF LoFiles, MpFiles, KxFiles, ConsoleInv
<1>7. AutoInv
  <2>1. ASSUME NEW n \in {0, 1}
        PROVE  AutoAt(n)
    <3>1. 1 \in 0 .. n + 3 + Len(Filesystems) /\ 1 \in 1 .. n + 2
      BY <1>2, <2>1
    <3> QED  BY <1>2, <3>1, Zenon DEF AutoAt
  <2> QED  BY <2>1 DEF AutoInv
<1> QED  BY <1>3, <1>5, <1>6, <1>7 DEF MountsInv, CommandInv

LEMMA Elsewhere ==
  /\ cmd' \notin Singles => SingleInv'
  /\ cmd' \in {"lo", "mp", "kx", "kx initrd"} => NoFiles'
  /\ cmd' # "lo" => LoInv' /\ LoFiles'
  /\ cmd' # "mv" => MvInv'
  /\ cmd' # "sw" => SwInv'
  /\ cmd' # "pr" => PrInv'
  /\ cmd' \notin {"sw", "pr"} => ConsoleInv'
  /\ cmd' # "mt node" => MtNodeInv'
  /\ cmd' # "mp" => MpInv' /\ MpFiles'
  /\ cmd' \notin {"kx", "kx initrd"} => KxInv' /\ KxFiles'
  /\ cmd' \notin Autos => AutoInv'
BY DEF SingleInv, IsSingle, NoFiles, LoInv, LoFiles, MvInv, SwInv, PrInv, MtNodeInv, MpInv, MpFiles,
       KxInv, KxFiles, IsKx, AutoInv, Autos, ConsoleInv

LEMMA MountsKept == MountsInv /\ MountsNext => MountsInv'
<1>1. SUFFICES ASSUME MountsInv, MountsNext
               PROVE  MountsInv'
  OBVIOUS
<1>2. cmd' = cmd /\ cmd \in Cmds
  BY <1>1, StepIsTaken DEF MountsInv, MountsTyped
<1>3. MountsTyped /\ MountsTyped'
  BY <1>1, MountsTypedKept DEF MountsInv
<1>4. CASE IsSingle
  <2>1. SingleInv' /\ NoFiles'
    BY <1>1, <1>3, <1>4, SingleIsKept DEF MountsInv, CommandInv
  <2> QED  BY <1>2, <1>3, <1>4, <2>1, Elsewhere
           DEF MountsInv, CommandInv, IsSingle, Singles, IsKx, Autos
<1>5. CASE cmd \in Autos
  <2>1. AutoInv' /\ NoFiles'
    BY <1>1, <1>3, <1>5, AutoIsKept DEF MountsInv, CommandInv
  <2> QED  BY <1>2, <1>3, <1>5, <2>1, Elsewhere
           DEF MountsInv, CommandInv, IsSingle, Singles, IsKx, Autos
<1>6. CASE cmd = "mt node"
  <2>1. MtNodeInv' /\ NoFiles'
    BY <1>1, <1>3, <1>6, MtNodeIsKept DEF MountsInv, CommandInv
  <2> QED  BY <1>2, <1>3, <1>6, <2>1, Elsewhere
           DEF MountsInv, CommandInv, IsSingle, Singles, IsKx, Autos
<1>7. CASE cmd = "mv"
  <2>1. MvInv' /\ NoFiles'
    BY <1>1, <1>3, <1>7, MvIsKept DEF MountsInv, CommandInv
  <2> QED  BY <1>2, <1>3, <1>7, <2>1, Elsewhere
           DEF MountsInv, CommandInv, IsSingle, Singles, IsKx, Autos
<1>8. CASE cmd = "sw"
  <2>1. SwInv' /\ NoFiles' /\ ConsoleInv'
    BY <1>1, <1>3, <1>8, SwIsKept, ConsoleIsKept DEF MountsInv, CommandInv
  <2> QED  BY <1>2, <1>3, <1>8, <2>1, Elsewhere
           DEF MountsInv, CommandInv, IsSingle, Singles, IsKx, Autos
<1>9. CASE cmd = "pr"
  <2>1. PrInv' /\ NoFiles' /\ ConsoleInv'
    BY <1>1, <1>3, <1>9, PrIsKept, ConsoleIsKept DEF MountsInv, CommandInv
  <2> QED  BY <1>2, <1>3, <1>9, <2>1, Elsewhere
           DEF MountsInv, CommandInv, IsSingle, Singles, IsKx, Autos
<1>10. CASE cmd = "lo"
  <2>1. LoInv' /\ LoFiles'
    BY <1>1, <1>3, <1>10, LoIsKept DEF MountsInv, CommandInv
  <2> QED  BY <1>2, <1>3, <1>10, <2>1, Elsewhere
           DEF MountsInv, CommandInv, IsSingle, Singles, IsKx, Autos
<1>11. CASE cmd = "mp"
  <2>1. MpInv' /\ MpFiles'
    BY <1>1, <1>3, <1>11, MpIsKept DEF MountsInv, CommandInv
  <2> QED  BY <1>2, <1>3, <1>11, <2>1, Elsewhere
           DEF MountsInv, CommandInv, IsSingle, Singles, IsKx, Autos
<1>12. CASE IsKx
  <2>1. KxInv' /\ KxFiles'
    BY <1>1, <1>3, <1>12, KxIsKept DEF MountsInv, CommandInv
  <2> QED  BY <1>2, <1>3, <1>12, <2>1, Elsewhere
           DEF MountsInv, CommandInv, IsSingle, Singles, IsKx, Autos
<1> QED  BY <1>2, <1>4, <1>5, <1>6, <1>7, <1>8, <1>9, <1>10, <1>11, <1>12
          DEF Cmds, IsSingle, Singles, Autos, IsKx

\* What is said of a command that has ended is what it promises.
LEMMA MountsTells == MountsInv => EffectTells
<1>1. SUFFICES ASSUME MountsInv, step = 0
               PROVE  EffectTells
  BY DEF EffectTells, End
<1>2. cmd \in Cmds /\ cmderr \in {0, 1}
  BY <1>1 DEF MountsInv, MountsTyped
<1>3. Len(Filesystems) \in Nat /\ DOMAIN Filesystems = 1 .. Len(Filesystems)
  BY FilesystemsAssumption, LenProperties
<1>4. ASSUME Unreadable(Len(Filesystems))
      PROVE  Readable(image) \cap {Filesystems[k] : k \in DOMAIN Filesystems} = {}
  BY <1>3, <1>4 DEF Unreadable
<1>5. world.files \subseteq IF cmd = "mp" THEN {"module"} ELSE {}
  <2>1. NoFiles /\ LoFiles /\ MpFiles /\ KxFiles
    BY <1>1 DEF MountsInv, CommandInv
  <2>2. IsKx => world.files = {}
    BY <1>1, <2>1 DEF KxFiles
  <2>3. cmd = "lo" => world.files = {}
    BY <1>1, <2>1 DEF LoFiles
  <2>4. cmd = "mp" => world.files \subseteq {"module"}
    BY <1>1, <2>1 DEF MpFiles
  <2>5. cmd \notin {"lo", "mp", "kx", "kx initrd"} => world.files = {}
    BY <2>1 DEF NoFiles
  <2> QED  BY <2>2, <2>3, <2>4, <2>5 DEF IsKx
<1>6. /\ cmd = "lo" /\ cmderr = 1 => world.loop = "free" \/ Attached
      /\ IsKx /\ Stopped => Loaded
  <2>1. LoInv /\ KxInv
    BY <1>1 DEF MountsInv, CommandInv
  <2> QED  BY <1>1, <2>1 DEF LoInv, KxInv
<1>6a. cmd \in {"sw", "pr"} /\ cmderr = 0 => ConsoleTold
  BY <1>1 DEF MountsInv, CommandInv, ConsoleInv
<1>7. SUFFICES
        /\ cmderr = 0 => Done
        /\ Quiet => \/ cmderr = 0
                    \/ cmd \in Autos /\ Unreadable(Len(Filesystems))
  BY <1>4, <1>5, <1>6, <1>6a
     DEF EffectTells, Quiet, Attached, IsKx, Stopped, Loaded, ConsoleTold
<1>8. CASE IsSingle
  <2>1. SingleInv
    BY <1>1 DEF MountsInv, CommandInv
  <2> QED  BY <1>1, <1>2, <1>8, <2>1 DEF SingleInv
<1>9. CASE cmd \in Autos
  <2>1. Mounted => Done
    BY <1>9 DEF Done, Autos, Mounted
  <2>2. ASSUME NEW n \in {0, 1}, AutoAt(n)
        PROVE  (cmderr = 0 => Mounted) /\ (Quiet => cmderr = 0 \/ Unreadable(Len(Filesystems)))
    <3>1. step \notin 1 .. n + 2 /\ step # n + 3 /\ ~(step > n + 3) /\ 0 # 1
      BY <1>1, <2>2
    <3> QED  BY <2>2, <3>1, Zenon DEF AutoAt
  <2>3. \E n \in {0, 1} : AutoAt(n)
    BY <1>1, <1>9 DEF MountsInv, CommandInv, AutoInv, Autos
  <2> QED  BY <1>9, <2>1, <2>2, <2>3
<1>10. CASE cmd = "mt node"
  <2>1. MtNodeInv
    BY <1>1 DEF MountsInv, CommandInv
  <2>2. Mounted => Done
    BY <1>10 DEF Done, Autos, Mounted
  <2>3. step \notin {1, 2} /\ 0 # 1
    BY <1>1
  <2>4. (cmderr = 0 => Mounted) /\ (Quiet => cmderr = 0)
    BY <1>10, <2>1, <2>3, Zenon DEF MtNodeInv
  <2> QED  BY <2>2, <2>4
<1>11. CASE cmd = "mv"
  <2>1. MvInv
    BY <1>1 DEF MountsInv, CommandInv
  <2> QED  BY <1>1, <1>2, <1>11, <2>1 DEF MvInv, Done, Autos, OldThere, NewThere
<1>12. CASE cmd = "sw"
  <2>1. SwInv
    BY <1>1 DEF MountsInv, CommandInv
  <2>2. RootNew /\ CwdNew => Done
    BY <1>12 DEF Done, Autos, RootNew, CwdNew
  <2> QED  BY <1>1, <1>2, <1>12, <2>1, <2>2 DEF SwInv
<1>13. CASE cmd = "pr"
  <2>1. PrInv
    BY <1>1 DEF MountsInv, CommandInv
  <2>2. RootNew /\ CwdNew => Done
    BY <1>13 DEF Done, Autos, RootNew, CwdNew
  <2> QED  BY <1>1, <1>2, <1>13, <2>1, <2>2 DEF PrInv
<1>14. CASE cmd = "lo"
  <2>1. LoInv
    BY <1>1 DEF MountsInv, CommandInv
  <2> QED  BY <1>1, <1>2, <1>14, <2>1 DEF LoInv, Done, Autos
<1>15. CASE cmd = "mp"
  <2>1. MpInv
    BY <1>1 DEF MountsInv, CommandInv
  <2> QED  BY <1>1, <1>2, <1>15, <2>1 DEF MpInv, Done, Autos
<1>16. CASE IsKx
  <2>1. KxInv
    BY <1>1 DEF MountsInv, CommandInv
  <2>2. Stopped => Done
    BY <1>16 DEF Done, Autos, IsKx, Stopped
  <2> QED  BY <1>1, <1>2, <1>16, <2>1, <2>2 DEF KxInv
<1> QED  BY <1>2, <1>8, <1>9, <1>10, <1>11, <1>12, <1>13, <1>14, <1>15, <1>16
          DEF Cmds, IsSingle, Singles, Autos, IsKx

(* A command that ends without an error has done what it promises, one to  *)
(* which nothing was denied but to read a type ends without an error, and  *)
(* one that failed leaves nothing half done, whatever the device holds or  *)
(* is taken to hold, whatever types the kernel knows and whoever has the   *)
(* console.                                                                *)
THEOREM EffectIsTold == MountsSpec => []EffectTells
<1>1. MountsInit => MountsInv
  BY MountsStarts
<1>2. MountsInv /\ [MountsNext]_mvars => MountsInv'
  <2>1. ASSUME MountsInv, UNCHANGED mvars
        PROVE  MountsInv'
    <3>1. /\ cmd' = cmd /\ image' = image /\ step' = step
          /\ cmderr' = cmderr /\ world' = world /\ denied' = denied
          /\ piped' = piped
      BY <2>1 DEF mvars
    <3>2. MountsTyped'
      BY <2>1, <3>1 DEF MountsInv, MountsTyped
    <3>3. SingleInv' /\ NoFiles'
      BY <2>1, <3>1 DEF MountsInv, CommandInv, SingleInv, NoFiles, IsSingle, Done, Quiet
    <3>4. LoInv' /\ LoFiles' /\ MpInv' /\ MpFiles'
      BY <2>1, <3>1 DEF MountsInv, CommandInv, LoInv, LoFiles, MpInv, MpFiles, Quiet, Attached
    <3>5. MvInv' /\ SwInv' /\ PrInv' /\ MtNodeInv'
      BY <2>1, <3>1 DEF MountsInv, CommandInv, MvInv, SwInv, PrInv, MtNodeInv, Quiet,
                        OldThere, NewThere, Mounted, RootNew, CwdNew
    <3>6. KxInv' /\ KxFiles'
      BY <2>1, <3>1 DEF MountsInv, CommandInv, KxInv, KxFiles, IsKx, Quiet, Stopped, Loaded
    <3>7. AutoInv'
      BY <2>1, <3>1 DEF MountsInv, CommandInv, AutoInv, AutoAt, Quiet, Mounted, Unreadable,
                        Readable
    <3>8. ConsoleInv'
      BY <2>1, <3>1 DEF MountsInv, CommandInv, ConsoleInv, ConsoleTold
    <3> QED  BY <3>2, <3>3, <3>4, <3>5, <3>6, <3>7, <3>8 DEF MountsInv, CommandInv
  <2> QED  BY <2>1, MountsKept
<1>3. MountsInv => EffectTells
  BY MountsTells
<1> QED  BY <1>1, <1>2, <1>3, PTL DEF MountsSpec

-----------------------------------------------------------------------------
(* se and fp on the environment (EnvStore).                                *)

FpSet == ToSet(FpNames)
Var == [name : Names \cup FpSet, size : Nat, at : Nat]
Named(env) == {env[i].name : i \in DOMAIN env}

(* A name of S is that of one variable at most.                            *)
Once(env, S) ==
  \A i, j \in DOMAIN env : env[i].name = env[j].name /\ env[i].name \in S => i = j

(* Each text ends before all that follow begin, and within the room.       *)
Apart(env, room) ==
  /\ \A i \in DOMAIN env : env[i].at + env[i].size <= room
  /\ \A i, j \in DOMAIN env : i < j => env[i].at + env[i].size <= env[j].at

(* The variables of se are never double; those of fp are once it has       *)
(* written in place, and nothing is known of the texts then.               *)
EnvInv ==
  /\ envp \in Seq(Var) /\ block \in Nat /\ slots \in Nat /\ reused \in BOOLEAN
  /\ Entries(envp) <= slots
  /\ Once(envp, Names)
  /\ Named(envp) \subseteq expected
  /\ FpSet \cap expected # {} => FpSet \subseteq Named(envp)
  /\ ~reused => /\ Once(envp, Names \cup FpSet)
                /\ Named(envp) = expected
                /\ Apart(envp, block)

LEMMA FpSetIs ==
  /\ FpSet = {"chosen_part", "chosen_type", "second_part", "second_type"}
  /\ FpSet \cap Names = {}
<1>1. DOMAIN FpNames = {1, 2, 3, 4}
  BY DEF FpNames
<1>2. ToSet(FpNames) = {FpNames[1], FpNames[2], FpNames[3], FpNames[4]}
  BY <1>1 DEF ToSet
<1> QED
  BY <1>2, NamesAssumption DEF FpSet, FpNames

(* A property of 0 that goes from each number to the next is of all up to n.*)
LEMMA CountUp ==
  ASSUME NEW n \in Nat, NEW T, 0 \in T,
         \A i \in 1 .. n : i - 1 \in T => i \in T
  PROVE  0 .. n \subseteq T
<1> SUFFICES ASSUME (0 .. n) \ T # {} PROVE FALSE
  OBVIOUS
<1>1. PICK i \in (0 .. n) \ T : \A m \in (0 .. n) \ T : i <= m
  <2> (0 .. n) \ T \in SUBSET Nat
    OBVIOUS
  <2> QED
    BY LeastNat
<1>2. i # 0 /\ i \in 1 .. n /\ i - 1 \in 0 .. n /\ ~(i <= i - 1)
  BY <1>1
<1> QED
  BY <1>1, <1>2

Texts(env) == Len(env) \in Nat /\ \A i \in 1 .. Len(env) : env[i].size \in Nat

(* There is a function that adds up the sizes of texts.                    *)
LEMMA SumsExist ==
  ASSUME NEW env, Texts(env)
  PROVE  \E f \in [0 .. Len(env) -> Nat] :
           f[0] = 0 /\ \A i \in 1 .. Len(env) : f[i] = f[i - 1] + env[i].size
<1> DEFINE n == Len(env)
           Sums(f, k) == f[0] = 0 /\ \A i \in 1 .. k : f[i] = f[i - 1] + env[i].size
           T == {k \in 0 .. n : \E f \in [0 .. n -> Nat] : Sums(f, k)}
<1>1. n \in Nat /\ \A i \in 1 .. n : env[i].size \in Nat
  BY DEF Texts
<1>2. 0 \in T
  <2>1. [i \in 0 .. n |-> 0] \in [0 .. n -> Nat] /\ 0 \in 0 .. n
    BY <1>1
  <2>2. Sums([i \in 0 .. n |-> 0], 0)
    BY <1>1
  <2> QED
    BY <2>1, <2>2
<1>3. ASSUME NEW k \in 1 .. n, k - 1 \in T
      PROVE  k \in T
  <2>1. PICK f \in [0 .. n -> Nat] : Sums(f, k - 1)
    BY <1>3
  <2> DEFINE g == [f EXCEPT ![k] = f[k - 1] + env[k].size]
  <2>2. k - 1 \in 0 .. n /\ k \in 0 .. n
    BY <1>1
  <2>3. f[k - 1] + env[k].size \in Nat
    <3> f[k - 1] \in Nat /\ env[k].size \in Nat
      BY <1>1, <2>2
    <3> QED
      OBVIOUS
  <2>4. g \in [0 .. n -> Nat]
    BY <2>3
  <2>5. g[k] = f[k - 1] + env[k].size /\ \A i \in 0 .. n : i # k => g[i] = f[i]
    BY <2>2
  <2> HIDE DEF g
  <2>6. Sums(g, k)
    <3>1. g[0] = 0
      BY <1>1, <2>1, <2>5
    <3>2. ASSUME NEW i \in 1 .. k PROVE g[i] = g[i - 1] + env[i].size
      <4>1. CASE i = k
        <5> i - 1 # k /\ i - 1 \in 0 .. n
          BY <1>1, <4>1
        <5> QED
          BY <2>5, <4>1
      <4>2. CASE i # k
        <5> i \in 1 .. k - 1 /\ i \in 0 .. n /\ i - 1 \in 0 .. n /\ i - 1 # k
          BY <1>1, <4>2
        <5> QED
          BY <2>1, <2>5, <4>2
      <4> QED
        BY <4>1, <4>2
    <3> QED
      BY <3>1, <3>2
  <2> QED
    BY <2>2, <2>4, <2>6
<1>4. n \in T
  <2> HIDE DEF T
  <2> n \in 0 .. n
    BY <1>1
  <2> QED
    BY <1>1, <1>2, <1>3, CountUp
<1> QED
  BY <1>4

LEMMA OffsetsAre ==
  ASSUME NEW env, Texts(env)
  PROVE  /\ Offsets(env) \in [0 .. Len(env) -> Nat]
         /\ Offsets(env)[0] = 0
         /\ \A i \in 1 .. Len(env) : Offsets(env)[i] = Offsets(env)[i - 1] + env[i].size
<1> DEFINE n == Len(env)
           Rule(f) == f = [i \in 0 .. n |-> IF i = 0 THEN 0 ELSE f[i - 1] + env[i].size]
<1>1. n \in Nat
  BY DEF Texts
<1>2. PICK f \in [0 .. n -> Nat] : f[0] = 0 /\ \A i \in 1 .. n : f[i] = f[i - 1] + env[i].size
  BY SumsExist
<1>3. Rule(f)
  <2>1. \A i \in 0 .. n : i # 0 => i \in 1 .. n
    BY <1>1
  <2>2. \A i \in 0 .. n : f[i] = IF i = 0 THEN 0 ELSE f[i - 1] + env[i].size
    BY <1>2, <2>1
  <2>3. f = [i \in 0 .. n |-> f[i]]
    OBVIOUS
  <2> QED
    BY <2>2, <2>3
<1>4. Offsets(env) = CHOOSE g : Rule(g)
  BY DEF Offsets
<1>5. Rule(Offsets(env))
  BY <1>3, <1>4
<1> DEFINE g == Offsets(env)
<1>6. /\ DOMAIN g = 0 .. n
      /\ \A i \in 0 .. n : g[i] = IF i = 0 THEN 0 ELSE g[i - 1] + env[i].size
  <2> HIDE DEF g
  <2>1. g = [i \in 0 .. n |-> IF i = 0 THEN 0 ELSE g[i - 1] + env[i].size]
    BY <1>5 DEF g
  <2> QED
    BY <2>1
<1> HIDE DEF g
<1>7. g[0] = 0 /\ \A i \in 1 .. n : g[i] = g[i - 1] + env[i].size
  <2> 0 \in 0 .. n /\ \A i \in 1 .. n : i \in 0 .. n /\ i # 0
    BY <1>1
  <2> QED
    BY <1>6
<1>8. g \in [0 .. n -> Nat]
  <2> DEFINE T == {i \in 0 .. n : g[i] \in Nat}
  <2>1. 0 \in T
    BY <1>1, <1>7
  <2>2. ASSUME NEW i \in 1 .. n, i - 1 \in T PROVE i \in T
    <3> g[i] = g[i - 1] + env[i].size /\ env[i].size \in Nat /\ i \in 0 .. n
      BY <1>1, <1>7 DEF Texts
    <3> QED
      BY <2>2
  <2>3. 0 .. n \subseteq T
    <3> HIDE DEF T
    <3> QED
      BY <1>1, <2>1, <2>2, CountUp
  <2>4. \A i \in 0 .. n : g[i] \in Nat
    BY <2>3
  <2>5. g = [i \in 0 .. n |-> g[i]]
    BY <1>6
  <2> QED
    BY <2>4, <2>5
<1> QED
  BY <1>7, <1>8 DEF g

(* Texts that come later do not change where the earlier ones end; each    *)
(* text ends before the later ones.                                        *)
LEMMA OffsetsAgree ==
  ASSUME NEW env, NEW more, Texts(env), Texts(more), Len(env) <= Len(more),
         \A i \in 1 .. Len(env) : more[i].size = env[i].size
  PROVE  \A i \in 0 .. Len(env) : Offsets(more)[i] = Offsets(env)[i]
<1> DEFINE n == Len(env)
           T == {i \in 0 .. n : Offsets(more)[i] = Offsets(env)[i]}
<1>1. n \in Nat /\ Len(more) \in Nat
  BY DEF Texts
<1>2. 0 \in T
  BY <1>1, OffsetsAre
<1>3. ASSUME NEW i \in 1 .. n, i - 1 \in T PROVE i \in T
  <2>1. i \in 1 .. Len(more) /\ i \in 0 .. n
    BY <1>1
  <2>2. Offsets(more)[i] = Offsets(more)[i - 1] + more[i].size
    BY <2>1, OffsetsAre
  <2>3. Offsets(env)[i] = Offsets(env)[i - 1] + env[i].size
    BY OffsetsAre
  <2> QED
    BY <1>3, <2>1, <2>2, <2>3
<1>4. 0 .. n \subseteq T
  <2> HIDE DEF T
  <2> QED
    BY <1>1, <1>2, <1>3, CountUp
<1> QED
  BY <1>4

LEMMA OffsetsGrow ==
  ASSUME NEW env, Texts(env), NEW i \in 0 .. Len(env), NEW j \in 0 .. Len(env), i <= j
  PROVE  Offsets(env)[i] <= Offsets(env)[j]
<1> DEFINE n == Len(env)
           f == Offsets(env)
           T == {k \in 0 .. n : i <= k => f[i] <= f[k]}
<1>1. n \in Nat /\ f \in [0 .. n -> Nat]
  BY OffsetsAre DEF Texts
<1>2. \A k \in 1 .. n : f[k] = f[k - 1] + env[k].size
  BY OffsetsAre
<1>3. \A k \in 1 .. n : env[k].size \in Nat
  BY DEF Texts
<1> HIDE DEF f
<1>4. 0 \in T
  <2> i <= 0 => i = 0
    BY <1>1
  <2> f[0] \in Nat /\ 0 \in 0 .. n
    BY <1>1
  <2> QED
    OBVIOUS
<1>5. ASSUME NEW k \in 1 .. n, k - 1 \in T PROVE k \in T
  <2>1. k \in 0 .. n /\ k - 1 \in 0 .. n
    BY <1>1
  <2>2. f[i] \in Nat /\ f[k] \in Nat /\ f[k - 1] \in Nat
    BY <1>1, <2>1
  <2>3. f[k] = f[k - 1] + env[k].size /\ env[k].size \in Nat
    BY <1>2, <1>3
  <2>4. i <= k - 1 => f[i] <= f[k - 1]
    BY <1>5
  <2>5. i <= k => i = k \/ i <= k - 1
    BY <1>1
  <2> QED
    BY <2>1, <2>2, <2>3, <2>4, <2>5
<1>6. 0 .. n \subseteq T
  <2> HIDE DEF T
  <2> QED
    BY <1>1, <1>4, <1>5, CountUp
<1> QED
  BY <1>6 DEF f

(* What se and fp hand to Place: names and sizes.                          *)
Given == Var \cup [name : Names \cup FpSet, size : Nat]

LEMMA VariablesAre ==
  ASSUME NEW env \in Seq(Given)
  PROVE  /\ Len(env) \in Nat /\ DOMAIN env = 1 .. Len(env)
         /\ \A i \in 1 .. Len(env) : env[i].name \in Names \cup FpSet /\ env[i].size \in Nat
<1>1. \A i \in 1 .. Len(env) : env[i] \in Given
  OBVIOUS
<1>2. \A v \in Given : v.name \in Names \cup FpSet /\ v.size \in Nat
  BY DEF Given, Var
<1> QED
  BY <1>1, <1>2

LEMMA PlaceIs ==
  ASSUME NEW env \in Seq(Given), NEW from \in Nat
  PROVE  /\ Place(env, from) \in Seq(Var)
         /\ Len(Place(env, from)) = Len(env)
         /\ Named(Place(env, from)) = Named(env)
         /\ \A S : Once(env, S) => Once(Place(env, from), S)
         /\ Apart(Place(env, from), from + Bytes(env))
<1> DEFINE n == Len(env)
           P == Place(env, from)
           f == Offsets(env)
<1>1. Texts(env) /\ n \in Nat /\ DOMAIN env = 1 .. n
  BY VariablesAre DEF Texts
<1>2. f \in [0 .. n -> Nat] /\ \A i \in 1 .. n : f[i] = f[i - 1] + env[i].size
  BY <1>1, OffsetsAre
<1>3. \A i, j \in 0 .. n : i <= j => f[i] <= f[j]
  BY <1>1, OffsetsGrow
<1>4. P = [i \in 1 .. n |-> [name |-> env[i].name, size |-> env[i].size, at |-> from + f[i - 1]]]
  BY <1>1 DEF Place
<1>5. \A i \in 1 .. n : i - 1 \in 0 .. n /\ i \in 0 .. n
  BY <1>1
<1>6. \A i \in 1 .. n : f[i] \in Nat /\ f[i - 1] \in Nat
  BY <1>2, <1>5
<1> HIDE DEF f
<1>7. \A i \in 1 .. n : from + f[i - 1] \in Nat /\ env[i].size \in Nat /\ env[i].name \in Names \cup FpSet
  BY <1>6, VariablesAre
<1>8. P \in Seq(Var)
  <2>1. \A i \in 1 .. n :
          [name |-> env[i].name, size |-> env[i].size, at |-> from + f[i - 1]] \in Var
    BY <1>7 DEF Var
  <2>2. P \in [1 .. n -> Var]
    BY <1>4, <2>1
  <2> QED
    BY <1>1, <2>2
<1>9. Len(P) = n /\ DOMAIN P = 1 .. n
  BY <1>1, <1>4
<1>10. \A i \in 1 .. n : P[i].name = env[i].name /\ P[i].size = env[i].size
                         /\ P[i].at = from + f[i - 1]
  BY <1>4
<1> HIDE DEF P
<1>11. Named(P) = Named(env)
  BY <1>1, <1>9, <1>10 DEF Named
<1>12. \A S : Once(env, S) => Once(P, S)
  BY <1>1, <1>9, <1>10 DEF Once
<1>13. \A i \in 1 .. n : P[i].at + P[i].size = from + f[i]
  <2> TAKE i \in 1 .. n
  <2>1. f[i] = f[i - 1] + env[i].size
    BY <1>2 DEF f
  <2>2. f[i - 1] \in Nat /\ env[i].size \in Nat
    BY <1>6, <1>7
  <2>3. P[i].at = from + f[i - 1] /\ P[i].size = env[i].size
    BY <1>10
  <2> QED
    BY <2>1, <2>2, <2>3
<1>14. \A i \in 1 .. n : from + f[i] <= from + f[n]
  <2> TAKE i \in 1 .. n
  <2>1. f[i] <= f[n] /\ f[n] \in Nat
    BY <1>1, <1>2, <1>3, <1>5 DEF f
  <2> QED
    BY <1>6, <2>1
<1>15. \A i, j \in 1 .. n : i < j => from + f[i] <= from + f[j - 1]
  <2> SUFFICES ASSUME NEW i \in 1 .. n, NEW j \in 1 .. n, i < j
               PROVE  from + f[i] <= from + f[j - 1]
    OBVIOUS
  <2>1. i <= j - 1
    BY <1>1
  <2>2. f[i] <= f[j - 1]
    BY <1>3, <1>5, <2>1 DEF f
  <2> QED
    BY <1>6, <2>2
<1>16. Apart(P, from + f[n])
  BY <1>9, <1>10, <1>13, <1>14, <1>15 DEF Apart
<1> QED
  BY <1>8, <1>9, <1>11, <1>12, <1>16 DEF P, f, Bytes

(* What is left of variables when some of them go, in the same order.      *)
Remains(s, env) ==
  /\ s \in Seq(Var)
  /\ \E f \in [1 .. Len(s) -> 1 .. Len(env)] :
       /\ \A i \in 1 .. Len(s) : s[i] = env[f[i]]
       /\ \A i, j \in 1 .. Len(s) : i < j => f[i] < f[j]

LEMMA RemainsItself == ASSUME NEW env \in Seq(Var) PROVE Remains(env, env)
<1> DEFINE f == [i \in 1 .. Len(env) |-> i]
<1>1. f \in [1 .. Len(env) -> 1 .. Len(env)]
  OBVIOUS
<1>2. /\ \A i \in 1 .. Len(env) : env[i] = env[f[i]]
      /\ \A i, j \in 1 .. Len(env) : i < j => f[i] < f[j]
  OBVIOUS
<1> HIDE DEF f
<1> QED
  BY <1>1, <1>2 DEF Remains

LEMMA RemainsOfRemains ==
  ASSUME NEW r, NEW s, NEW env, Remains(r, s), Remains(s, env)
  PROVE  Remains(r, env)
<1>1. PICK f \in [1 .. Len(r) -> 1 .. Len(s)] :
        /\ \A i \in 1 .. Len(r) : r[i] = s[f[i]]
        /\ \A i, j \in 1 .. Len(r) : i < j => f[i] < f[j]
  BY DEF Remains
<1>2. PICK g \in [1 .. Len(s) -> 1 .. Len(env)] :
        /\ \A i \in 1 .. Len(s) : s[i] = env[g[i]]
        /\ \A i, j \in 1 .. Len(s) : i < j => g[i] < g[j]
  BY DEF Remains
<1> DEFINE h == [i \in 1 .. Len(r) |-> g[f[i]]]
<1>3. h \in [1 .. Len(r) -> 1 .. Len(env)]
  OBVIOUS
<1>4. /\ \A i \in 1 .. Len(r) : r[i] = env[h[i]]
      /\ \A i, j \in 1 .. Len(r) : i < j => h[i] < h[j]
  BY <1>1, <1>2
<1> HIDE DEF h
<1> QED
  BY <1>3, <1>4 DEF Remains

LEMMA RemainsKeep ==
  ASSUME NEW env \in Seq(Var), NEW s, Remains(s, env)
  PROVE  /\ Named(s) \subseteq Named(env)
         /\ \A S : Once(env, S) => Once(s, S)
         /\ \A room : Apart(env, room) => Apart(s, room)
<1>1. PICK f \in [1 .. Len(s) -> 1 .. Len(env)] :
        /\ \A i \in 1 .. Len(s) : s[i] = env[f[i]]
        /\ \A i, j \in 1 .. Len(s) : i < j => f[i] < f[j]
  BY DEF Remains
<1>2. DOMAIN s = 1 .. Len(s) /\ DOMAIN env = 1 .. Len(env) /\ Len(s) \in Nat /\ Len(env) \in Nat
  BY DEF Remains
<1>3. \A i, j \in 1 .. Len(s) : f[i] = f[j] => i = j
  <2> SUFFICES ASSUME NEW i \in 1 .. Len(s), NEW j \in 1 .. Len(s), f[i] = f[j], i # j
               PROVE  FALSE
    OBVIOUS
  <2>1. i < j \/ j < i
    BY <1>2
  <2>2. f[i] \in 1 .. Len(env) /\ f[j] \in 1 .. Len(env)
    OBVIOUS
  <2>3. f[i] < f[j] \/ f[j] < f[i]
    BY <1>1, <2>1
  <2> QED
    BY <2>2, <2>3, <1>2
<1>4. Named(s) \subseteq Named(env)
  BY <1>1, <1>2 DEF Named
<1>5. ASSUME NEW S, Once(env, S) PROVE Once(s, S)
  BY <1>1, <1>2, <1>3, <1>5 DEF Once
<1>6. ASSUME NEW room, Apart(env, room) PROVE Apart(s, room)
  BY <1>1, <1>2, <1>6 DEF Apart
<1> QED
  BY <1>4, <1>5, <1>6

(* What my_getenv leaves: the other variables, and with them those of      *)
(* other names; nothing of the name if it was there once.                  *)
LEMMA WithoutIs ==
  ASSUME NEW env \in Seq(Var), NEW name
  PROVE  /\ Remains(Without(env, name), env)
         /\ Len(Without(env, name)) <= Len(env)
         /\ Named(env) \ {name} \subseteq Named(Without(env, name))
         /\ Once(env, {name}) => name \notin Named(Without(env, name))
<1> DEFINE n == Len(env)
           found == {i \in DOMAIN env : env[i].name = name}
<1>1. n \in Nat /\ DOMAIN env = 1 .. n
  OBVIOUS
<1>2. CASE found = {}
  <2>1. Without(env, name) = env
    BY <1>2 DEF Without
  <2>2. name \notin Named(env)
    BY <1>2 DEF Named
  <2> QED
    BY <1>1, <2>1, <2>2, RemainsItself
<1>3. CASE found # {}
  <2> DEFINE k == CHOOSE i \in found : \A j \in found : j <= i
             s == RemoveAt(env, k)
  <2>1. \E i \in found : \A j \in found : j <= i
    <3> DEFINE back == {n - i : i \in found}
    <3>1. found \subseteq 1 .. n
      BY <1>1
    <3>2. back \in SUBSET Nat /\ back # {}
      BY <1>1, <1>3, <3>1
    <3>3. PICK m \in back : \A b \in back : m <= b
      BY <3>2, LeastNat
    <3>4. PICK i \in found : m = n - i
      BY <3>3
    <3>5. ASSUME NEW j \in found PROVE j <= i
      <4>1. n - i <= n - j
        BY <3>3, <3>4
      <4> QED
        BY <1>1, <3>1, <4>1
    <3> QED
      BY <3>5
  <2>2. k \in 1 .. n /\ env[k].name = name
    <3>1. k \in found
      BY <2>1
    <3> QED
      BY <1>1, <3>1
  <2>3. Without(env, name) = s
    BY <1>3 DEF Without
  <2> HIDE DEF k
  <2>4. s = SubSeq(env, 1, k - 1) \o SubSeq(env, k + 1, n)
    BY DEF RemoveAt
  <2> HIDE DEF s
  <2>5. /\ s \in Seq(Var) /\ Len(s) = n - 1
        /\ \A i \in 1 .. n - 1 : s[i] = env[IF i < k THEN i ELSE i + 1]
    <3> DEFINE a == SubSeq(env, 1, k - 1)
               b == SubSeq(env, k + 1, n)
    <3>1. a \in Seq(Var) /\ Len(a) = k - 1 /\ \A i \in 1 .. k - 1 : a[i] = env[i]
      BY <1>1, <2>2
    <3>2. b \in Seq(Var) /\ Len(b) = n - k /\ \A i \in 1 .. n - k : b[i] = env[k + i]
      <4>1. \A i \in k + 1 .. n : env[i] \in Var
        BY <1>1, <2>2
      <4>2. /\ b \in Seq(Var) /\ Len(b) = IF k + 1 <= n THEN n - (k + 1) + 1 ELSE 0
            /\ \A i \in 1 .. n - (k + 1) + 1 : b[i] = env[k + 1 + i - 1]
        BY <1>1, <2>2, <4>1, SubSeqProperties
      <4> HIDE DEF b
      <4>3. n - (k + 1) + 1 = n - k /\ \A i \in Nat : k + 1 + i - 1 = k + i
        <5> n \in Nat /\ k \in Nat
          BY <1>1, <2>2
        <5> QED
          OBVIOUS
      <4>4. ~(k + 1 <= n) => n - k = 0
        <5> n \in Nat /\ k \in Nat /\ k <= n
          BY <1>1, <2>2
        <5> QED
          OBVIOUS
      <4> QED
        BY <4>2, <4>3, <4>4
    <3>3. s = a \o b
      BY <2>4
    <3> HIDE DEF a, b
    <3>4. /\ s \in Seq(Var) /\ Len(s) = (k - 1) + (n - k)
          /\ \A i \in 1 .. Len(s) : s[i] = IF i <= k - 1 THEN a[i] ELSE b[i - (k - 1)]
      <4>1. /\ a \o b \in Seq(Var) /\ Len(a \o b) = Len(a) + Len(b)
            /\ \A i \in 1 .. Len(a) + Len(b) :
                 (a \o b)[i] = IF i <= Len(a) THEN a[i] ELSE b[i - Len(a)]
        BY <3>1, <3>2, ConcatProperties
      <4> QED
        BY <3>1, <3>2, <3>3, <4>1
    <3>5. (k - 1) + (n - k) = n - 1
      BY <1>1, <2>2
    <3>6. ASSUME NEW i \in 1 .. n - 1 PROVE s[i] = env[IF i < k THEN i ELSE i + 1]
      <4>1. CASE i < k
        <5> i \in 1 .. k - 1 /\ i <= k - 1
          BY <1>1, <2>2, <4>1
        <5> QED
          BY <3>1, <3>4, <3>5, <4>1
      <4>2. CASE ~(i < k)
        <5> i - (k - 1) \in 1 .. n - k /\ ~(i <= k - 1) /\ k + (i - (k - 1)) = i + 1
          BY <1>1, <2>2, <4>2
        <5> QED
          BY <3>2, <3>4, <3>5, <4>2
      <4> QED
        BY <4>1, <4>2
    <3> QED
      BY <3>4, <3>5, <3>6
  <2> DEFINE f == [i \in 1 .. n - 1 |-> IF i < k THEN i ELSE i + 1]
  <2>6. f \in [1 .. n - 1 -> 1 .. n]
    BY <1>1, <2>2
  <2>7. /\ \A i \in 1 .. n - 1 : s[i] = env[f[i]]
        /\ \A i, j \in 1 .. n - 1 : i < j => f[i] < f[j]
    BY <1>1, <2>2, <2>5
  <2>8. \A i \in 1 .. n - 1 : f[i] # k
    BY <1>1, <2>2
  <2>9. \A j \in 1 .. n : j # k => \E i \in 1 .. n - 1 : f[i] = j
    <3> SUFFICES ASSUME NEW j \in 1 .. n, j # k PROVE \E i \in 1 .. n - 1 : f[i] = j
      OBVIOUS
    <3>1. CASE j < k
      <4> j \in 1 .. n - 1 /\ f[j] = j
        BY <1>1, <2>2, <3>1
      <4> QED
        OBVIOUS
    <3>2. CASE j > k
      <4> j - 1 \in 1 .. n - 1 /\ f[j - 1] = j
        BY <1>1, <2>2, <3>2
      <4> QED
        OBVIOUS
    <3> QED
      BY <1>1, <2>2, <3>1, <3>2
  <2> HIDE DEF f
  <2>10. DOMAIN s = 1 .. n - 1
    BY <2>5
  <2>11. Remains(s, env)
    BY <2>5, <2>6, <2>7 DEF Remains
  <2>12. Named(env) \ {name} \subseteq Named(s)
    <3> SUFFICES ASSUME NEW j \in 1 .. n, env[j].name # name
                 PROVE  env[j].name \in Named(s)
      BY <1>1 DEF Named
    <3>1. PICK i \in 1 .. n - 1 : f[i] = j
      BY <2>2, <2>9
    <3> QED
      BY <2>7, <2>10, <3>1 DEF Named
  <2>13. ASSUME Once(env, {name}), name \in Named(s) PROVE FALSE
    <3>1. PICK i \in 1 .. n - 1 : s[i].name = name
      BY <2>10, <2>13 DEF Named
    <3>2. f[i] \in 1 .. n /\ env[f[i]].name = name
      BY <2>6, <2>7, <3>1
    <3>3. f[i] = k
      BY <1>1, <2>2, <2>13, <3>2 DEF Once
    <3> QED
      BY <2>8, <3>3
  <2> QED
    BY <1>1, <2>3, <2>5, <2>11, <2>12, <2>13
<1> QED
  BY <1>2, <1>3

(* Once none of the variables of fp is double, none of them is left.       *)
LEMMA RemoveAllIs ==
  ASSUME NEW env \in Seq(Var)
  PROVE  /\ Remains(RemoveAll(env), env)
         /\ Len(RemoveAll(env)) <= Len(env)
         /\ Named(env) \ FpSet \subseteq Named(RemoveAll(env))
         /\ Once(env, FpSet) => Named(RemoveAll(env)) \cap FpSet = {}
<1> DEFINE a == Without(env, FpNames[1])
           b == Without(a, FpNames[2])
           c == Without(b, FpNames[3])
           d == Without(c, FpNames[4])
<1>1. d = RemoveAll(env)
  BY DEF RemoveAll
<1>2. FpSet = {FpNames[1], FpNames[2], FpNames[3], FpNames[4]}
  BY FpSetIs DEF FpNames
<1>3. /\ Remains(a, env) /\ Len(a) <= Len(env) /\ Named(env) \ {FpNames[1]} \subseteq Named(a)
      /\ Once(env, {FpNames[1]}) => FpNames[1] \notin Named(a)
  BY WithoutIs
<1> HIDE DEF a
<1>4. a \in Seq(Var)
  BY <1>3 DEF Remains
<1>5. /\ Remains(b, a) /\ Len(b) <= Len(a) /\ Named(a) \ {FpNames[2]} \subseteq Named(b)
      /\ Once(a, {FpNames[2]}) => FpNames[2] \notin Named(b)
  BY <1>4, WithoutIs
<1> HIDE DEF b
<1>6. b \in Seq(Var)
  BY <1>5 DEF Remains
<1>7. /\ Remains(c, b) /\ Len(c) <= Len(b) /\ Named(b) \ {FpNames[3]} \subseteq Named(c)
      /\ Once(b, {FpNames[3]}) => FpNames[3] \notin Named(c)
  BY <1>6, WithoutIs
<1> HIDE DEF c
<1>8. c \in Seq(Var)
  BY <1>7 DEF Remains
<1>9. /\ Remains(d, c) /\ Len(d) <= Len(c) /\ Named(c) \ {FpNames[4]} \subseteq Named(d)
      /\ Once(c, {FpNames[4]}) => FpNames[4] \notin Named(d)
  BY <1>8, WithoutIs
<1> HIDE DEF d
<1>10. d \in Seq(Var)
  BY <1>9 DEF Remains
<1>11. Remains(b, env) /\ Remains(c, env) /\ Remains(d, env)
  BY <1>3, <1>5, <1>7, <1>9, RemainsOfRemains
<1>12. Len(d) <= Len(env)
  <2> Len(env) \in Nat /\ Len(a) \in Nat /\ Len(b) \in Nat /\ Len(c) \in Nat /\ Len(d) \in Nat
    BY <1>4, <1>6, <1>8, <1>10
  <2> QED
    BY <1>3, <1>5, <1>7, <1>9
<1>13. Named(env) \ FpSet \subseteq Named(d)
  BY <1>2, <1>3, <1>5, <1>7, <1>9
<1>14. ASSUME Once(env, FpSet) PROVE Named(d) \cap FpSet = {}
  <2>1. Once(env, {FpNames[1]})
    BY <1>2, <1>14 DEF Once
  <2>2. Once(a, {FpNames[2]})
    <3> Once(a, FpSet)
      BY <1>3, <1>14, RemainsKeep
    <3> QED
      BY <1>2 DEF Once
  <2>3. Once(b, {FpNames[3]})
    <3> Once(b, FpSet)
      BY <1>11, <1>14, RemainsKeep
    <3> QED
      BY <1>2 DEF Once
  <2>4. Once(c, {FpNames[4]})
    <3> Once(c, FpSet)
      BY <1>11, <1>14, RemainsKeep
    <3> QED
      BY <1>2 DEF Once
  <2>5. Named(d) \subseteq Named(c) /\ Named(c) \subseteq Named(b) /\ Named(b) \subseteq Named(a)
    BY <1>4, <1>5, <1>6, <1>7, <1>8, <1>9, RemainsKeep
  <2> QED
    BY <1>2, <1>3, <1>5, <1>7, <1>9, <2>1, <2>2, <2>3, <2>4, <2>5
<1> QED
  BY <1>1, <1>11, <1>12, <1>13, <1>14

(* Variables followed by others: their names, and where they end.          *)
LEMMA Longer ==
  ASSUME NEW env \in Seq(Var), NEW more \in Seq(Given)
  PROVE  /\ env \o more \in Seq(Given)
         /\ Len(env \o more) = Len(env) + Len(more)
         /\ \A i \in 1 .. Len(env) : (env \o more)[i] = env[i]
         /\ \A i \in 1 .. Len(more) : (env \o more)[Len(env) + i] = more[i]
         /\ Named(env \o more) = Named(env) \cup Named(more)
<1> DEFINE m == Len(env)
           n == Len(more)
           s == env \o more
<1>1. /\ m \in Nat /\ DOMAIN env = 1 .. m
      /\ \A i \in 1 .. m : env[i].name \in Names \cup FpSet /\ env[i].size \in Nat
  <2> \A i \in 1 .. m : env[i] \in Var
    OBVIOUS
  <2> QED
    BY DEF Var
<1>2. /\ n \in Nat /\ DOMAIN more = 1 .. n
      /\ \A i \in 1 .. n : more[i].name \in Names \cup FpSet /\ more[i].size \in Nat
  BY VariablesAre
<1>3. env \in Seq(Given)
  <2> Var \subseteq Given
    BY DEF Given
  <2> QED
    OBVIOUS
<1>4. /\ s \in Seq(Given) /\ Len(s) = m + n
      /\ \A i \in 1 .. m + n : s[i] = IF i <= m THEN env[i] ELSE more[i - m]
  BY <1>3, ConcatProperties
<1> HIDE DEF s
<1>0. DOMAIN s = 1 .. m + n
  BY <1>4
<1>5. \A i \in 1 .. m : s[i] = env[i]
  BY <1>1, <1>2, <1>4
<1>6. \A i \in 1 .. n : s[m + i] = more[i]
  <2> SUFFICES ASSUME NEW i \in 1 .. n PROVE s[m + i] = more[i]
    OBVIOUS
  <2> m + i \in 1 .. m + n /\ ~(m + i <= m) /\ (m + i) - m = i
    BY <1>1, <1>2
  <2> QED
    BY <1>4
<1>7. \A i \in 1 .. m + n : i \in 1 .. m \/ \E j \in 1 .. n : i = m + j
  <2> SUFFICES ASSUME NEW i \in 1 .. m + n, ~(i <= m) PROVE \E j \in 1 .. n : i = m + j
    BY <1>1, <1>2
  <2> i - m \in 1 .. n /\ i = m + (i - m)
    BY <1>1, <1>2
  <2> QED
    OBVIOUS
<1>8. /\ \A i \in 1 .. m : i \in 1 .. m + n
      /\ \A j \in 1 .. n : m + j \in 1 .. m + n
  BY <1>1, <1>2
<1>10. Named(s) = Named(env) \cup Named(more)
  <2>1. Named(s) \subseteq Named(env) \cup Named(more)
    <3> SUFFICES ASSUME NEW i \in 1 .. m + n PROVE s[i].name \in Named(env) \cup Named(more)
      BY <1>0 DEF Named
    <3>1. CASE i \in 1 .. m
      BY <1>1, <1>5, <3>1 DEF Named
    <3>2. CASE \E j \in 1 .. n : i = m + j
      <4> PICK j \in 1 .. n : i = m + j
        BY <3>2
      <4> QED
        BY <1>2, <1>6 DEF Named
    <3> QED
      BY <1>7, <3>1, <3>2
  <2>2. Named(env) \subseteq Named(s)
    BY <1>0, <1>1, <1>5, <1>8 DEF Named
  <2>3. Named(more) \subseteq Named(s)
    BY <1>0, <1>2, <1>6, <1>8 DEF Named
  <2> QED
    BY <2>1, <2>2, <2>3
<1> QED
  BY <1>4, <1>5, <1>6, <1>10 DEF s

LEMMA LongerOnce ==
  ASSUME NEW env \in Seq(Var), NEW more \in Seq(Given), NEW S,
         Once(env, S), Once(more, S), Named(env) \cap Named(more) \cap S = {}
  PROVE  Once(env \o more, S)
<1> DEFINE m == Len(env)
           n == Len(more)
           s == env \o more
<1>1. m \in Nat /\ DOMAIN env = 1 .. m /\ n \in Nat /\ DOMAIN more = 1 .. n
  BY VariablesAre
<1>2. /\ s \in Seq(Given) /\ Len(s) = m + n
      /\ \A i \in 1 .. m : s[i] = env[i]
      /\ \A i \in 1 .. n : s[m + i] = more[i]
  BY Longer
<1> HIDE DEF s
<1>3. DOMAIN s = 1 .. m + n
  BY <1>2
<1>4. \A i \in 1 .. m + n : i \in 1 .. m \/ (i - m \in 1 .. n /\ i = m + (i - m))
  BY <1>1
<1>5. SUFFICES ASSUME NEW i \in 1 .. m + n, NEW j \in 1 .. m + n,
                      s[i].name = s[j].name, s[i].name \in S
               PROVE  i = j
  BY <1>3 DEF Once, s
<1>6. CASE i \in 1 .. m /\ j \in 1 .. m
  BY <1>1, <1>2, <1>5, <1>6 DEF Once
<1>7. CASE i - m \in 1 .. n /\ i = m + (i - m) /\ j - m \in 1 .. n /\ j = m + (j - m)
  <2>1. s[i] = more[i - m] /\ s[j] = more[j - m]
    BY <1>2, <1>7
  <2>2. i - m = j - m
    BY <1>1, <1>5, <1>7, <2>1 DEF Once
  <2> QED
    BY <1>7, <2>2
<1>8. CASE i \in 1 .. m /\ j - m \in 1 .. n /\ j = m + (j - m)
  <2> s[i].name \in Named(env) /\ s[j].name \in Named(more)
    BY <1>1, <1>2, <1>8 DEF Named
  <2> QED
    BY <1>5
<1>9. CASE j \in 1 .. m /\ i - m \in 1 .. n /\ i = m + (i - m)
  <2> s[j].name \in Named(env) /\ s[i].name \in Named(more)
    BY <1>1, <1>2, <1>9 DEF Named
  <2> QED
    BY <1>5
<1> QED
  BY <1>4, <1>6, <1>7, <1>8, <1>9

LEMMA BytesTyped ==
  ASSUME NEW env \in Seq(Given)
  PROVE  Texts(env) /\ Bytes(env) \in Nat
<1>1. Texts(env)
  BY VariablesAre DEF Texts
<1>2. Offsets(env) \in [0 .. Len(env) -> Nat] /\ Len(env) \in 0 .. Len(env)
  BY <1>1, OffsetsAre
<1> QED
  BY <1>1, <1>2 DEF Bytes

(* The bytes of variables followed by others.                              *)
LEMMA BytesLonger ==
  ASSUME NEW env \in Seq(Var), NEW more \in Seq(Given)
  PROVE  Bytes(env \o more) = Bytes(env) + Bytes(more)
<1> DEFINE m == Len(env)
           n == Len(more)
           s == env \o more
<1>1. env \in Seq(Given)
  <2> Var \subseteq Given
    BY DEF Given
  <2> QED
    OBVIOUS
<1>2. /\ s \in Seq(Given) /\ Len(s) = m + n
      /\ \A i \in 1 .. m : s[i] = env[i]
      /\ \A i \in 1 .. n : s[m + i] = more[i]
  BY Longer
<1> HIDE DEF s
<1>3. Texts(env) /\ Texts(more) /\ Texts(s) /\ Bytes(env) \in Nat /\ m \in Nat /\ n \in Nat
  BY <1>1, <1>2, BytesTyped
<1>4. m <= Len(s)
  BY <1>2, <1>3
<1>5. Offsets(s)[m] = Bytes(env)
  <2> m \in 0 .. m
    BY <1>3
  <2> QED
    BY <1>2, <1>3, <1>4, OffsetsAgree DEF Bytes
<1>6. /\ Offsets(more) \in [0 .. n -> Nat]
      /\ Offsets(more)[0] = 0
      /\ \A i \in 1 .. n : Offsets(more)[i] = Offsets(more)[i - 1] + more[i].size
  BY <1>3, OffsetsAre
<1>7. \A i \in 1 .. m + n : Offsets(s)[i] = Offsets(s)[i - 1] + s[i].size
  BY <1>2, <1>3, OffsetsAre
<1> DEFINE T == {i \in 0 .. n : Offsets(s)[m + i] = Bytes(env) + Offsets(more)[i]}
<1>8. 0 \in T
  BY <1>3, <1>5, <1>6
<1>9. ASSUME NEW i \in 1 .. n, i - 1 \in T PROVE i \in T
  <2>1. m + i \in 1 .. m + n /\ (m + i) - 1 = m + (i - 1) /\ i \in 0 .. n /\ i - 1 \in 0 .. n
    BY <1>3
  <2>2. Offsets(s)[m + i] = Offsets(s)[m + (i - 1)] + more[i].size
    BY <1>2, <1>7, <2>1
  <2>3. Offsets(s)[m + (i - 1)] = Bytes(env) + Offsets(more)[i - 1]
    BY <1>9
  <2>4. Offsets(more)[i] = Offsets(more)[i - 1] + more[i].size
    BY <1>6
  <2>5. Offsets(more)[i - 1] \in Nat /\ more[i].size \in Nat
    BY <1>3, <1>6, <2>1 DEF Texts
  <2>6. Offsets(s)[m + i] = Bytes(env) + Offsets(more)[i]
    BY <1>3, <2>2, <2>3, <2>4, <2>5
  <2> QED
    BY <2>1, <2>6
<1>10. n \in T
  <2>1. 0 .. n \subseteq T
    <3> HIDE DEF T
    <3> QED
      BY <1>3, <1>8, <1>9, CountUp
  <2> HIDE DEF T
  <2> n \in 0 .. n
    BY <1>3
  <2> QED
    BY <2>1
<1> QED
  BY <1>2, <1>10 DEF Bytes, s

LEMMA BytesOfOne ==
  ASSUME NEW v \in Given
  PROVE  <<v>> \in Seq(Given) /\ Bytes(<<v>>) = v.size
<1>1. <<v>> \in Seq(Given) /\ Len(<<v>>) = 1 /\ <<v>>[1] = v
  OBVIOUS
<1>2. Texts(<<v>>) /\ v.size \in Nat
  <2> v.size \in Nat
    BY DEF Given, Var
  <2> QED
    BY <1>1, BytesTyped
<1>3. Offsets(<<v>>)[0] = 0 /\ \A i \in 1 .. 1 : Offsets(<<v>>)[i] = Offsets(<<v>>)[i - 1] + <<v>>[i].size
  BY <1>1, <1>2, OffsetsAre
<1>4. Offsets(<<v>>)[1] = v.size
  <2> 1 \in 1 .. 1 /\ 1 - 1 = 0
    OBVIOUS
  <2> QED
    BY <1>1, <1>2, <1>3
<1> QED
  BY <1>1, <1>4 DEF Bytes

(* What fp appends takes less than what it allowed for it.                 *)
LEMMA FpTextsAre ==
  ASSUME NEW p \in Nat, NEW t \in Nat
  PROVE  /\ FpTexts(p, t) \in Seq(Given) /\ Len(FpTexts(p, t)) = 4
         /\ Named(FpTexts(p, t)) = FpSet
         /\ \A S : Once(FpTexts(p, t), S)
         /\ AllocSize(p, t) \in Nat /\ Bytes(FpTexts(p, t)) <= AllocSize(p, t)
<1> DEFINE s == FpTexts(p, t)
<1>1. s = [i \in 1 .. 4 |-> [name |-> FpNames[i],
                             size |-> IF i \in {1, 3} THEN 18 + p ELSE 13 + t]]
  BY DEF FpTexts
<1>2. 1 .. 4 = {1, 2, 3, 4}
  OBVIOUS
<1>3. /\ s[1] = [name |-> FpNames[1], size |-> 18 + p]
      /\ s[2] = [name |-> FpNames[2], size |-> 13 + t]
      /\ s[3] = [name |-> FpNames[3], size |-> 18 + p]
      /\ s[4] = [name |-> FpNames[4], size |-> 13 + t]
  BY <1>1, <1>2
<1>4. FpSet = {FpNames[1], FpNames[2], FpNames[3], FpNames[4]}
  BY FpSetIs DEF FpNames
<1>5. \A i \in 1 .. 4 : s[i] \in Given
  <2>1. 18 + p \in Nat /\ 13 + t \in Nat
    OBVIOUS
  <2> QED
    BY <1>2, <1>3, <1>4, <2>1 DEF Given
<1>6. s \in Seq(Given) /\ Len(s) = 4 /\ DOMAIN s = 1 .. 4
  <2>1. s \in [1 .. 4 -> Given]
    BY <1>1, <1>5
  <2>2. \A n \in Nat : \A f \in [1 .. n -> Given] :
          f \in Seq(Given) /\ Len(f) = n /\ DOMAIN f = 1 .. n
    OBVIOUS
  <2>3. 4 \in Nat
    OBVIOUS
  <2> HIDE DEF s
  <2> QED
    BY <2>1, <2>2, <2>3, Zenon
<1> HIDE DEF s
<1>7. Named(s) = FpSet
  <2>1. Named(s) = {s[1].name, s[2].name, s[3].name, s[4].name}
    BY <1>2, <1>6 DEF Named
  <2> QED
    BY <1>3, <1>4, <2>1
<1>8. \A i, j \in 1 .. 4 : s[i].name = s[j].name => i = j
  <2> \A i, j \in {1, 2, 3, 4} : FpNames[i] = FpNames[j] => i = j
    BY DEF FpNames
  <2> \A i \in {1, 2, 3, 4} : s[i].name = FpNames[i]
    BY <1>3
  <2> QED
    BY <1>2
<1>9. \A S : Once(s, S)
  BY <1>6, <1>8 DEF Once
<1>10. Bytes(s) = 62 + 2 * p + 2 * t
  <2>1. Texts(s)
    BY <1>6, BytesTyped
  <2>2. Offsets(s)[0] = 0 /\ \A i \in 1 .. 4 : Offsets(s)[i] = Offsets(s)[i - 1] + s[i].size
    BY <1>6, <2>1, OffsetsAre
  <2>3. /\ Offsets(s)[1] = Offsets(s)[0] + s[1].size
        /\ Offsets(s)[2] = Offsets(s)[1] + s[2].size
        /\ Offsets(s)[3] = Offsets(s)[2] + s[3].size
        /\ Offsets(s)[4] = Offsets(s)[3] + s[4].size
    <3> 1 - 1 = 0 /\ 2 - 1 = 1 /\ 3 - 1 = 2 /\ 4 - 1 = 3
      OBVIOUS
    <3> QED
      BY <1>2, <2>2
  <2>4. s[1].size = 18 + p /\ s[2].size = 13 + t /\ s[3].size = 18 + p /\ s[4].size = 13 + t
    BY <1>3
  <2> DEFINE a == Offsets(s)[1]
             b == Offsets(s)[2]
             c == Offsets(s)[3]
             d == Offsets(s)[4]
  <2>5. a = 18 + p /\ b = a + (13 + t) /\ c = b + (18 + p) /\ d = c + (13 + t)
    BY <2>2, <2>3, <2>4
  <2>6. Bytes(s) = d
    BY <1>6 DEF Bytes
  <2> HIDE DEF a, b, c, d
  <2> QED
    BY <2>5, <2>6
<1>11. AllocSize(p, t) = 72 + 2 * p + 2 * t
  BY DEF AllocSize
<1> QED
  BY <1>6, <1>7, <1>9, <1>10, <1>11 DEF s

(* The copy of an environment with more behind it.                         *)
LEMMA CopyIs ==
  ASSUME NEW env \in Seq(Var), NEW more \in Seq(Given)
  PROVE  LET P == Place(env \o more, 0)
         IN /\ P \in Seq(Var)
            /\ Len(P) = Len(env) + Len(more)
            /\ Named(P) = Named(env) \cup Named(more)
            /\ \A S : Once(env, S) /\ Once(more, S) /\ Named(env) \cap Named(more) \cap S = {} =>
                        Once(P, S)
            /\ Apart(P, Bytes(env) + Bytes(more))
<1> DEFINE s == env \o more
           P == Place(s, 0)
<1>1. /\ s \in Seq(Given) /\ Len(s) = Len(env) + Len(more)
      /\ Named(s) = Named(env) \cup Named(more)
  BY Longer
<1>2. Bytes(s) = Bytes(env) + Bytes(more)
  BY BytesLonger
<1>3. \A S : Once(env, S) /\ Once(more, S) /\ Named(env) \cap Named(more) \cap S = {} => Once(s, S)
  BY LongerOnce
<1> HIDE DEF s
<1>4. /\ P \in Seq(Var) /\ Len(P) = Len(s) /\ Named(P) = Named(s)
      /\ \A S : Once(s, S) => Once(P, S)
      /\ Apart(P, 0 + Bytes(s))
  <2> 0 \in Nat
    OBVIOUS
  <2> QED
    BY <1>1, PlaceIs
<1>5. 0 + Bytes(s) = Bytes(s)
  BY <1>1, BytesTyped
<1> HIDE DEF P
<1> QED
  BY <1>1, <1>2, <1>3, <1>4, <1>5 DEF P, s

LEMMA RoomMore ==
  ASSUME NEW env \in Seq(Var), NEW a \in Nat, NEW b \in Nat, Apart(env, a), a <= b
  PROVE  Apart(env, b)
<1> SUFFICES ASSUME NEW i \in DOMAIN env PROVE env[i].at + env[i].size <= b
  BY DEF Apart
<1>1. env[i] \in Var
  OBVIOUS
<1>2. env[i].at \in Nat /\ env[i].size \in Nat
  BY <1>1 DEF Var
<1>3. env[i].at + env[i].size <= a
  BY DEF Apart
<1> QED
  BY <1>2, <1>3

LEMMA EnvInitial == EnvInit => EnvInv
<1> SUFFICES ASSUME EnvInit PROVE EnvInv
  OBVIOUS
<1> USE StartAssumption
<1>1. Start \in Seq(Given) /\ \A i \in DOMAIN Start : Start[i].name \in Names
  <2> DEFINE R == [name : Names, size : Sizes]
  <2>1. R \subseteq Given /\ \A r \in R : r.name \in Names
    BY SizesAssumption DEF Given
  <2>2. Start \in Seq(R)
    OBVIOUS
  <2> HIDE DEF R
  <2>3. Start \in Seq(Given)
    BY ONLY <2>1, <2>2
  <2>4. \A i \in DOMAIN Start : Start[i] \in R
    BY ONLY <2>2
  <2> QED
    BY ONLY <2>1, <2>3, <2>4
<1>2. /\ envp \in Seq(Var) /\ Len(envp) = Len(Start) /\ Named(envp) = Named(Start)
      /\ \A S : Once(Start, S) => Once(envp, S)
      /\ Apart(envp, 0 + Bytes(Start))
  <2> 0 \in Nat /\ envp = Place(Start, 0)
    BY DEF EnvInit
  <2> QED
    BY <1>1, PlaceIs
<1>3. Bytes(Start) \in Nat /\ 0 + Bytes(Start) = Bytes(Start)
  BY <1>1, BytesTyped
<1>4. \A S : Once(Start, S)
  BY DEF Once
<1>5. Named(Start) = expected /\ Named(Start) \subseteq Names
  <2>1. {v.name : v \in ToSet(Start)} = Named(Start)
    BY DEF ToSet, Named
  <2>2. Named(Start) \subseteq Names
    BY <1>1 DEF Named
  <2> QED
    BY <2>1, <2>2 DEF EnvInit
<1>6. Len(Start) \in Nat /\ Len(envp) \in Nat
  BY <1>1, <1>2
<1>7. block = Bytes(Start) /\ slots = Len(Start) + 1 /\ reused = FALSE
  BY DEF EnvInit, Entries
<1>8. Entries(envp) <= slots /\ block \in Nat /\ slots \in Nat
  BY ONLY <1>2, <1>3, <1>6, <1>7 DEF Entries
<1>9. Apart(envp, block)
  BY ONLY <1>2, <1>3, <1>7
<1>10. FpSet \cap expected = {}
  BY ONLY <1>5, FpSetIs
<1> QED
  BY ONLY <1>2, <1>4, <1>5, <1>7, <1>8, <1>9, <1>10 DEF EnvInv

(* se without a value.                                                     *)
LEMMA UnsetKept ==
  ASSUME EnvInv, NEW name \in Names, Unset(name)
  PROVE  EnvInv'
<1>1. envp \in Seq(Var) /\ Once(envp, {name})
  BY DEF EnvInv, Once
<1>2. /\ Remains(envp', envp) /\ Len(envp') <= Len(envp)
      /\ Named(envp) \ {name} \subseteq Named(envp')
      /\ name \notin Named(envp')
  BY <1>1, WithoutIs DEF Unset
<1>3. envp' \in Seq(Var)
  BY <1>2 DEF Remains
<1>4. /\ Named(envp') \subseteq Named(envp)
      /\ \A S : Once(envp, S) => Once(envp', S)
      /\ \A room : Apart(envp, room) => Apart(envp', room)
  BY <1>1, <1>2, RemainsKeep
<1>5. expected' = expected \ {name} /\ block' = block /\ slots' = slots /\ reused' = reused
  BY DEF Unset
<1>6. Entries(envp') <= slots
  <2> Len(envp) \in Nat /\ Len(envp') \in Nat /\ Entries(envp) <= slots /\ slots \in Nat
    BY <1>1, <1>3 DEF EnvInv
  <2> QED
    BY <1>2 DEF Entries
<1>7. Named(envp') = Named(envp) \ {name}
  BY <1>2, <1>4
<1>8. name \notin FpSet
  BY FpSetIs
<1> QED
  BY <1>3, <1>4, <1>5, <1>6, <1>7, <1>8 DEF EnvInv, Entries

(* se with a value.                                                        *)
LEMMA SetEnvKept ==
  ASSUME EnvInv, NEW name \in Names, NEW len \in Sizes, SetEnv(name, len)
  PROVE  EnvInv'
<1> DEFINE kept == Without(envp, name)
           v == [name |-> name, size |-> len]
<1>1. envp \in Seq(Var) /\ Once(envp, {name})
  BY DEF EnvInv, Once
<1>2. /\ Remains(kept, envp) /\ Named(envp) \ {name} \subseteq Named(kept)
      /\ name \notin Named(kept)
  BY <1>1, WithoutIs
<1>3. /\ envp' = Place(kept \o <<v>>, 0)
      /\ block' = Bytes(kept) + len
      /\ slots' = Entries(kept) + 1
      /\ expected' = expected \cup {name}
      /\ reused' = reused
  BY DEF SetEnv
<1> HIDE DEF kept
<1>4. kept \in Seq(Var)
  BY <1>2 DEF Remains
<1>5. /\ Named(kept) \subseteq Named(envp)
      /\ \A S : Once(envp, S) => Once(kept, S)
  BY <1>1, <1>2, RemainsKeep
<1>6. v \in Given /\ v.name = name /\ v.size = len /\ len \in Nat
  BY SizesAssumption DEF Given
<1> HIDE DEF v
<1>7. <<v>> \in Seq(Given) /\ Bytes(<<v>>) = len
  BY <1>6, BytesOfOne
<1>8. Len(<<v>>) = 1 /\ Named(<<v>>) = {name} /\ \A S : Once(<<v>>, S)
  <2> DOMAIN <<v>> = {1} /\ <<v>>[1] = v
    OBVIOUS
  <2> QED
    BY <1>6 DEF Named, Once
<1>9. /\ envp' \in Seq(Var)
      /\ Len(envp') = Len(kept) + Len(<<v>>)
      /\ Named(envp') = Named(kept) \cup Named(<<v>>)
      /\ \A S : Once(kept, S) /\ Once(<<v>>, S) /\ Named(kept) \cap Named(<<v>>) \cap S = {} =>
                  Once(envp', S)
      /\ Apart(envp', Bytes(kept) + Bytes(<<v>>))
  BY <1>3, <1>4, <1>7, CopyIs
<1>10. \A S : Once(envp, S) => Once(envp', S)
  BY <1>2, <1>5, <1>8, <1>9
<1>11. Named(envp') = Named(envp) \cup {name}
  BY <1>2, <1>5, <1>8, <1>9
<1>12. block' \in Nat /\ slots' \in Nat /\ Entries(envp') <= slots'
  <2>1. Bytes(kept) \in Nat /\ Len(kept) \in Nat
    <3> Var \subseteq Given
      BY DEF Given
    <3> kept \in Seq(Given)
      BY <1>4
    <3> QED
      BY BytesTyped
  <2> QED
    BY <1>3, <1>6, <1>8, <1>9, <2>1 DEF Entries
<1>13. name \notin FpSet
  BY FpSetIs
<1>14. Apart(envp', block')
  BY <1>3, <1>7, <1>9
<1> QED
  BY <1>3, <1>9, <1>10, <1>11, <1>12, <1>13, <1>14 DEF EnvInv, Entries

(* fp on a copy.                                                           *)
LEMMA FpExpandKept ==
  ASSUME EnvInv, NEW p \in Nat, NEW t \in Nat, FpExpand(p, t)
  PROVE  EnvInv'
<1> DEFINE kept == RemoveAll(envp)
           texts == FpTexts(p, t)
<1>1. envp \in Seq(Var)
  BY DEF EnvInv
<1>2. /\ Remains(kept, envp) /\ Named(envp) \ FpSet \subseteq Named(kept)
      /\ Once(envp, FpSet) => Named(kept) \cap FpSet = {}
  BY <1>1, RemoveAllIs
<1>3. /\ envp' = Place(kept \o texts, 0)
      /\ block' = Bytes(kept) + AllocSize(p, t)
      /\ slots' = Entries(kept) + 4
      /\ expected' = expected \cup FpSet
      /\ reused' = reused
  BY DEF FpExpand, FpSet
<1> HIDE DEF kept
<1>4. kept \in Seq(Var)
  BY <1>2 DEF Remains
<1>5. /\ Named(kept) \subseteq Named(envp)
      /\ \A S : Once(envp, S) => Once(kept, S)
  BY <1>1, <1>2, RemainsKeep
<1>6. /\ texts \in Seq(Given) /\ Len(texts) = 4
      /\ Named(texts) = FpSet
      /\ \A S : Once(texts, S)
      /\ AllocSize(p, t) \in Nat /\ Bytes(texts) <= AllocSize(p, t)
  BY FpTextsAre
<1> HIDE DEF texts
<1>7. /\ envp' \in Seq(Var)
      /\ Len(envp') = Len(kept) + Len(texts)
      /\ Named(envp') = Named(kept) \cup Named(texts)
      /\ \A S : Once(kept, S) /\ Once(texts, S) /\ Named(kept) \cap Named(texts) \cap S = {} =>
                  Once(envp', S)
      /\ Apart(envp', Bytes(kept) + Bytes(texts))
  BY <1>3, <1>4, <1>6, CopyIs
<1>8. Bytes(kept) \in Nat /\ Len(kept) \in Nat /\ Bytes(texts) \in Nat
  <2> Var \subseteq Given
    BY DEF Given
  <2> kept \in Seq(Given)
    BY <1>4
  <2> QED
    BY <1>6, BytesTyped
<1>9. block' \in Nat /\ slots' \in Nat /\ Entries(envp') <= slots'
  BY ONLY <1>3, <1>6, <1>7, <1>8 DEF Entries
<1>10. Bytes(kept) + Bytes(texts) \in Nat /\ Bytes(kept) + Bytes(texts) <= block'
  BY ONLY <1>3, <1>6, <1>8
<1>11. Apart(envp', block')
  BY <1>7, <1>9, <1>10, RoomMore
<1>12. Once(envp', Names)
  <2> Named(kept) \cap Named(texts) \cap Names = {}
    BY <1>6, FpSetIs
  <2> QED
    BY <1>5, <1>6, <1>7 DEF EnvInv
<1>13. ASSUME ~reused
       PROVE  Once(envp', Names \cup FpSet) /\ Named(envp') = expected'
  <2>1. Once(envp, Names \cup FpSet) /\ Named(envp) = expected
    BY <1>13 DEF EnvInv
  <2>2. Named(kept) \cap FpSet = {}
    BY <1>2, <2>1 DEF Once
  <2> QED
    BY <1>2, <1>3, <1>5, <1>6, <1>7, <2>1, <2>2
<1>14. Named(envp') \subseteq expected' /\ FpSet \subseteq Named(envp')
  BY <1>3, <1>5, <1>6, <1>7 DEF EnvInv
<1> QED
  BY <1>3, <1>7, <1>9, <1>11, <1>12, <1>13, <1>14 DEF EnvInv, Entries

(* fp in place.                                                            *)
LEMMA FpInPlaceKept ==
  ASSUME EnvInv, NEW p \in Nat, NEW t \in Nat, FpInPlace(p, t)
  PROVE  EnvInv'
<1> DEFINE kept == RemoveAll(envp)
           last == Len(kept)
           texts == Place(FpTexts(p, t), kept[last].at)
           cut == [kept EXCEPT ![last] = texts[1]]
<1>1. envp \in Seq(Var)
  BY DEF EnvInv
<1>2. Remains(kept, envp)
  BY <1>1, RemoveAllIs
<1>3. /\ envp' = cut \o texts
      /\ Entries(kept) + 4 <= Entries(envp)
      /\ kept # <<>>
      /\ expected' = expected \cup FpSet
      /\ reused' = TRUE /\ block' = block /\ slots' = slots
  BY DEF FpInPlace, FitsInPlace, FpSet
<1> HIDE DEF kept
<1>4. kept \in Seq(Var)
  BY <1>2 DEF Remains
<1>5. /\ Named(kept) \subseteq Named(envp)
      /\ \A S : Once(envp, S) => Once(kept, S)
  BY <1>1, <1>2, RemainsKeep
<1>6. /\ FpTexts(p, t) \in Seq(Given) /\ Len(FpTexts(p, t)) = 4
      /\ Named(FpTexts(p, t)) = FpSet
      /\ \A S : Once(FpTexts(p, t), S)
  BY FpTextsAre
<1>7. last \in 1 .. Len(kept) /\ kept[last].at \in Nat /\ Len(kept) \in Nat
  <2>1. last \in 1 .. Len(kept) /\ Len(kept) \in Nat
    BY <1>3, <1>4
  <2>2. kept[last] \in Var
    BY <1>4, <2>1
  <2> QED
    BY <2>1, <2>2 DEF Var
<1>8. /\ texts \in Seq(Var) /\ Len(texts) = 4
      /\ Named(texts) = FpSet
      /\ \A S : Once(texts, S)
  BY <1>6, <1>7, PlaceIs
<1> HIDE DEF texts
<1>9. texts[1] \in Var /\ texts[1].name \in FpSet
  <2>1. DOMAIN texts = 1 .. 4 /\ 1 \in 1 .. 4
    BY <1>8
  <2>2. texts[1] \in Var
    BY <1>8, <2>1
  <2>3. texts[1].name \in Named(texts)
    BY <2>1 DEF Named
  <2> QED
    BY <1>8, <2>2, <2>3
<1>10. cut \in Seq(Var) /\ Len(cut) = Len(kept) /\ DOMAIN cut = 1 .. Len(kept)
  BY <1>4, <1>7, <1>9
<1>11. /\ cut[last] = texts[1]
       /\ \A i \in 1 .. Len(kept) : i # last => cut[i] = kept[i]
  BY <1>4, <1>7
<1> HIDE DEF cut
<1>12. DOMAIN kept = 1 .. Len(kept)
  BY <1>4
<1>13. Named(cut) \subseteq Named(kept) \cup FpSet
  BY <1>9, <1>10, <1>11, <1>12 DEF Named
<1>14. Once(cut, Names)
  <2>1. Once(kept, Names)
    BY <1>5 DEF EnvInv
  <2>2. cut[last].name \notin Names
    BY <1>9, <1>11, FpSetIs
  <2> QED
    BY <1>10, <1>11, <1>12, <2>1, <2>2 DEF Once
<1>15. texts \in Seq(Given)
  <2> Var \subseteq Given
    BY DEF Given
  <2> QED
    BY <1>8
<1>16. /\ Len(envp') = Len(kept) + 4
       /\ Named(envp') = Named(cut) \cup FpSet
  <2> Len(cut \o texts) = Len(cut) + Len(texts) /\ Named(cut \o texts) = Named(cut) \cup Named(texts)
    BY <1>10, <1>15, Longer
  <2> QED
    BY <1>3, <1>8, <1>10
<1>17. Once(envp', Names)
  <2> Named(cut) \cap Named(texts) \cap Names = {}
    BY <1>8, FpSetIs
  <2> QED
    BY <1>3, <1>8, <1>10, <1>14, <1>15, LongerOnce
<1>18. envp' \in Seq(Var)
  BY <1>3, <1>8, <1>10, ConcatProperties
<1>19. Entries(envp') <= slots
  <2> Len(envp) \in Nat /\ slots \in Nat /\ Entries(envp) <= slots
    BY <1>1 DEF EnvInv
  <2> QED
    BY <1>3, <1>7, <1>16 DEF Entries
<1>20. Named(envp') \subseteq expected' /\ FpSet \subseteq Named(envp')
  BY <1>3, <1>5, <1>13, <1>16 DEF EnvInv
<1> QED
  BY <1>3, <1>17, <1>18, <1>19, <1>20 DEF EnvInv, Entries

LEMMA EnvInvKept == EnvInv /\ [EnvNext]_evvars => EnvInv'
<1> SUFFICES ASSUME EnvInv, [EnvNext]_evvars PROVE EnvInv'
  OBVIOUS
<1>1. ASSUME NEW name \in Names, Unset(name) PROVE EnvInv'
  BY <1>1, UnsetKept
<1>2. ASSUME NEW name \in Names, NEW len \in Sizes, SetEnv(name, len) PROVE EnvInv'
  BY <1>2, SetEnvKept
<1>3. ASSUME NEW pt \in PartTypes, FpExpand(pt[1], pt[2]) \/ FpInPlace(pt[1], pt[2])
      PROVE  EnvInv'
  <2> pt[1] \in Nat /\ pt[2] \in Nat
    BY PartTypesAssumption
  <2> QED
    BY <1>3, FpExpandKept, FpInPlaceKept
<1>4. CASE UNCHANGED evvars
  BY <1>4 DEF evvars, EnvInv, Entries
<1> QED
  BY <1>1, <1>2, <1>3, <1>4 DEF EnvNext

LEMMA EnvKeeps == EnvInv => EnvKept
<1> SUFFICES ASSUME EnvInv PROVE EnvKept
  OBVIOUS
<1>1. envp \in Seq(Var) /\ DOMAIN envp = 1 .. Len(envp) /\ Len(envp) \in Nat
  BY DEF EnvInv
<1>2. Named(envp) = {v.name : v \in ToSet(envp)}
  BY DEF Named, ToSet
<1>3. ASSUME ~reused PROVE Holds
  <2>1. Once(envp, Names \cup FpSet) /\ Named(envp) = expected
    BY <1>3 DEF EnvInv
  <2>2. \A i \in DOMAIN envp : envp[i].name \in Names \cup FpSet
    <3> \A i \in DOMAIN envp : envp[i] \in Var
      BY <1>1
    <3> QED
      BY DEF Var
  <2> QED
    BY <1>2, <2>1, <2>2 DEF Holds, Once
<1>4. ASSUME ~reused PROVE Fits
  <2>1. Apart(envp, block)
    BY <1>4 DEF EnvInv
  <2> SUFFICES ASSUME NEW i \in DOMAIN envp
               PROVE  envp[i].at + envp[i].size <= (IF i = Len(envp) THEN block ELSE envp[i + 1].at)
    BY DEF Fits
  <2>2. CASE i = Len(envp)
    BY <2>1, <2>2 DEF Apart
  <2>3. CASE i # Len(envp)
    <3> i + 1 \in DOMAIN envp /\ i < i + 1
      BY <1>1, <2>3
    <3> QED
      BY <2>1, <2>3 DEF Apart
  <2> QED
    BY <2>2, <2>3
<1> QED
  BY <1>2, <1>3, <1>4 DEF EnvKept, EnvInv, FpSet

(* As long as se and fp copy the environment, it holds the variables that  *)
(* were set and not unset, each once, no text over another; and even when  *)
(* fp writes in place the pointers do not overflow, the variables of fp end*)
(* up set and none comes back.                                             *)
THEOREM EnvironmentIsKept == EnvSpec => []EnvKept
<1>1. EnvSpec => []EnvInv
  BY EnvInitial, EnvInvKept, PTL DEF EnvSpec
<1> QED
  BY <1>1, EnvKeeps, PTL

-----------------------------------------------------------------------------
(* bl and ch (MultiDev): a device is numbered like the numerals of a place  *)
(* notation, whose digits are the ranks of the values of its fields.        *)

(* A function is given by its value at 0 and a step to each number.        *)
Follows(f, n, a, h) ==
  /\ f = [i \in 0 .. n |-> f[i]]
  /\ f[0] = a
  /\ \A i \in 1 .. n : f[i] = h[i][f[i - 1]]

(* A function of 0 .. n with a given start and given steps exists.         *)
LEMMA Recursion ==
  ASSUME NEW n \in Nat, NEW a, NEW h
  PROVE  \E f : Follows(f, n, a, h)
<1> DEFINE Ok(f, k) == /\ f = [i \in 0 .. n |-> f[i]]
                       /\ f[0] = a
                       /\ \A i \in 1 .. k : f[i] = h[i][f[i - 1]]
           T == {k \in 0 .. n : \E f : Ok(f, k)}
<1>1. 0 \in T
  <2>1. Ok([i \in 0 .. n |-> a], 0) /\ 0 \in 0 .. n
    OBVIOUS
  <2> QED
    BY <2>1
<1>2. ASSUME NEW k \in 1 .. n, k - 1 \in T
      PROVE  k \in T
  <2>1. PICK f : Ok(f, k - 1)
    BY <1>2
  <2> DEFINE g == [i \in 0 .. n |-> IF i = k THEN h[k][f[k - 1]] ELSE f[i]]
  <2>2. k \in 0 .. n
    OBVIOUS
  <2>3. g = [i \in 0 .. n |-> g[i]]
    OBVIOUS
  <2>4. g[k] = h[k][f[k - 1]] /\ \A i \in 0 .. n : i # k => g[i] = f[i]
    BY <2>2
  <2> HIDE DEF g
  <2>5. g[0] = a
    BY <2>1, <2>4
  <2>6. ASSUME NEW i \in 1 .. k PROVE g[i] = h[i][g[i - 1]]
    <3>1. CASE i = k
      <4> i - 1 # k /\ i - 1 \in 0 .. n
        BY <3>1
      <4> QED
        BY <2>4, <3>1
    <3>2. CASE i # k
      <4> i \in 1 .. k - 1 /\ i \in 0 .. n /\ i - 1 \in 0 .. n /\ i - 1 # k
        BY <3>2
      <4> QED
        BY <2>1, <2>4, <3>2
    <3> QED
      BY <3>1, <3>2
  <2> QED
    BY <2>2, <2>3, <2>5, <2>6
<1>3. n \in T
  <2> HIDE DEF T
  <2> n \in 0 .. n
    OBVIOUS
  <2> QED
    BY <1>1, <1>2, CountUp
<1>4. PICK f : Ok(f, n)
  BY <1>3
<1> QED
  BY <1>4 DEF Follows

(* Division: a quotient and a remainder below the divisor are the ones.    *)
LEMMA Quotient ==
  ASSUME NEW b \in Nat \ {0}, NEW q \in Int, NEW r \in 0 .. b - 1
  PROVE  (r + b * q) \div b = q /\ (r + b * q) % b = r
<1> DEFINE x == r + b * q
           d == x \div b
           m == x % b
<1>1. x \in Int
  OBVIOUS
<1>2. d \in Int /\ m \in 0 .. b - 1 /\ x = b * d + m
  BY <1>1
<1>3. b * (q - d) = m - r
  BY <1>2
<1>4. \A e \in Int : e >= 1 => b * e >= b
  OBVIOUS
<1>5. \A e \in Int : e <= -1 => b * e <= -b
  OBVIOUS
<1> HIDE DEF d, m
<1>6. q = d
  BY <1>2, <1>3, <1>4, <1>5
<1> QED
  BY <1>2, <1>6 DEF d, m

(* The sums of the first terms.                                            *)
LEMMA PartialsAre ==
  ASSUME NEW n \in Nat, NEW g \in [1 .. n -> Int]
  PROVE  /\ Len(g) = n
         /\ Partials(g) \in [0 .. n -> Int]
         /\ Partials(g)[0] = 0
         /\ \A i \in 1 .. n : Partials(g)[i] = Partials(g)[i - 1] + g[i]
<1> DEFINE Rule(f) == f = [i \in 0 .. n |-> IF i = 0 THEN 0 ELSE f[i - 1] + g[i]]
           h == [i \in 1 .. n |-> [x \in Int |-> x + g[i]]]
           sum == Partials(g)
<1>1. Len(g) = n
  OBVIOUS
<1>2. \A i \in 1 .. n : \A x \in Int : h[i][x] \in Int /\ h[i][x] = x + g[i]
  OBVIOUS
<1> HIDE DEF h
<1>3. PICK f : Follows(f, n, 0, h)
  BY Recursion
<1>4. Rule(f)
  <2>1. f = [i \in 0 .. n |-> f[i]] /\ f[0] = 0 /\ \A i \in 1 .. n : f[i] = h[i][f[i - 1]]
    BY <1>3 DEF Follows
  <2>2. \A i \in 0 .. n : f[i] \in Int
    <3> DEFINE T == {i \in 0 .. n : f[i] \in Int}
    <3>1. 0 \in T
      BY <2>1
    <3>2. ASSUME NEW i \in 1 .. n, i - 1 \in T PROVE i \in T
      <4>1. f[i - 1] \in Int /\ i \in 0 .. n
        BY <3>2
      <4>2. f[i] = h[i][f[i - 1]]
        BY <2>1
      <4>3. f[i] \in Int
        BY <1>2, <4>1, <4>2
      <4> QED
        BY <4>1, <4>3
    <3> HIDE DEF T
    <3>3. 0 .. n \subseteq T
      BY <3>1, <3>2, CountUp
    <3> QED
      BY <3>3 DEF T
  <2>3. \A i \in 0 .. n : i # 0 => i \in 1 .. n /\ i - 1 \in 0 .. n
    OBVIOUS
  <2>4. \A i \in 0 .. n : f[i] = IF i = 0 THEN 0 ELSE f[i - 1] + g[i]
    BY <1>2, <2>1, <2>2, <2>3
  <2> QED
    BY <2>1, <2>4
<1>5. sum = CHOOSE p : Rule(p)
  BY <1>1 DEF Partials
<1>6. Rule(sum)
  BY <1>4, <1>5
<1> HIDE DEF sum
<1>7. DOMAIN sum = 0 .. n /\ \A i \in 0 .. n : sum[i] = IF i = 0 THEN 0 ELSE sum[i - 1] + g[i]
  BY <1>6
<1>8. sum = [i \in 0 .. n |-> sum[i]]
  BY <1>6, <1>7
<1>9. sum[0] = 0 /\ \A i \in 1 .. n : sum[i] = sum[i - 1] + g[i]
  <2> 0 \in 0 .. n /\ \A i \in 1 .. n : i \in 0 .. n /\ i # 0
    OBVIOUS
  <2> QED
    BY <1>7
<1>10. \A i \in 0 .. n : sum[i] \in Int
  <2> DEFINE T == {i \in 0 .. n : sum[i] \in Int}
  <2>1. 0 \in T
    BY <1>9
  <2>2. ASSUME NEW i \in 1 .. n, i - 1 \in T PROVE i \in T
    <3> i \in 0 .. n /\ sum[i] = sum[i - 1] + g[i] /\ sum[i - 1] \in Int
      BY <1>9, <2>2
    <3> QED
      OBVIOUS
  <2> HIDE DEF T
  <2>3. 0 .. n \subseteq T
    BY <2>1, <2>2, CountUp
  <2> QED
    BY <2>3 DEF T
<1> QED
  BY <1>1, <1>8, <1>9, <1>10 DEF sum

(* Bytes are numbers.                                                      *)
LEMMA OctetIs == Octet \subseteq Int /\ \A x \in Octet : x >= 0 /\ x < Byte
  BY ByteAssumption DEF Octet

(* A range of characters has at least its first.                           *)
LEMMA SpanIs ==
  ASSUME NEW lo \in Int, NEW hi \in Int
  PROVE  Span(lo, hi) \in Nat /\ Span(lo, hi) >= 1
  BY DEF Span

(* The characters of a range, in order.                                    *)
LEMMA RunIs ==
  ASSUME NEW r \in Octet \X Octet
  PROVE  /\ Run(r) \in Seq(Int) /\ Len(Run(r)) = Span(r[1], r[2])
         /\ \A k \in 1 .. Span(r[1], r[2]) : Run(r)[k] = r[1] + k - 1
<1> DEFINE m == Span(r[1], r[2])
           lo == r[1]
<1>1. lo \in Int /\ r[2] \in Int
  BY OctetIs
<1>2. m \in Nat
  BY <1>1, SpanIs
<1>3. Run(r) = [k \in 1 .. m |-> lo + k - 1]
  BY DEF Run
<1> HIDE DEF m, lo
<1>4. [k \in 1 .. m |-> lo + k - 1] \in [1 .. m -> Int]
  BY <1>1, <1>2
<1> DEFINE s == [k \in 1 .. m |-> lo + k - 1]
<1>5. \A k \in 1 .. m : s[k] = lo + k - 1
  OBVIOUS
<1>6. s \in [1 .. m -> Int]
  BY <1>4
<1> HIDE DEF s
<1>7. s \in Seq(Int) /\ Len(s) = m
  BY <1>2, <1>6
<1> QED
  BY <1>3, <1>5, <1>7 DEF s, m, lo

(* The characters of the first ranges of a field.                          *)
LEMMA CharsAre ==
  ASSUME NEW ranges \in Seq(Octet \X Octet)
  PROVE  /\ Chars(ranges)[0] = <<>>
         /\ \A i \in 1 .. Len(ranges) :
              /\ Chars(ranges)[i - 1] \in Seq(Int)
              /\ Chars(ranges)[i] = Chars(ranges)[i - 1] \o Run(ranges[i])
         /\ \A i \in 0 .. Len(ranges) : Chars(ranges)[i] \in Seq(Int)
<1> DEFINE n == Len(ranges)
           Rule(f) == f = [i \in 0 .. n |-> IF i = 0 THEN <<>> ELSE f[i - 1] \o Run(ranges[i])]
           h == [i \in 1 .. n |-> [x \in Seq(Int) |-> x \o Run(ranges[i])]]
           chars == Chars(ranges)
<1>1. n \in Nat
  OBVIOUS
<1>2. \A i \in 1 .. n : Run(ranges[i]) \in Seq(Int)
  <2> \A i \in 1 .. n : ranges[i] \in Octet \X Octet
    OBVIOUS
  <2> QED
    BY RunIs
<1>3. ASSUME NEW i \in 1 .. n, NEW x \in Seq(Int)
      PROVE  h[i][x] \in Seq(Int) /\ h[i][x] = x \o Run(ranges[i])
  <2> Run(ranges[i]) \in Seq(Int)
    BY <1>2
  <2> x \o Run(ranges[i]) \in Seq(Int)
    BY ConcatProperties
  <2> QED
    BY Zenon
<1> HIDE DEF h
<1>4. PICK f : Follows(f, n, <<>>, h)
  BY <1>1, Recursion
<1>5. <<>> \in Seq(Int)
  OBVIOUS
<1>6. Rule(f)
  <2>1. f = [i \in 0 .. n |-> f[i]] /\ f[0] = <<>> /\ \A i \in 1 .. n : f[i] = h[i][f[i - 1]]
    BY <1>4 DEF Follows
  <2>2. \A i \in 0 .. n : f[i] \in Seq(Int)
    <3> DEFINE T == {i \in 0 .. n : f[i] \in Seq(Int)}
    <3>1. 0 \in T
      BY <1>1, <1>5, <2>1
    <3>2. ASSUME NEW i \in 1 .. n, i - 1 \in T PROVE i \in T
      <4>1. f[i - 1] \in Seq(Int) /\ i \in 0 .. n
        BY <1>1, <3>2
      <4>2. f[i] = h[i][f[i - 1]]
        BY <2>1
      <4>3. f[i] \in Seq(Int)
        BY <1>3, <4>1, <4>2, Zenon
      <4> QED
        BY <4>1, <4>3
    <3> HIDE DEF T
    <3>3. 0 .. n \subseteq T
      BY <1>1, <3>1, <3>2, CountUp
    <3> QED
      BY <3>3 DEF T
  <2>3. \A i \in 0 .. n : i # 0 => i \in 1 .. n /\ i - 1 \in 0 .. n
    BY <1>1
  <2>4. \A i \in 0 .. n : f[i] = IF i = 0 THEN <<>> ELSE f[i - 1] \o Run(ranges[i])
    BY <1>3, <2>1, <2>2, <2>3, Zenon
  <2> QED
    BY <2>1, <2>4, Zenon
<1>7. chars = CHOOSE p : Rule(p)
  BY Zenon DEF Chars
<1>8. Rule(chars)
  BY <1>6, <1>7, Zenon
<1> HIDE DEF chars
<1>9. \A i \in 0 .. n : chars[i] = IF i = 0 THEN <<>> ELSE chars[i - 1] \o Run(ranges[i])
  BY <1>8, Zenon
<1>10. 0 \in 0 .. n /\ \A i \in 1 .. n : i \in 0 .. n /\ i # 0
  BY <1>1
<1>11. chars[0] = <<>> /\ \A i \in 1 .. n : chars[i] = chars[i - 1] \o Run(ranges[i])
  BY <1>9, <1>10, Zenon
<1>12. \A i \in 0 .. n : chars[i] \in Seq(Int)
  <2> DEFINE T == {i \in 0 .. n : chars[i] \in Seq(Int)}
  <2>1. 0 \in T
    BY <1>5, <1>10, <1>11
  <2>2. ASSUME NEW i \in 1 .. n, i - 1 \in T PROVE i \in T
    <3>1. i \in 0 .. n /\ chars[i] = chars[i - 1] \o Run(ranges[i]) /\ chars[i - 1] \in Seq(Int)
      BY <1>10, <1>11, <2>2, Zenon
    <3>2. chars[i] \in Seq(Int)
      BY <1>2, <3>1, ConcatProperties
    <3> QED
      BY <3>1, <3>2
  <2> HIDE DEF T
  <2>3. 0 .. n \subseteq T
    BY <1>1, <2>1, <2>2, CountUp
  <2> QED
    BY <2>3 DEF T
<1>13. \A i \in 1 .. n : i - 1 \in 0 .. n
  BY <1>1
<1> QED
  BY <1>11, <1>12, <1>13, Zenon DEF chars

(* The characters of a range stay where they are when others follow.       *)
LEMMA CharAt ==
  ASSUME NEW ranges \in Seq(Octet \X Octet), NEW j \in 1 .. Len(ranges)
  PROVE  LET C == Chars(ranges)
             n == Len(ranges)
             r == ranges[j]
         IN /\ Len(C[j - 1]) \in Nat /\ Len(C[j]) \in Nat /\ Len(C[n]) \in Nat
            /\ Len(C[j]) = Len(C[j - 1]) + Span(r[1], r[2])
            /\ Len(C[j]) <= Len(C[n])
            /\ \A k \in 1 .. Span(r[1], r[2]) : C[n][Len(C[j - 1]) + k] = r[1] + k - 1
<1> DEFINE C == Chars(ranges)
           n == Len(ranges)
           r == ranges[j]
           m == Span(r[1], r[2])
           Later(i) == i >= j => /\ Len(C[j]) <= Len(C[i])
                                 /\ \A k \in 1 .. Len(C[j]) : C[i][k] = C[j][k]
           T == {i \in 0 .. n : Later(i)}
<1>1. n \in Nat /\ j \in Nat /\ j >= 1 /\ j <= n
  OBVIOUS
<1>2. /\ \A i \in 1 .. n : C[i] = C[i - 1] \o Run(ranges[i])
      /\ \A i \in 0 .. n : C[i] \in Seq(Int)
  BY CharsAre
<1>3. \A i \in 1 .. n : ranges[i] \in Octet \X Octet
  OBVIOUS
<1> HIDE DEF C
<1>4. ASSUME NEW i \in 1 .. n
      PROVE  /\ Len(C[i - 1]) \in Nat /\ Len(Run(ranges[i])) \in Nat
             /\ Run(ranges[i]) \in Seq(Int) /\ C[i - 1] \in Seq(Int)
             /\ Len(C[i]) = Len(C[i - 1]) + Len(Run(ranges[i]))
             /\ \A k \in 1 .. Len(C[i]) :
                  C[i][k] = IF k <= Len(C[i - 1]) THEN C[i - 1][k]
                            ELSE Run(ranges[i])[k - Len(C[i - 1])]
  <2>1. i - 1 \in 0 .. n
    BY <1>1
  <2>2. C[i - 1] \in Seq(Int) /\ Run(ranges[i]) \in Seq(Int)
    BY <1>2, <1>3, <2>1, RunIs
  <2>3. C[i] = C[i - 1] \o Run(ranges[i])
    BY <1>2
  <2>4. /\ Len(C[i]) = Len(C[i - 1]) + Len(Run(ranges[i]))
        /\ \A k \in 1 .. Len(C[i - 1]) + Len(Run(ranges[i])) :
             C[i][k] = IF k <= Len(C[i - 1]) THEN C[i - 1][k]
                       ELSE Run(ranges[i])[k - Len(C[i - 1])]
    <3> DEFINE a == C[i - 1]
               b == Run(ranges[i])
    <3>1. a \in Seq(Int) /\ b \in Seq(Int) /\ C[i] = a \o b
      BY <2>2, <2>3
    <3> HIDE DEF a, b
    <3>2. /\ Len(a \o b) = Len(a) + Len(b)
          /\ \A k \in 1 .. Len(a) + Len(b) :
               (a \o b)[k] = IF k <= Len(a) THEN a[k] ELSE b[k - Len(a)]
      BY <3>1, ConcatProperties
    <3> QED
      BY <3>1, <3>2 DEF a, b
  <2>5. Len(C[i - 1]) \in Nat /\ Len(Run(ranges[i])) \in Nat
    BY <2>2
  <2> QED
    BY <2>2, <2>4, <2>5
<1>5. \A i \in 0 .. n : Len(C[i]) \in Nat
  BY <1>2
<1>6. 0 \in T
  BY <1>1
<1>7. ASSUME NEW i \in 1 .. n, i - 1 \in T PROVE i \in T
  <2>1. i \in 0 .. n /\ i - 1 \in 0 .. n /\ j \in 0 .. n
    BY <1>1
  <2>2. CASE i = j
    BY <1>5, <2>1, <2>2
  <2>3. CASE i < j
    BY <1>1, <2>1, <2>3
  <2>4. CASE i > j
    <3>1. i - 1 >= j
      BY <1>1, <2>4
    <3>2. Len(C[j]) <= Len(C[i - 1]) /\ \A k \in 1 .. Len(C[j]) : C[i - 1][k] = C[j][k]
      BY <1>7, <3>1
    <3>3. Len(C[j]) \in Nat /\ Len(C[i - 1]) \in Nat /\ Len(C[i]) \in Nat /\ Len(C[i - 1]) <= Len(C[i])
      <4>1. Len(Run(ranges[i])) \in Nat /\ Len(C[i]) = Len(C[i - 1]) + Len(Run(ranges[i]))
        BY <1>4
      <4>2. Len(C[j]) \in Nat /\ Len(C[i - 1]) \in Nat /\ Len(C[i]) \in Nat
        BY <1>5, <2>1
      <4>3. \A x, y, z \in Nat : z = x + y => x <= z
        OBVIOUS
      <4> QED
        BY <4>1, <4>2, <4>3
    <3>4. \A k \in 1 .. Len(C[j]) : k \in 1 .. Len(C[i]) /\ k <= Len(C[i - 1])
      BY <3>2, <3>3
    <3>5. \A k \in 1 .. Len(C[j]) : C[i][k] = C[i - 1][k]
      BY <1>4, <3>4
    <3>6. Len(C[j]) <= Len(C[i])
      <4>1. \A x, y, z \in Nat : x <= y /\ y <= z => x <= z
        OBVIOUS
      <4> QED
        BY <3>2, <3>3, <4>1
    <3> QED
      BY <2>1, <3>2, <3>5, <3>6
  <2> QED
    BY <1>1, <2>2, <2>3, <2>4
<1>8. Later(n)
  <2> HIDE DEF T
  <2>1. 0 .. n \subseteq T
    BY <1>1, <1>6, <1>7, CountUp
  <2>2. n \in T
    BY <1>1, <2>1
  <2> QED
    BY <2>2 DEF T
<1>9. Len(Run(r)) = m /\ \A k \in 1 .. m : Run(r)[k] = r[1] + k - 1
  BY <1>3, RunIs
<1>10. Len(C[j]) = Len(C[j - 1]) + m /\ Len(C[j - 1]) \in Nat /\ m \in Nat
  BY <1>4, <1>9
<1>11. Len(C[j]) <= Len(C[n]) /\ \A k \in 1 .. Len(C[j]) : C[n][k] = C[j][k]
  BY <1>1, <1>8
<1>12. ASSUME NEW k \in 1 .. m PROVE C[n][Len(C[j - 1]) + k] = r[1] + k - 1
  <2> DEFINE x == Len(C[j - 1]) + k
  <2>1. x \in 1 .. Len(C[j]) /\ ~(x <= Len(C[j - 1])) /\ x - Len(C[j - 1]) = k
    BY <1>10
  <2> HIDE DEF x
  <2>2. C[j][x] = Run(r)[x - Len(C[j - 1])]
    BY <1>4, <2>1
  <2>3. C[n][x] = C[j][x]
    BY <1>11, <2>1
  <2>4. C[n][x] = Run(r)[k]
    BY <2>1, <2>2, <2>3
  <2>5. Run(r)[k] = r[1] + k - 1
    BY <1>9
  <2> QED
    BY <2>4, <2>5 DEF x
<1>13. Len(C[j]) \in Nat /\ Len(C[n]) \in Nat
  BY <1>1, <1>5
<1> QED
  BY <1>10, <1>11, <1>12, <1>13 DEF C

(* A sum changes by what one of its terms does.                            *)
LEMMA TotalChange ==
  ASSUME NEW n \in Nat, NEW g \in [1 .. n -> Int], NEW h \in [1 .. n -> Int],
         NEW c \in 1 .. n, \A i \in 1 .. n : i # c => h[i] = g[i]
  PROVE  Total(h) = Total(g) + (h[c] - g[c])
<1> DEFINE G == Partials(g)
           H == Partials(h)
           T == {i \in 0 .. n : H[i] = IF i < c THEN G[i] ELSE G[i] + (h[c] - g[c])}
<1>1. /\ Len(g) = n /\ G \in [0 .. n -> Int] /\ G[0] = 0
      /\ \A i \in 1 .. n : G[i] = G[i - 1] + g[i]
  BY PartialsAre
<1>2. /\ Len(h) = n /\ H \in [0 .. n -> Int] /\ H[0] = 0
      /\ \A i \in 1 .. n : H[i] = H[i - 1] + h[i]
  BY PartialsAre
<1>3. Total(g) = G[n] /\ Total(h) = H[n]
  BY <1>1, <1>2 DEF Total
<1> HIDE DEF G, H
<1>4. 0 \in T
  BY <1>1, <1>2
<1>5. ASSUME NEW i \in 1 .. n, i - 1 \in T PROVE i \in T
  <2>1. i \in 0 .. n /\ i - 1 \in 0 .. n
    OBVIOUS
  <2>2. G[i] = G[i - 1] + g[i] /\ H[i] = H[i - 1] + h[i]
    BY <1>1, <1>2
  <2>3. G[i - 1] \in Int /\ H[i - 1] \in Int /\ g[i] \in Int /\ h[i] \in Int /\ g[c] \in Int /\ h[c] \in Int
    BY <1>1, <1>2, <2>1
  <2>4. H[i - 1] = IF i - 1 < c THEN G[i - 1] ELSE G[i - 1] + (h[c] - g[c])
    BY <1>5
  <2>5. H[i] = IF i < c THEN G[i] ELSE G[i] + (h[c] - g[c])
    <3>1. CASE i < c
      <4> h[i] = g[i] /\ i - 1 < c
        BY <3>1
      <4> QED
        BY <2>2, <2>3, <2>4, <3>1
    <3>2. CASE i = c
      <4> i - 1 < c
        BY <3>2
      <4> QED
        BY <2>2, <2>3, <2>4, <3>2
    <3>3. CASE i > c
      <4> h[i] = g[i] /\ ~(i - 1 < c)
        BY <3>3
      <4> QED
        BY <2>2, <2>3, <2>4, <3>3
    <3> QED
      BY <3>1, <3>2, <3>3
  <2> QED
    BY <2>1, <2>5
<1>6. n \in T
  <2> HIDE DEF T
  <2>1. 0 .. n \subseteq T
    BY <1>4, <1>5, CountUp
  <2>2. n \in 0 .. n
    OBVIOUS
  <2> QED
    BY <2>1, <2>2
<1> QED
  BY <1>3, <1>6

(* A sum of nothing.                                                       *)
LEMMA TotalZero ==
  ASSUME NEW n \in Nat, NEW g \in [1 .. n -> Int], \A i \in 1 .. n : g[i] = 0
  PROVE  Total(g) = 0
<1> DEFINE G == Partials(g)
           T == {i \in 0 .. n : G[i] = 0}
<1>1. Len(g) = n /\ G[0] = 0 /\ \A i \in 1 .. n : G[i] = G[i - 1] + g[i]
  BY PartialsAre
<1> HIDE DEF G
<1>2. 0 \in T
  BY <1>1
<1>3. ASSUME NEW i \in 1 .. n, i - 1 \in T PROVE i \in T
  <2> i \in 0 .. n /\ G[i - 1] = 0
    BY <1>3
  <2> QED
    BY <1>1
<1>4. n \in T
  <2> HIDE DEF T
  <2>1. 0 .. n \subseteq T
    BY <1>2, <1>3, CountUp
  <2>2. n \in 0 .. n
    OBVIOUS
  <2> QED
    BY <2>1, <2>2
<1> QED
  BY <1>1, <1>4 DEF Total, G

(* Sums of bytes are the same whichever way the terms wrapped.             *)
LEMMA TotalWraps ==
  ASSUME NEW n \in Nat, NEW g \in [1 .. n -> Int], NEW h \in [1 .. n -> Int],
         \A i \in 1 .. n : \E m \in Int : h[i] = g[i] + Byte * m
  PROVE  Total(g) \in Int /\ \E m \in Int : Total(h) = Total(g) + Byte * m
<1> DEFINE G == Partials(g)
           H == Partials(h)
           T == {i \in 0 .. n : \E m \in Int : H[i] = G[i] + Byte * m}
<1>1. /\ Len(g) = n /\ G \in [0 .. n -> Int] /\ G[0] = 0
      /\ \A i \in 1 .. n : G[i] = G[i - 1] + g[i]
  BY PartialsAre
<1>2. /\ Len(h) = n /\ H \in [0 .. n -> Int] /\ H[0] = 0
      /\ \A i \in 1 .. n : H[i] = H[i - 1] + h[i]
  BY PartialsAre
<1>3. Total(g) = G[n] /\ Total(h) = H[n]
  BY <1>1, <1>2 DEF Total
<1> HIDE DEF G, H
<1>4. 0 \in T
  <2>1. Byte * 0 = 0 /\ 0 \in 0 .. n
    BY ByteAssumption
  <2>2. H[0] = G[0] + Byte * 0
    BY <1>1, <1>2, <2>1
  <2> QED
    BY <2>1, <2>2
<1>5. ASSUME NEW i \in 1 .. n, i - 1 \in T PROVE i \in T
  <2>1. i \in 0 .. n /\ i - 1 \in 0 .. n
    OBVIOUS
  <2>2. G[i] = G[i - 1] + g[i] /\ H[i] = H[i - 1] + h[i]
    BY <1>1, <1>2
  <2>3. G[i - 1] \in Int /\ H[i - 1] \in Int /\ g[i] \in Int /\ h[i] \in Int
    BY <1>1, <1>2, <2>1
  <2>4. PICK m \in Int : H[i - 1] = G[i - 1] + Byte * m
    BY <1>5
  <2>5. PICK k \in Int : h[i] = g[i] + Byte * k
    OBVIOUS
  <2>6. Byte * (m + k) = Byte * m + Byte * k /\ Byte * m \in Int /\ Byte * k \in Int
    BY ByteAssumption
  <2>7. H[i] = G[i] + Byte * (m + k)
    <3> DEFINE x == Byte * m
               y == Byte * k
               z == Byte * (m + k)
    <3>1. /\ x \in Int /\ y \in Int /\ z = x + y
          /\ H[i - 1] = G[i - 1] + x /\ h[i] = g[i] + y
      BY <2>4, <2>5, <2>6
    <3> HIDE DEF x, y, z
    <3>2. H[i] = G[i] + z
      BY ONLY <2>2, <2>3, <3>1
    <3> QED
      BY <3>2 DEF z
  <2>8. m + k \in Int
    OBVIOUS
  <2> QED
    BY <2>1, <2>7, <2>8
<1>6. n \in T
  <2> HIDE DEF T
  <2>1. 0 .. n \subseteq T
    BY <1>4, <1>5, CountUp
  <2>2. n \in 0 .. n
    OBVIOUS
  <2> QED
    BY <2>1, <2>2
<1>7. G[n] \in Int
  BY <1>1
<1> QED
  BY <1>3, <1>6, <1>7

(* In a sum of ranks weighted by the products of the sizes before, each    *)
(* rank is a digit.                                                        *)
LEMMA DigitIs ==
  ASSUME NEW n \in Nat, NEW rank \in [1 .. n -> Nat], NEW width \in [1 .. n -> Nat],
         \A i \in 1 .. n : rank[i] < width[i],
         NEW C \in [0 .. n -> Nat], C[0] = 1, \A i \in 1 .. n : C[i] = C[i - 1] * width[i],
         NEW g \in [1 .. n -> Int], \A i \in 1 .. n : g[i] = rank[i] * C[i - 1],
         NEW f \in 1 .. n
  PROVE  (Total(g) \div C[f - 1]) % width[f] = rank[f]
<1> DEFINE G == Partials(g)
<1>1. /\ Len(g) = n /\ G \in [0 .. n -> Int] /\ G[0] = 0
      /\ \A i \in 1 .. n : G[i] = G[i - 1] + g[i]
  BY PartialsAre
<1>2. Total(g) = G[n]
  BY <1>1 DEF Total
<1> HIDE DEF G
<1>3. \A i \in 0 .. n : G[i] \in Nat /\ C[i] \in Nat /\ G[i] < C[i]
  <2> DEFINE T == {i \in 0 .. n : G[i] \in Nat /\ G[i] < C[i]}
  <2>1. 0 \in T
    <3>1. 0 \in 0 .. n /\ G[0] \in Nat /\ G[0] < C[0]
      BY ONLY <1>1, n \in Nat, C[0] = 1
    <3> QED
      BY <3>1
  <2>2. ASSUME NEW i \in 1 .. n, i - 1 \in T PROVE i \in T
    <3>1. i \in 0 .. n /\ i - 1 \in 0 .. n
      OBVIOUS
    <3> DEFINE a == G[i - 1]
               b == C[i - 1]
               r == rank[i]
               w == width[i]
    <3>2. a \in Nat /\ a < b /\ b \in Nat /\ r \in Nat /\ w \in Nat /\ r < w
      BY <2>2, <3>1
    <3>3. G[i] = a + r * b /\ C[i] = b * w
      BY <1>1
    <3> HIDE DEF a, b, r, w
    <3>4. b * (r + 1) <= b * w
      <4>1. PICK d \in Nat : w = r + 1 + d
        <5> w - (r + 1) \in Nat /\ w = r + 1 + (w - (r + 1))
          BY <3>2
        <5> QED
          OBVIOUS
      <4>2. b * w = b * (r + 1) + b * d /\ b * d >= 0
        BY <3>2, <4>1
      <4> QED
        BY <3>2, <4>2
    <3>5. b * (r + 1) = r * b + b /\ r * b \in Nat /\ b * w \in Nat
      BY <3>2
    <3>6. a + r * b \in Nat /\ a + r * b < b * w
      <4> DEFINE x == r * b
                 y == b * w
                 z == b * (r + 1)
      <4>1. a \in Nat /\ b \in Nat /\ a < b /\ x \in Nat /\ y \in Nat /\ z = x + b /\ z <= y
        BY <3>2, <3>4, <3>5
      <4> HIDE DEF x, y, z
      <4>2. a + x \in Nat /\ a + x < y
        BY <4>1
      <4> QED
        BY <4>2 DEF x, y
    <3> QED
      BY <3>1, <3>3, <3>6
  <2>3. 0 .. n \subseteq T
    <3> HIDE DEF T
    <3> QED
      BY <2>1, <2>2, CountUp
  <2> QED
    BY <2>3
<1>4. \E q \in Nat : G[n] = G[f] + C[f] * q
  <2> DEFINE T == {i \in 0 .. n : i >= f => /\ \E q \in Nat : G[i] = G[f] + C[f] * q
                                            /\ \E p \in Nat : C[i] = C[f] * p}
  <2>0. f \in 0 .. n /\ G[f] \in Nat /\ C[f] \in Nat
    <3>1. f \in 0 .. n
      OBVIOUS
    <3> QED
      BY ONLY <1>3, <3>1
  <2>1. 0 \in T
    OBVIOUS
  <2>2. ASSUME NEW i \in 1 .. n, i - 1 \in T PROVE i \in T
    <3>1. i \in 0 .. n /\ i - 1 \in 0 .. n
      OBVIOUS
    <3>2. CASE i < f
      BY <3>1, <3>2
    <3>3. CASE i = f
      <4>1. \A a, b \in Nat : a = a + b * 0 /\ b = b * 1
        OBVIOUS
      <4>2. G[f] = G[f] + C[f] * 0 /\ C[f] = C[f] * 1 /\ 0 \in Nat /\ 1 \in Nat
        BY <2>0, <4>1
      <4> QED
        BY <3>1, <3>3, <4>2
    <3>4. CASE i > f
      <4>1. i - 1 >= f
        BY <3>4
      <4>2. PICK q \in Nat : G[i - 1] = G[f] + C[f] * q
        BY <2>2, <4>1
      <4>3. PICK p \in Nat : C[i - 1] = C[f] * p
        BY <2>2, <4>1
      <4> DEFINE a == G[f]
                 b == C[f]
                 r == rank[i]
                 w == width[i]
      <4>4. a \in Nat /\ b \in Nat /\ r \in Nat /\ w \in Nat
        BY <2>0
      <4>5. G[i] = (a + b * q) + r * (b * p) /\ C[i] = (b * p) * w
        BY <1>1, <4>2, <4>3
      <4> HIDE DEF a, b, r, w
      <4>6. (a + b * q) + r * (b * p) = a + b * (q + r * p) /\ (b * p) * w = b * (p * w)
        <5>1. r * (b * p) = b * (r * p) /\ (b * p) * w = b * (p * w)
          BY <4>4
        <5>2. b * (q + r * p) = b * q + b * (r * p)
          BY <4>4
        <5> DEFINE x == b * q
                   y == b * (r * p)
                   z == r * (b * p)
        <5>3. x \in Nat /\ y \in Nat /\ z = y /\ b * (q + r * p) = x + y
          BY <4>4, <5>1, <5>2
        <5> HIDE DEF x, y, z
        <5>4. (a + x) + z = a + (x + y)
          BY <4>4, <5>3
        <5> QED
          BY <5>1, <5>3, <5>4 DEF x, z
      <4>7. q + r * p \in Nat /\ p * w \in Nat
        <5>1. \A x, y \in Nat : x * y \in Nat
          OBVIOUS
        <5>2. r * p \in Nat /\ p * w \in Nat /\ q \in Nat
          BY <4>4, <5>1
        <5> DEFINE x == r * p
        <5>3. x \in Nat /\ q \in Nat
          BY <5>2
        <5> HIDE DEF x
        <5>4. q + x \in Nat
          BY ONLY <5>3
        <5> QED
          BY ONLY <5>2, <5>4 DEF x
      <4>8. G[i] = a + b * (q + r * p) /\ C[i] = b * (p * w)
        BY <4>5, <4>6
      <4> QED
        BY <3>1, <4>7, <4>8 DEF a, b
    <3> QED
      BY <3>2, <3>3, <3>4
  <2>3. 0 .. n \subseteq T
    <3> HIDE DEF T
    <3> QED
      BY <2>1, <2>2, CountUp
  <2>4. n \in 0 .. n /\ n >= f
    OBVIOUS
  <2> QED
    BY <2>3, <2>4
<1>5. PICK q \in Nat : G[n] = G[f] + C[f] * q
  BY <1>4
<1> DEFINE a == G[f - 1]
           b == C[f - 1]
           r == rank[f]
           w == width[f]
<1>6. a \in Nat /\ b \in Nat /\ a < b /\ r \in Nat /\ w \in Nat /\ r < w
  <2> f - 1 \in 0 .. n
    OBVIOUS
  <2> QED
    BY <1>3
<1>7. G[n] = (a + r * b) + (b * w) * q
  BY <1>1, <1>5
<1>8. Total(g) = (a + r * b) + (b * w) * q
  BY <1>2, <1>7
<1> HIDE DEF a, b, r, w
<1>9. (a + r * b) + (b * w) * q = a + b * (r + w * q)
  BY <1>6
<1>10. r + w * q \in Int /\ b \in Nat \ {0} /\ a \in 0 .. b - 1 /\ w \in Nat \ {0} /\ r \in 0 .. w - 1
  BY <1>6
<1>11. (a + b * (r + w * q)) \div b = r + w * q
  <2> DEFINE e == r + w * q
  <2>1. e \in Int
    BY <1>10
  <2> HIDE DEF e
  <2>2. (a + b * e) \div b = e
    BY <1>10, <2>1, Quotient
  <2> QED
    BY <2>2 DEF e
<1>12. (r + w * q) % w = r
  <2>1. q \in Int /\ w \in Nat \ {0} /\ r \in 0 .. w - 1
    BY <1>10
  <2> QED
    BY <2>1, Quotient, Zenon
<1>13. (Total(g) \div b) % w = r
  BY <1>8, <1>9, <1>11, <1>12
<1> QED
  BY <1>13 DEF b, w, r

Types == {"c", "h", "i", "I", "none"}
RuleField == [type : Types, ranges : Seq(Octet \X Octet) \ {<<>>}, scale : Nat]

(* How far a number is above another, when bytes wrap.                     *)
Distance(lo, x) == IF x >= lo THEN x - lo ELSE x - lo + Byte

(* The rank of the value of a field among those it has.                    *)
RankOf(fld, v) ==
  CASE fld.type = "c" -> v.index
    [] fld.type \in Numeric -> Distance(fld.ranges[1][1], v.value)
    [] OTHER -> 0

FieldOK(fld, v) ==
  /\ v \in [range : Nat, value : Int, index : Nat]
  /\ fld.type = "c" =>
       LET r == fld.ranges[v.range]
       IN /\ v.range \in 1 .. Len(fld.ranges)
          /\ v.value >= r[1] /\ v.value < r[1] + Span(r[1], r[2])
          /\ v.index = Len(Chars(fld.ranges)[v.range - 1]) + (v.value - r[1])
  /\ fld.type \in Numeric =>
       /\ v.value \in Octet
       /\ Distance(fld.ranges[1][1], v.value) <= Distance(fld.ranges[1][1], fld.ranges[1][2])
  /\ fld.type \notin Numeric \cup {"c"} => v.value = fld.ranges[1][1]

(* A number that left the bytes by less than 256.                          *)
LEMMA Wraps ==
  ASSUME NEW x \in Int
  PROVE  /\ x >= 0 /\ x < Byte => x % Byte = x
         /\ x >= Byte /\ x < 2 * Byte => x % Byte = x - Byte
         /\ x < 0 /\ x >= -Byte => x % Byte = x + Byte
<1> USE ByteAssumption
<1>1. CASE x >= 0 /\ x < Byte
  <2>1. x \in 0 .. Byte - 1 /\ Byte * 0 = 0 /\ x + Byte * 0 = x
    BY <1>1
  <2>2. (x + Byte * 0) % Byte = x
    BY <2>1, Quotient
  <2> QED
    BY <1>1, <2>1, <2>2
<1>2. CASE x >= Byte /\ x < 2 * Byte
  <2>1. x - Byte \in 0 .. Byte - 1 /\ (x - Byte) + Byte * 1 = x
    BY <1>2
  <2>2. ((x - Byte) + Byte * 1) % Byte = x - Byte
    BY <2>1, Quotient
  <2> QED
    BY <1>2, <2>1, <2>2
<1>3. CASE x < 0 /\ x >= -Byte
  <2>1. x + Byte \in 0 .. Byte - 1 /\ (x + Byte) + Byte * (-1) = x
    BY <1>3
  <2>2. ((x + Byte) + Byte * (-1)) % Byte = x + Byte
    BY <2>1, Quotient
  <2> QED
    BY <1>3, <2>1, <2>2
<1> QED
  BY <1>1, <1>2, <1>3

(* The numbers of a range, which may wrap around.                          *)
LEMMA NumbersAre ==
  ASSUME NEW lo \in Octet, NEW hi \in Octet
  PROVE  /\ Distance(lo, hi) \in Nat /\ Distance(lo, hi) < Byte
         /\ Len(Numbers(lo, hi)) = Distance(lo, hi) + 1
         /\ \A k \in 0 .. Distance(lo, hi) :
              Numbers(lo, hi)[k + 1] = IF lo + k < Byte THEN lo + k ELSE lo + k - Byte
<1> DEFINE d == Distance(lo, hi)
           N == [k \in 1 .. d + 1 |-> (lo + k - 1) % Byte]
<1>1. lo \in Nat /\ hi \in Nat /\ lo < Byte /\ hi < Byte /\ Byte \in Nat
  BY ByteAssumption DEF Octet
<1>2. d \in Nat /\ d < Byte
  BY <1>1 DEF Distance
<1>3. (hi - lo) % Byte = d
  <2>1. hi - lo \in Int /\ hi - lo < Byte /\ hi - lo >= -Byte
    BY <1>1
  <2>2. CASE hi >= lo
    <3> hi - lo >= 0
      BY <1>1, <2>2
    <3> QED
      BY <2>1, <2>2, Wraps DEF Distance
  <2>3. CASE ~(hi >= lo)
    <3> hi - lo < 0
      BY <1>1, <2>3
    <3> QED
      BY <2>1, <2>3, Wraps DEF Distance
  <2> QED
    BY <2>2, <2>3
<1>4. Numbers(lo, hi) = N
  BY <1>3 DEF Numbers
<1> HIDE DEF d
<1>5. Len(N) = d + 1
  BY <1>2
<1>6. ASSUME NEW k \in 0 .. d
      PROVE  N[k + 1] = IF lo + k < Byte THEN lo + k ELSE lo + k - Byte
  <2>1. k + 1 \in 1 .. d + 1 /\ lo + (k + 1) - 1 = lo + k /\ lo + k \in Int
        /\ lo + k >= 0 /\ lo + k < 2 * Byte
    BY <1>1, <1>2
  <2>2. N[k + 1] = (lo + (k + 1) - 1) % Byte
    BY <2>1
  <2> HIDE DEF N
  <2>3. N[k + 1] = (lo + k) % Byte
    BY <2>1, <2>2
  <2>4. CASE lo + k < Byte
    BY <2>1, <2>3, <2>4, Wraps
  <2>5. CASE lo + k >= Byte
    <3>1. ~(lo + k < Byte)
      BY <1>1, <2>5
    <3>2. (lo + k) % Byte = lo + k - Byte
      <4> DEFINE x == lo + k
      <4>1. x \in Int /\ x >= Byte /\ x < 2 * Byte
        BY <2>1, <2>5
      <4> HIDE DEF x
      <4>2. x % Byte = x - Byte
        BY <4>1, Wraps
      <4> QED
        BY <1>1, <1>2, <4>2 DEF x
    <3> QED
      BY <2>3, <3>1, <3>2
  <2> QED
    BY <1>1, <2>1, <2>4, <2>5
<1> HIDE DEF N
<1> QED
  BY <1>2, <1>4, <1>5, <1>6 DEF d

(* What a field of a rule consists of.                                     *)
LEMMA FieldTyped ==
  ASSUME NEW fld \in RuleField
  PROVE  /\ fld.type \in Types /\ fld.scale \in Nat
         /\ fld.ranges \in Seq(Octet \X Octet) /\ Len(fld.ranges) \in Nat /\ Len(fld.ranges) >= 1
         /\ \A i \in 1 .. Len(fld.ranges) :
              fld.ranges[i] \in Octet \X Octet /\ fld.ranges[i][1] \in Octet /\ fld.ranges[i][2] \in Octet
<1>1. fld.type \in Types /\ fld.scale \in Nat /\ fld.ranges \in Seq(Octet \X Octet) /\ fld.ranges # <<>>
  BY DEF RuleField
<1> DEFINE s == fld.ranges
<1>2. s \in Seq(Octet \X Octet) /\ s # <<>>
  BY <1>1
<1> HIDE DEF s
<1>3. Len(s) \in Nat /\ Len(s) >= 1
  BY <1>2
<1>4. \A i \in 1 .. Len(s) : s[i] \in Octet \X Octet
  BY <1>2
<1>5. \A p \in Octet \X Octet : p[1] \in Octet /\ p[2] \in Octet
  OBVIOUS
<1> QED
  BY <1>1, <1>3, <1>4, <1>5 DEF s

(* The values of a field of numbers, and their ranks.                      *)
LEMMA NumericTells ==
  ASSUME NEW fld \in RuleField, fld.type \in Numeric, NEW v, FieldOK(fld, v)
  PROVE  LET lo == fld.ranges[1][1]
             hi == fld.ranges[1][2]
         IN /\ lo \in Octet /\ hi \in Octet /\ v.value \in Octet
            /\ RankOf(fld, v) = Distance(lo, v.value)
            /\ Values(fld) = Numbers(lo, hi)
            /\ Distance(lo, v.value) \in Nat /\ Distance(lo, v.value) <= Distance(lo, hi)
<1>1. fld.type # "c"
  BY DEF Numeric
<1>2. fld.ranges[1][1] \in Octet /\ fld.ranges[1][2] \in Octet
  BY FieldTyped
<1>3. RankOf(fld, v) = Distance(fld.ranges[1][1], v.value)
  BY <1>1 DEF RankOf
<1>4. Values(fld) = Numbers(fld.ranges[1][1], fld.ranges[1][2])
  BY <1>1 DEF Values
<1>5. v.value \in Octet /\ Distance(fld.ranges[1][1], v.value) <= Distance(fld.ranges[1][1], fld.ranges[1][2])
  BY DEF FieldOK
<1> QED
  BY <1>2, <1>3, <1>4, <1>5, NumbersAre

(* The value of a field of characters, and its rank.                       *)
LEMMA CharTells ==
  ASSUME NEW fld \in RuleField, fld.type = "c", NEW v, FieldOK(fld, v)
  PROVE  LET C == Chars(fld.ranges)
             n == Len(fld.ranges)
             r == fld.ranges[v.range]
         IN /\ RankOf(fld, v) = v.index /\ Values(fld) = C[n]
            /\ r[1] \in Int /\ r[2] \in Int /\ v.value \in Int /\ n \in Nat
            /\ v.range \in 1 .. n
            /\ v.value >= r[1] /\ v.value < r[1] + Span(r[1], r[2])
            /\ Len(C[v.range - 1]) \in Nat /\ Len(C[v.range]) \in Nat /\ Len(C[n]) \in Nat
            /\ v.index = Len(C[v.range - 1]) + (v.value - r[1])
            /\ Len(C[v.range]) = Len(C[v.range - 1]) + Span(r[1], r[2])
            /\ Len(C[v.range]) <= Len(C[n])
            /\ C[n][v.index + 1] = v.value
<1> DEFINE C == Chars(fld.ranges)
           n == Len(fld.ranges)
           j == v.range
           r == fld.ranges[j]
           m == Span(r[1], r[2])
           x == v.value
<1>1. n \in Nat /\ fld.ranges \in Seq(Octet \X Octet)
  BY FieldTyped
<1>2. /\ j \in 1 .. n /\ x >= r[1] /\ x < r[1] + m
      /\ v.index = Len(C[j - 1]) + (x - r[1]) /\ x \in Int
  BY DEF FieldOK
<1>3. r[1] \in Int /\ r[2] \in Int
  BY <1>2, FieldTyped, OctetIs
<1>4. m \in Nat
  BY <1>3, SpanIs
<1>5. /\ Len(C[j - 1]) \in Nat /\ Len(C[j]) \in Nat /\ Len(C[n]) \in Nat
      /\ Len(C[j]) = Len(C[j - 1]) + m
      /\ Len(C[j]) <= Len(C[n])
      /\ \A k \in 1 .. m : C[n][Len(C[j - 1]) + k] = r[1] + k - 1
  BY <1>1, <1>2, CharAt
<1>6. RankOf(fld, v) = v.index
  BY DEF RankOf, Numeric
<1>7. Values(fld) = C[n]
  BY DEF Values, Numeric
<1> HIDE DEF C, n, j, r, m, x
<1>8. C[n][v.index + 1] = x
  <2>1. (x - r[1]) + 1 \in 1 .. m
    BY <1>2, <1>3, <1>4
  <2>2. C[n][Len(C[j - 1]) + ((x - r[1]) + 1)] = r[1] + ((x - r[1]) + 1) - 1
    BY <1>5, <2>1
  <2>3. Len(C[j - 1]) + ((x - r[1]) + 1) = v.index + 1 /\ r[1] + ((x - r[1]) + 1) - 1 = x
    BY <1>2, <1>3, <1>5
  <2> QED
    BY <2>2, <2>3
<1> QED
  BY <1>1, <1>2, <1>3, <1>5, <1>6, <1>7, <1>8 DEF C, n, j, r, m, x

(* A field has the value of its rank.                                      *)
LEMMA RankTells ==
  ASSUME NEW fld \in RuleField, NEW v, FieldOK(fld, v)
  PROVE  /\ RankOf(fld, v) \in Nat /\ Len(Values(fld)) \in Nat
         /\ RankOf(fld, v) < Len(Values(fld))
         /\ Values(fld)[RankOf(fld, v) + 1] = v.value
<1>1. CASE fld.type = "c"
  <2> DEFINE C == Chars(fld.ranges)
             n == Len(fld.ranges)
             r == fld.ranges[v.range]
             m == Span(r[1], r[2])
  <2>1. /\ RankOf(fld, v) = v.index /\ Values(fld) = C[n]
        /\ r[1] \in Int /\ r[2] \in Int /\ v.value \in Int
        /\ v.value >= r[1] /\ v.value < r[1] + m
        /\ Len(C[v.range - 1]) \in Nat /\ Len(C[v.range]) \in Nat /\ Len(C[n]) \in Nat
        /\ v.index = Len(C[v.range - 1]) + (v.value - r[1])
        /\ Len(C[v.range]) = Len(C[v.range - 1]) + m
        /\ Len(C[v.range]) <= Len(C[n])
        /\ C[n][v.index + 1] = v.value
    BY <1>1, CharTells
  <2>2. m \in Nat
    BY <2>1, SpanIs
  <2> DEFINE a == Len(C[v.range - 1])
             b == Len(C[v.range])
             c == Len(C[n])
             lo == r[1]
  <2>3. /\ lo \in Int /\ v.value \in Int /\ v.value >= lo /\ v.value < lo + m
        /\ a \in Nat /\ b \in Nat /\ c \in Nat /\ v.index = a + (v.value - lo) /\ b = a + m /\ b <= c
    BY <2>1
  <2> HIDE DEF a, b, c, lo, m
  <2>4. v.index \in Nat /\ v.index < c
    BY <2>2, <2>3
  <2> QED
    BY <2>1, <2>3, <2>4 DEF c
<1>2. CASE fld.type \in Numeric
  <2> DEFINE lo == fld.ranges[1][1]
             hi == fld.ranges[1][2]
             x == v.value
             d == Distance(lo, x)
  <2>1. /\ lo \in Octet /\ hi \in Octet /\ x \in Octet
        /\ RankOf(fld, v) = d /\ Values(fld) = Numbers(lo, hi)
        /\ d \in Nat /\ d <= Distance(lo, hi)
    BY <1>2, NumericTells
  <2> HIDE DEF lo, hi, x
  <2>2. /\ Distance(lo, hi) \in Nat /\ Len(Numbers(lo, hi)) = Distance(lo, hi) + 1
        /\ \A k \in 0 .. Distance(lo, hi) :
             Numbers(lo, hi)[k + 1] = IF lo + k < Byte THEN lo + k ELSE lo + k - Byte
    BY <2>1, NumbersAre
  <2>3. Numbers(lo, hi)[d + 1] = IF lo + d < Byte THEN lo + d ELSE lo + d - Byte
    <3> d \in 0 .. Distance(lo, hi)
      BY <2>1, <2>2
    <3> QED
      BY <2>2
  <2>4. (IF lo + d < Byte THEN lo + d ELSE lo + d - Byte) = x
    <3> lo \in Nat /\ x \in Nat /\ lo < Byte /\ x < Byte /\ Byte \in Nat
      BY <2>1, ByteAssumption DEF Octet
    <3> QED
      BY DEF Distance
  <2>5. d < Distance(lo, hi) + 1
    BY <2>1, <2>2
  <2> HIDE DEF d
  <2> QED
    BY <2>1, <2>2, <2>3, <2>4, <2>5 DEF x
<1>3. CASE fld.type \notin Numeric \cup {"c"}
  <2>1. RankOf(fld, v) = 0 /\ Values(fld) = <<fld.ranges[1][1]>>
    BY <1>3 DEF RankOf, Values
  <2>2. v.value = fld.ranges[1][1]
    BY <1>3 DEF FieldOK
  <2> DEFINE x == fld.ranges[1][1]
  <2>3. Len(<<x>>) = 1 /\ <<x>>[0 + 1] = x
    OBVIOUS
  <2> QED
    BY <2>1, <2>2, <2>3
<1> QED
  BY <1>1, <1>2, <1>3

(* The last character of a range.                                          *)
LEMMA SpanEnd ==
  ASSUME NEW lo \in Int, NEW hi \in Int, NEW x \in Int, x >= lo, x < lo + Span(lo, hi)
  PROVE  x >= hi <=> x + 1 = lo + Span(lo, hi)
  BY DEF Span

(* A field begins with the first of its values.                            *)
LEMMA FirstOK ==
  ASSUME NEW fld \in RuleField
  PROVE  FieldOK(fld, AtFirst(fld)) /\ RankOf(fld, AtFirst(fld)) = 0
<1> DEFINE v == AtFirst(fld)
           r == fld.ranges[1]
<1>1. /\ fld.ranges \in Seq(Octet \X Octet) /\ Len(fld.ranges) \in Nat
      /\ 1 \in 1 .. Len(fld.ranges) /\ r[1] \in Octet /\ r[2] \in Octet
  BY FieldTyped
<1>2. r[1] \in Int /\ r[2] \in Int /\ Span(r[1], r[2]) \in Nat /\ Span(r[1], r[2]) >= 1
  BY <1>1, OctetIs, SpanIs
<1>3. v = [range |-> 1, value |-> r[1], index |-> 0]
  BY DEF AtFirst
<1> HIDE DEF v
<1>4. v.range = 1 /\ v.value = r[1] /\ v.index = 0 /\ v \in [range : Nat, value : Int, index : Nat]
  BY <1>2, <1>3
<1>5. Distance(r[1], r[1]) = 0
  BY <1>2 DEF Distance
<1>6. Distance(r[1], r[2]) \in Nat
  BY <1>1, NumbersAre
<1>7. RankOf(fld, v) = 0
  BY <1>4, <1>5 DEF RankOf, Numeric
<1>8. v.index = Len(Chars(fld.ranges)[v.range - 1]) + (v.value - r[1])
  <2>1. Chars(fld.ranges)[0] = <<>>
    BY <1>1, CharsAre
  <2>2. v.range - 1 = 0 /\ Len(<<>>) = 0 /\ v.value - r[1] = 0
    BY <1>2, <1>4
  <2>3. Chars(fld.ranges)[v.range - 1] = <<>>
    BY <2>1, <2>2
  <2>4. Len(Chars(fld.ranges)[v.range - 1]) = 0
    BY <2>2, <2>3
  <2> QED
    BY <1>4, <2>2, <2>4
<1>9. v.value >= r[1] /\ v.value < r[1] + Span(r[1], r[2])
  BY <1>2, <1>4
<1>10. Distance(r[1], v.value) <= Distance(r[1], r[2])
  BY <1>4, <1>5, <1>6
<1>11. FieldOK(fld, v)
  BY <1>1, <1>4, <1>8, <1>9, <1>10 DEF FieldOK
<1> QED
  BY <1>7, <1>11 DEF v

(* A field goes to its next value; after the last one it carries and       *)
(* begins again.                                                           *)
LEMMA NextOK ==
  ASSUME NEW f, rule[f] \in RuleField, FieldOK(rule[f], var[f])
  PROVE  /\ FieldOK(rule[f], Next1(f))
         /\ RankOf(rule[f], Next1(f)) = IF Carries(f) THEN 0 ELSE RankOf(rule[f], var[f]) + 1
         /\ Carries(f) => RankOf(rule[f], var[f]) + 1 = Len(Values(rule[f]))
<1> DEFINE fld == rule[f]
           v == var[f]
           w == Next1(f)
<1>1. fld \in RuleField /\ FieldOK(fld, v)
  OBVIOUS
<1>2. v \in [range : Nat, value : Int, index : Nat]
  BY <1>1 DEF FieldOK
<1>3. CASE fld.type = "c"
  <2> DEFINE C == Chars(fld.ranges)
             n == Len(fld.ranges)
             j == v.range
             lo == fld.ranges[j][1]
             hi == fld.ranges[j][2]
             m == Span(lo, hi)
             x == v.value
             k == v.index
             a == Len(C[j - 1])
             b == Len(C[j])
             s == fld.ranges[j + 1]
  <2>1. /\ RankOf(fld, v) = k /\ Values(fld) = C[n]
        /\ lo \in Int /\ hi \in Int /\ x \in Int /\ n \in Nat
        /\ j \in 1 .. n
        /\ x >= lo /\ x < lo + m
        /\ a \in Nat /\ b \in Nat
        /\ k = a + (x - lo)
        /\ b = a + m
    BY <1>1, <1>3, CharTells
  <2>2. v.range = j /\ v.value = x /\ v.index = k /\ k \in Nat
    BY <1>2
  <2>3. w = NextChar(f) /\ (Carries(f) <=> j = n /\ x >= hi)
    BY <1>3 DEF Next1, Carries, Numeric
  <2>4. /\ x < hi => w = [v EXCEPT !.value = @ + 1, !.index = @ + 1]
        /\ ~(x < hi) /\ x >= hi /\ j < n =>
              w = [range |-> j + 1, value |-> s[1], index |-> k + 1]
        /\ ~(x < hi) /\ ~(j < n) => w = AtFirst(fld)
    <3>1. ASSUME x < hi
          PROVE  w = [v EXCEPT !.value = @ + 1, !.index = @ + 1]
      <4> DEFINE up == [v EXCEPT !.value = @ + 1, !.index = @ + 1]
                 P == x < hi
                 Q == x >= hi /\ j < n
                 t == [range |-> j + 1, value |-> s[1], index |-> k + 1]
      <4>1. NextChar(f) = CASE P -> up [] Q -> t [] OTHER -> AtFirst(fld)
        BY DEF NextChar
      <4>2. P /\ ~Q
        <5>1. x \in Int /\ hi \in Int
          BY <2>1
        <5> HIDE DEF x, hi, j, n
        <5> QED
          BY <3>1, <5>1
      <4> HIDE DEF up, P, Q, t
      <4>3. NextChar(f) = up
        BY <4>1, <4>2
      <4> QED
        BY <2>3, <4>3 DEF up
    <3>2. ASSUME ~(x < hi), x >= hi, j < n
          PROVE  w = [range |-> j + 1, value |-> s[1], index |-> k + 1]
      BY <2>3, <3>2 DEF NextChar
    <3>3. ASSUME ~(x < hi), ~(j < n)
          PROVE  w = AtFirst(fld)
      BY <2>3, <3>3 DEF NextChar
    <3> HIDE DEF w, C, n, j, lo, hi, m, x, k, a, b
    <3> QED
      BY <3>1, <3>2, <3>3
  <2>5. \A i \in 1 .. n : fld.ranges[i][1] \in Int /\ fld.ranges[i][2] \in Int
    BY <1>1, FieldTyped, OctetIs
  <2>6. /\ \A u : FieldOK(fld, u) <=>
               /\ u \in [range : Nat, value : Int, index : Nat]
               /\ u.range \in 1 .. n
               /\ u.value >= fld.ranges[u.range][1]
               /\ u.value < fld.ranges[u.range][1]
                              + Span(fld.ranges[u.range][1], fld.ranges[u.range][2])
               /\ u.index = Len(C[u.range - 1]) + (u.value - fld.ranges[u.range][1])
        /\ \A u : RankOf(fld, u) = u.index
    BY <1>3 DEF FieldOK, RankOf, Numeric
  <2>7. lo = fld.ranges[j][1] /\ hi = fld.ranges[j][2] /\ m = Span(lo, hi) /\ a = Len(C[j - 1])
        /\ b = Len(C[j])
    OBVIOUS
  <2> HIDE DEF w, C, n, j, lo, hi, m, x, k, a, b
  <2>8. m \in Nat /\ (x >= hi <=> x + 1 = lo + m)
    <3>1. /\ lo \in Int /\ hi \in Int /\ x \in Int /\ m = Span(lo, hi)
          /\ x >= lo /\ x < lo + Span(lo, hi)
      BY <2>1, <2>7
    <3> QED
      BY ONLY <3>1, SpanIs, SpanEnd
  <2>9. x \in Int /\ hi \in Int /\ (x < hi \/ x >= hi) /\ ~(x < hi /\ x >= hi)
    BY <2>1
  <2>10. CASE x < hi
    <3>1. w = [v EXCEPT !.value = x + 1, !.index = k + 1]
      BY <2>2, <2>4, <2>10
    <3>2. x + 1 \in Int /\ k + 1 \in Nat
      BY <2>1, <2>2
    <3>3. /\ w.range = j /\ w.value = x + 1 /\ w.index = k + 1
          /\ w \in [range : Nat, value : Int, index : Nat]
      BY <1>2, <2>2, <3>1, <3>2
    <3>4. x + 1 >= lo /\ x + 1 < lo + m /\ k + 1 = a + ((x + 1) - lo)
      BY <2>1, <2>2, <2>8, <2>9, <2>10
    <3>5. FieldOK(fld, w) /\ RankOf(fld, w) = k + 1
      BY <2>1, <2>6, <2>7, <3>3, <3>4
    <3>6. ~Carries(f)
      BY <2>3, <2>9, <2>10
    <3> QED
      BY <2>1, <3>5, <3>6 DEF w
  <2>11. CASE ~(x < hi) /\ j < n
    <3>1. w = [range |-> j + 1, value |-> s[1], index |-> k + 1]
      BY <2>4, <2>9, <2>11
    <3>2. j + 1 \in 1 .. n /\ j + 1 \in Nat /\ j # n /\ k + 1 \in Nat
      BY <2>1, <2>2, <2>11
    <3>3. s[1] \in Int /\ s[2] \in Int
      BY <2>5, <3>2
    <3>4. s[1] >= s[1] /\ s[1] < s[1] + Span(s[1], s[2])
      <4>1. \A y, z \in Int : y >= y /\ y < y + Span(y, z)
        BY DEF Span
      <4> QED
        BY <3>3, <4>1, Zenon
    <3> DEFINE t == s[1]
               p == j + 1
    <3>5. p - 1 = j /\ t - t = 0 /\ k + 1 = b
      <4>1. x + 1 = lo + m
        BY <2>8, <2>9, <2>11
      <4>2. t \in Int /\ j \in Int
        BY <2>1, <3>3
      <4> HIDE DEF t
      <4> QED
        BY <2>1, <2>8, <4>1, <4>2
    <3>6. t \in Int /\ p \in Nat /\ p \in 1 .. n
      BY <3>2, <3>3
    <3>7. s = fld.ranges[p]
      OBVIOUS
    <3> HIDE DEF t, p
    <3>8. w = [range |-> p, value |-> t, index |-> k + 1]
      BY <3>1 DEF t, p
    <3>9. /\ w.range = p /\ w.value = t /\ w.index = k + 1
          /\ w \in [range : Nat, value : Int, index : Nat]
      BY <3>2, <3>6, <3>8
    <3>10. k + 1 = Len(C[p - 1]) + (t - t)
      <4>1. b = Len(C[p - 1]) /\ b \in Nat
        BY <2>1, <2>7, <3>5
      <4>2. t - t = 0 /\ k + 1 = b
        BY <3>5
      <4> HIDE DEF b
      <4>3. b + 0 = b
        BY ONLY <4>1
      <4> QED
        BY ONLY <4>1, <4>2, <4>3
    <3>11. FieldOK(fld, w) /\ RankOf(fld, w) = k + 1
      BY <2>6, <3>4, <3>6, <3>7, <3>9, <3>10 DEF t
    <3>12. ~Carries(f)
      BY <2>3, <3>2
    <3> QED
      BY <2>1, <3>11, <3>12 DEF w
  <2>12. CASE ~(x < hi) /\ ~(j < n)
    <3>1. w = AtFirst(fld)
      BY <2>4, <2>12
    <3>2. FieldOK(fld, w) /\ RankOf(fld, w) = 0
      BY <1>1, <3>1, FirstOK
    <3>3. j = n /\ x >= hi
      BY <2>1, <2>9, <2>12
    <3>4. k + 1 = b
      BY <2>1, <2>8, <3>3
    <3>5. b = Len(Values(fld)) /\ Carries(f)
      BY <2>1, <2>3, <2>7, <3>3
    <3> QED
      BY <2>1, <3>2, <3>4, <3>5 DEF w
  <2> QED
    BY <2>10, <2>11, <2>12
<1>4. CASE fld.type \in Numeric
  <2> DEFINE lo == fld.ranges[1][1]
             hi == fld.ranges[1][2]
             x == v.value
  <2>1. /\ lo \in Octet /\ hi \in Octet /\ x \in Octet
        /\ RankOf(fld, v) = Distance(lo, x) /\ Values(fld) = Numbers(lo, hi)
        /\ Distance(lo, x) \in Nat /\ Distance(lo, x) <= Distance(lo, hi)
    BY <1>1, <1>4, NumericTells
  <2>2. lo \in Nat /\ hi \in Nat /\ x \in Nat /\ lo < Byte /\ hi < Byte /\ x < Byte /\ Byte \in Nat
    BY <2>1, ByteAssumption DEF Octet
  <2>3. Len(Numbers(lo, hi)) = Distance(lo, hi) + 1
    BY <2>1, NumbersAre
  <2>4. w = NextNumber(f) /\ (Carries(f) <=> x = hi)
    BY <1>4 DEF Next1, Carries, Numeric
  <2>5. CASE x = hi
    <3>1. w = [v EXCEPT !.value = lo]
      BY <2>4, <2>5 DEF NextNumber
    <3>2. w.value = lo /\ w \in [range : Nat, value : Int, index : Nat]
      BY <1>2, <2>2, <3>1
    <3> HIDE DEF w, v, fld, lo, hi, x
    <3>3. Distance(lo, lo) = 0 /\ 0 <= Distance(lo, hi)
      BY <2>1, <2>2, <2>5 DEF Distance
    <3>4. FieldOK(fld, w)
      BY <1>4, <2>1, <3>2, <3>3 DEF FieldOK, Numeric, lo, hi
    <3>5. RankOf(fld, w) = 0
      BY <1>4, <3>2, <3>3 DEF RankOf, Numeric, lo
    <3> QED
      BY <2>1, <2>3, <2>4, <2>5, <3>4, <3>5 DEF fld, v, w
  <2>6. CASE x # hi
    <3> DEFINE y == (x + 1) % Byte
    <3>1. w = [v EXCEPT !.value = y]
      BY <2>4, <2>6 DEF NextNumber
    <3>2. y = IF x + 1 < Byte THEN x + 1 ELSE 0
      <4>1. CASE x + 1 < Byte
        BY <2>2, <4>1, Wraps
      <4>2. CASE ~(x + 1 < Byte)
        <5>1. x + 1 >= Byte /\ x + 1 < 2 * Byte /\ (x + 1) - Byte = 0
          BY <2>2, <4>2
        <5> QED
          BY <2>2, <4>2, <5>1, Wraps
      <4> QED
        BY <4>1, <4>2
    <3>3. y \in Octet /\ y \in Int
      <4> HIDE DEF y
      <4> QED
        BY <2>2, <3>2 DEF Octet
    <3>4. w.value = y /\ w \in [range : Nat, value : Int, index : Nat]
      BY <1>2, <3>1, <3>3
    <3> HIDE DEF w, v, fld, lo, hi, x, y
    <3>5. Distance(lo, y) = Distance(lo, x) + 1 /\ Distance(lo, y) <= Distance(lo, hi)
      BY <2>1, <2>2, <2>6, <3>2 DEF Distance
    <3>6. FieldOK(fld, w)
      BY <1>4, <3>3, <3>4, <3>5 DEF FieldOK, Numeric, lo, hi
    <3>7. RankOf(fld, w) = Distance(lo, y)
      BY <1>4, <3>4 DEF RankOf, Numeric, lo
    <3> QED
      BY <2>1, <2>4, <2>6, <3>5, <3>6, <3>7 DEF fld, v, w
  <2> QED
    BY <2>5, <2>6
<1>5. CASE fld.type \notin Numeric \cup {"c"}
  <2>1. w = v /\ Carries(f)
    BY <1>5 DEF Next1, Carries, Numeric
  <2>2. RankOf(fld, v) = 0 /\ Values(fld) = <<fld.ranges[1][1]>>
    BY <1>5 DEF RankOf, Values, Numeric
  <2>3. Len(<<fld.ranges[1][1]>>) = 1
    OBVIOUS
  <2> QED
    BY <1>1, <2>1, <2>2, <2>3
<1> QED
  BY <1>3, <1>4, <1>5

(* What a field with a given value has to add to the minor.                *)
Rated(fld, v) ==
  IF fld.type \in Numeric \cup {"c"} THEN RankOf(fld, v) * fld.scale ELSE 0

(* What the code adds is that, up to a byte that wrapped.                  *)
LEMMA OffsetIs ==
  ASSUME NEW f, rule[f] \in RuleField, FieldOK(rule[f], var[f])
  PROVE  /\ Offset(f) \in Int /\ Rated(rule[f], var[f]) \in Int
         /\ \E m \in Int : Offset(f) = Rated(rule[f], var[f]) + Byte * m
<1> DEFINE fld == rule[f]
           v == var[f]
           k == fld.scale
<1>1. k \in Nat /\ RankOf(fld, v) \in Nat
  BY FieldTyped, RankTells
<1>2. Byte * 0 = 0 /\ Byte \in Int
  BY ByteAssumption
<1>3. CASE fld.type = "c"
  <2>1. Offset(f) = v.index * k
    BY <1>3 DEF Offset, Numeric
  <2>2. Rated(fld, v) = v.index * k /\ RankOf(fld, v) = v.index
    BY <1>3 DEF Rated, RankOf, Numeric
  <2> DEFINE p == v.index * k
  <2>3. p \in Int
    BY <1>1, <2>2
  <2> HIDE DEF p
  <2>4. p = p + Byte * 0
    BY <1>2, <2>3
  <2> QED
    BY <2>1, <2>2, <2>3, <2>4 DEF p
<1>4. CASE fld.type \in Numeric
  <2> DEFINE lo == fld.ranges[1][1]
             x == v.value
             d == Distance(lo, x)
  <2>1. lo \in Octet /\ x \in Octet /\ RankOf(fld, v) = d
    BY <1>4, NumericTells
  <2>2. lo \in Int /\ x \in Int
    BY <2>1, OctetIs
  <2>3. Offset(f) = (x - lo) * k
    BY <1>4 DEF Offset, Numeric
  <2>4. Rated(fld, v) = d * k
    BY <1>4, <2>1 DEF Rated
  <2> HIDE DEF k, lo, x
  <2>5. (x - lo) * k \in Int /\ d * k \in Int
    BY <1>1, <1>2, <2>1, <2>2
  <2>6. \E m \in Int : (x - lo) * k = d * k + Byte * m
    <3>1. CASE x >= lo
      <4>1. d = x - lo
        BY <3>1 DEF Distance
      <4> DEFINE p == d * k
      <4>2. p = p + Byte * 0
        BY <1>2, <2>5
      <4> QED
        BY <4>1, <4>2
    <3>2. CASE ~(x >= lo)
      <4> DEFINE e == x - lo
      <4>1. d = e + Byte /\ e \in Int
        BY <2>2, <3>2 DEF Distance
      <4> HIDE DEF e, d
      <4>2. d * k = e * k + Byte * k /\ e * k \in Int /\ Byte * k \in Int /\ Byte * (-k) = -(Byte * k)
        BY <1>1, <1>2, <4>1
      <4>3. e * k = d * k + Byte * (-k) /\ -k \in Int
        BY <1>1, <4>2
      <4> QED
        BY <4>3 DEF e
    <3> QED
      BY <3>1, <3>2
  <2> QED
    BY <2>3, <2>4, <2>5, <2>6
<1>5. CASE fld.type \notin Numeric \cup {"c"}
  <2>1. Offset(f) = 0 /\ Rated(fld, v) = 0
    BY <1>5 DEF Offset, Rated
  <2>2. 0 = 0 + Byte * 0
    BY <1>2
  <2> QED
    BY <2>1, <2>2
<1> QED
  BY <1>3, <1>4, <1>5

(* The devices that the first fields make.                                 *)
LEMMA CountsAre ==
  ASSUME rule \in Seq(RuleField)
  PROVE  /\ Counts \in [0 .. Len(rule) -> Nat] /\ Counts[0] = 1
         /\ \A i \in 1 .. Len(rule) : Counts[i] = Counts[i - 1] * Len(Values(rule[i]))
<1> DEFINE n == Len(rule)
           width == [i \in 1 .. n |-> Len(Values(rule[i]))]
           Rule(c) == c = [i \in 0 .. n |-> IF i = 0 THEN 1 ELSE c[i - 1] * Len(Values(rule[i]))]
           h == [i \in 1 .. n |-> [x \in Nat |-> x * width[i]]]
           count == CHOOSE c : Rule(c)
<1>1. n \in Nat /\ \A i \in 1 .. n : rule[i] \in RuleField
  OBVIOUS
<1>2. width \in [1 .. n -> Nat] /\ \A i \in 1 .. n : width[i] = Len(Values(rule[i]))
  <2>1. \A i \in 1 .. n : FieldOK(rule[i], AtFirst(rule[i]))
    BY <1>1, FirstOK
  <2>2. \A i \in 1 .. n : Len(Values(rule[i])) \in Nat
    BY <1>1, <2>1, RankTells
  <2> QED
    BY <2>2
<1> HIDE DEF width, n
<1>3. PICK c : Follows(c, n, 1, h)
  BY <1>1, Recursion
<1> DEFINE T == {i \in 0 .. n : c[i] \in Nat}
<1>4. c = [i \in 0 .. n |-> c[i]] /\ c[0] = 1 /\ \A i \in 1 .. n : c[i] = h[i][c[i - 1]]
  BY <1>3 DEF Follows
<1>5. ASSUME NEW i \in 1 .. n, c[i - 1] \in Nat
      PROVE  c[i] = c[i - 1] * width[i] /\ c[i] \in Nat
  <2>1. c[i] = c[i - 1] * width[i] /\ width[i] \in Nat
    BY <1>2, <1>4, <1>5
  <2> QED
    BY <1>5, <2>1
<1>6. \A i \in 0 .. n : c[i] \in Nat
  <2>1. 0 \in T
    BY <1>1, <1>4
  <2>2. ASSUME NEW i \in 1 .. n, i - 1 \in T PROVE i \in T
    BY <1>5, <2>2
  <2> HIDE DEF T
  <2>3. 0 .. n \subseteq T
    BY <1>1, <2>1, <2>2, CountUp
  <2> QED
    BY <2>3 DEF T
<1>7. Rule(c)
  <2>1. \A i \in 1 .. n : c[i] = c[i - 1] * Len(Values(rule[i]))
    <3> TAKE i \in 1 .. n
    <3>1. i - 1 \in 0 .. n
      BY <1>1
    <3>2. c[i - 1] \in Nat
      BY <1>6, <3>1
    <3> QED
      BY <1>2, <1>5, <3>2
  <2>2. \A i \in 0 .. n : i = 0 \/ i \in 1 .. n
    BY <1>1
  <2>3. \A i \in 0 .. n : c[i] = IF i = 0 THEN 1 ELSE c[i - 1] * Len(Values(rule[i]))
    BY <1>4, <2>1, <2>2
  <2> QED
    BY <1>4, <2>3
<1>8. Rule(count)
  BY <1>7
<1> HIDE DEF count
<1>9. /\ count = [i \in 0 .. n |-> IF i = 0 THEN 1 ELSE count[i - 1] * Len(Values(rule[i]))]
  BY <1>8
<1>10. /\ 0 \in 0 .. n /\ count[0] = 1 /\ DOMAIN count = 0 .. n
       /\ \A i \in 1 .. n : i \in 0 .. n /\ i # 0 /\ count[i] = count[i - 1] * width[i]
  <2>1. 0 \in 0 .. n /\ \A i \in 1 .. n : i \in 0 .. n /\ i # 0
    BY <1>1
  <2>2. count[0] = 1
    BY <1>9, <2>1
  <2>3. \A i \in 1 .. n : count[i] = count[i - 1] * width[i]
    BY <1>2, <1>9, <2>1
  <2> QED
    BY <1>9, <2>1, <2>2, <2>3
<1> DEFINE U == {i \in 0 .. n : count[i] \in Nat}
<1>11. 0 .. n \subseteq U
  <2>1. 0 \in U
    BY <1>10
  <2>2. ASSUME NEW i \in 1 .. n, i - 1 \in U PROVE i \in U
    <3>1. count[i - 1] \in Nat /\ width[i] \in Nat /\ i \in 0 .. n /\ count[i] = count[i - 1] * width[i]
      BY <1>2, <1>10, <2>2
    <3> QED
      BY <3>1
  <2> HIDE DEF U
  <2> QED
    BY <1>1, <2>1, <2>2, CountUp
<1>12. count \in [0 .. n -> Nat]
  BY <1>9, <1>11
<1>13. Counts = count
  BY DEF Counts, count, n
<1> QED
  BY <1>2, <1>10, <1>12, <1>13 DEF n

(* The devices before the one whose values the fields have.                *)
Weights == [f \in 1 .. Len(rule) |-> RankOf(rule[f], var[f]) * Counts[f - 1]]

MultiType ==
  /\ rule \in Seq(RuleField) /\ base \in Nat
  /\ var = [f \in 1 .. Len(rule) |-> var[f]]
  /\ \A f \in 1 .. Len(rule) : FieldOK(rule[f], var[f])
  /\ made \in Seq([name : Seq(Int), minor : Int])
  /\ field \in 1 .. Len(rule) + 1
  /\ mdpc \in {"make", "increment", "done"}

(* The fields that were carried over stand at their first value, and the    *)
(* devices made are those before, and at the increment as many more as the  *)
(* fields below the one at hand make.                                      *)
MadeSoFar ==
  /\ mdpc = "make" => Len(made) = Total(Weights)
  /\ mdpc = "increment" =>
       /\ Len(made) = Total(Weights) + Counts[field - 1]
       /\ \A f \in 1 .. field - 1 : RankOf(rule[f], var[f]) = 0
  /\ mdpc = "done" => Len(made) = Counts[Len(rule)]

LastIsRight == \A k \in {Len(made)} \ {0} : made[k] = Expected(k)

MultiInv == MultiType /\ MadeSoFar /\ LastIsRight

(* What the fields stand for, in numbers.                                  *)
LEMMA WeightsAre ==
  ASSUME MultiType
  PROVE  /\ Len(rule) \in Nat
         /\ \A f \in 1 .. Len(rule) : RankOf(rule[f], var[f]) \in Nat
         /\ Weights \in [1 .. Len(rule) -> Nat]
         /\ Weights \in [1 .. Len(rule) -> Int]
         /\ \A f \in 1 .. Len(rule) : Weights[f] = RankOf(rule[f], var[f]) * Counts[f - 1]
<1>1. rule \in Seq(RuleField)
  BY DEF MultiType
<1>2. Len(rule) \in Nat /\ \A f \in 1 .. Len(rule) : rule[f] \in RuleField
  BY <1>1
<1>3. \A f \in 1 .. Len(rule) : RankOf(rule[f], var[f]) \in Nat
  BY <1>2, RankTells DEF MultiType
<1>4. \A f \in 1 .. Len(rule) : Counts[f - 1] \in Nat
  <2>1. Counts \in [0 .. Len(rule) -> Nat]
    BY <1>1, CountsAre
  <2>2. \A f \in 1 .. Len(rule) : f - 1 \in 0 .. Len(rule)
    BY <1>2
  <2> QED
    BY <2>1, <2>2
<1>5. \A f \in 1 .. Len(rule) : RankOf(rule[f], var[f]) * Counts[f - 1] \in Nat
  BY <1>3, <1>4
<1>6. \A f \in 1 .. Len(rule) : RankOf(rule[f], var[f]) * Counts[f - 1] \in Int
  BY <1>5
<1> QED
  BY <1>2, <1>3, <1>5, <1>6 DEF Weights

(* Multiples of a byte do not change a byte.                               *)
LEMMA WrapAdd ==
  ASSUME NEW x \in Int, NEW m \in Int
  PROVE  (x + Byte * m) % Byte = x % Byte
<1> DEFINE d == x \div Byte
           r == x % Byte
<1>1. d \in Int /\ r \in 0 .. Byte - 1 /\ x = Byte * d + r
  BY ByteAssumption
<1> HIDE DEF d, r
<1>2. Byte * (d + m) = Byte * d + Byte * m /\ Byte * d \in Int /\ Byte * m \in Int /\ d + m \in Int
  BY <1>1, ByteAssumption
<1>3. x + Byte * m = r + Byte * (d + m)
  BY <1>1, <1>2
<1>4. (r + Byte * (d + m)) % Byte = r
  BY <1>1, <1>2, ByteAssumption, Quotient, Zenon
<1> QED
  BY <1>3, <1>4 DEF r

(* The digits of the next device are the ranks of the fields.              *)
LEMMA DigitOfMade ==
  ASSUME MultiType, NEW k \in Nat, k = Total(Weights) + 1, NEW f \in 1 .. Len(rule)
  PROVE  Digit(k, f) = RankOf(rule[f], var[f])
<1> DEFINE n == Len(rule)
           rank == [i \in 1 .. n |-> RankOf(rule[i], var[i])]
           width == [i \in 1 .. n |-> Len(Values(rule[i]))]
<1>1. /\ n \in Nat /\ \A i \in 1 .. n : RankOf(rule[i], var[i]) \in Nat
      /\ Weights \in [1 .. n -> Int]
      /\ \A i \in 1 .. n : Weights[i] = RankOf(rule[i], var[i]) * Counts[i - 1]
  BY WeightsAre
<1>2. rule \in Seq(RuleField) /\ \A i \in 1 .. n : FieldOK(rule[i], var[i])
  BY DEF MultiType
<1>3. \A i \in 1 .. n : rule[i] \in RuleField
  BY <1>2
<1>4. \A i \in 1 .. n : /\ Len(Values(rule[i])) \in Nat
                        /\ RankOf(rule[i], var[i]) < Len(Values(rule[i]))
  BY <1>2, <1>3, RankTells
<1>5. rank \in [1 .. n -> Nat] /\ width \in [1 .. n -> Nat]
      /\ \A i \in 1 .. n : /\ rank[i] = RankOf(rule[i], var[i])
                           /\ width[i] = Len(Values(rule[i]))
  BY <1>1, <1>4
<1>6. /\ Counts \in [0 .. n -> Nat] /\ Counts[0] = 1
      /\ \A i \in 1 .. n : Counts[i] = Counts[i - 1] * Len(Values(rule[i]))
  BY <1>2, CountsAre
<1> HIDE DEF n, rank, width
<1>7. /\ \A i \in 1 .. n : rank[i] < width[i]
      /\ \A i \in 1 .. n : Counts[i] = Counts[i - 1] * width[i]
      /\ \A i \in 1 .. n : Weights[i] = rank[i] * Counts[i - 1]
  BY <1>1, <1>4, <1>5, <1>6
<1>8. f \in 1 .. n
  BY DEF n
<1>9. (Total(Weights) \div Counts[f - 1]) % width[f] = rank[f]
  <2> DEFINE C == Counts
             g == Weights
  <2>1. rank \in [1 .. n -> Nat] /\ width \in [1 .. n -> Nat] /\ n \in Nat
    BY <1>1, <1>5
  <2>2. C \in [0 .. n -> Nat] /\ C[0] = 1 /\ g \in [1 .. n -> Int]
    BY <1>1, <1>6
  <2>3. \A i \in 1 .. n : C[i] = C[i - 1] * width[i]
    BY <1>7
  <2>4. \A i \in 1 .. n : g[i] = rank[i] * C[i - 1]
    BY <1>7
  <2>5. \A i \in 1 .. n : rank[i] < width[i]
    BY <1>7
  <2> HIDE DEF C, g
  <2>6. (Total(g) \div C[f - 1]) % width[f] = rank[f]
    BY ONLY <2>1, <2>2, <2>3, <2>4, <2>5, <1>8, DigitIs
  <2> QED
    BY <2>6 DEF C, g
<1>10. k - 1 = Total(Weights)
  <2>1. 0 <= 0 /\ \A i \in 1 .. n : \E m \in Int : Weights[i] = Weights[i] + Byte * m
    <3>1. Byte * 0 = 0 /\ \A i \in 1 .. n : Weights[i] \in Int
      BY <1>1, ByteAssumption
    <3>2. \A i \in 1 .. n : Weights[i] = Weights[i] + Byte * 0
      BY <3>1
    <3> QED
      BY <3>2
  <2>2. Total(Weights) \in Int
    BY <1>1, <2>1, TotalWraps
  <2> QED
    BY <2>2
<1> QED
  BY <1>5, <1>8, <1>9, <1>10 DEF Digit

(* The next device is the one the reference gives.                         *)
LEMMA ExpectedIs ==
  ASSUME MultiType, NEW k \in Nat, k = Total(Weights) + 1
  PROVE  Expected(k) = [name |-> [f \in DOMAIN rule |-> var[f].value],
                        minor |-> (base + MinorOffset) % Byte]
<1> DEFINE n == Len(rule)
           share == [f \in DOMAIN rule |-> Share(k, f)]
           offset == [f \in DOMAIN rule |-> Offset(f)]
<1>1. rule \in Seq(RuleField) /\ base \in Nat /\ \A i \in 1 .. n : FieldOK(rule[i], var[i])
  BY DEF MultiType
<1>2. n \in Nat /\ DOMAIN rule = 1 .. n /\ \A i \in 1 .. n : rule[i] \in RuleField
  BY <1>1
<1>3. \A f \in 1 .. n : Digit(k, f) = RankOf(rule[f], var[f])
  BY DigitOfMade
<1>4. \A f \in 1 .. n : Values(rule[f])[Digit(k, f) + 1] = var[f].value
  BY <1>1, <1>2, <1>3, RankTells
<1>5. [f \in DOMAIN rule |-> Values(rule[f])[Digit(k, f) + 1]] = [f \in DOMAIN rule |-> var[f].value]
  BY <1>2, <1>4
<1>6. \A f \in 1 .. n : Share(k, f) = Rated(rule[f], var[f])
  BY <1>3 DEF Share, Rated
<1>7. \A f \in 1 .. n : /\ Offset(f) \in Int /\ Share(k, f) \in Int
                        /\ \E m \in Int : Offset(f) = Share(k, f) + Byte * m
  BY <1>1, <1>2, <1>6, OffsetIs
<1>8. /\ share \in [1 .. n -> Int] /\ offset \in [1 .. n -> Int]
      /\ \A f \in 1 .. n : \E m \in Int : offset[f] = share[f] + Byte * m
  BY <1>2, <1>7
<1> HIDE DEF n, share, offset
<1>9. Total(share) \in Int /\ \E m \in Int : Total(offset) = Total(share) + Byte * m
  BY <1>2, <1>8, TotalWraps
<1>10. PICK m \in Int : Total(offset) = Total(share) + Byte * m
  BY <1>9
<1>11. (base + Total(offset)) % Byte = (base + Total(share)) % Byte
  <2> DEFINE x == base + Total(share)
             p == Byte * m
  <2>1. x \in Int
    BY <1>1, <1>9
  <2>2. (x + Byte * m) % Byte = x % Byte
    BY <2>1, WrapAdd
  <2>3. p \in Int
    BY ByteAssumption
  <2>4. base + Total(offset) = x + p
    <3> HIDE DEF p
    <3>1. Total(offset) = Total(share) + p
      BY <1>10 DEF p
    <3> QED
      BY <1>1, <1>9, <2>3, <3>1
  <2> QED
    BY <2>2, <2>4
<1>12. MinorOffset = Total(offset)
  BY DEF MinorOffset, offset
<1> QED
  BY <1>5, <1>11, <1>12 DEF Expected, share

(* At the start every field has its first value.                           *)
LEMMA MultiInvInit == MultiInit => MultiInv
<1> SUFFICES ASSUME MultiInit PROVE MultiInv
  OBVIOUS
<1>1. rule \in Seq(RuleField) /\ base \in Nat
  BY RulesAssumption, BasesAssumption DEF MultiInit, RuleField, Types
<1> DEFINE n == Len(rule)
<1>2. n \in Nat /\ DOMAIN rule = 1 .. n /\ \A i \in 1 .. n : rule[i] \in RuleField
  BY <1>1
<1>3. var = [f \in 1 .. n |-> AtFirst(rule[f])]
  BY <1>2 DEF MultiInit
<1>4. \A f \in 1 .. n : var[f] = AtFirst(rule[f])
  BY <1>3
<1>5. \A f \in 1 .. n : FieldOK(rule[f], var[f]) /\ RankOf(rule[f], var[f]) = 0
  BY <1>2, <1>4, FirstOK
<1>6. made = <<>> /\ field = 1 /\ mdpc = "make" /\ Len(made) = 0
  BY DEF MultiInit
<1>7. MultiType
  <2>1. made \in Seq([name : Seq(Int), minor : Int])
    BY <1>6
  <2>2. field \in 1 .. n + 1
    BY <1>2, <1>6
  <2>3. var = [f \in 1 .. n |-> var[f]]
    BY <1>3
  <2> QED
    BY <1>1, <1>5, <1>6, <2>1, <2>2, <2>3 DEF MultiType
<1>8. Total(Weights) = 0
  <2>1. /\ Weights \in [1 .. n -> Int]
        /\ \A f \in 1 .. n : Weights[f] = RankOf(rule[f], var[f]) * Counts[f - 1]
    BY <1>7, WeightsAre
  <2>2. \A f \in 1 .. n : Weights[f] = 0
    <3> TAKE f \in 1 .. n
    <3>1. Counts[f - 1] \in Nat
      <4>1. Counts \in [0 .. n -> Nat] /\ f - 1 \in 0 .. n
        BY <1>1, <1>2, CountsAre
      <4> QED
        BY <4>1
    <3>2. \A x \in Nat : 0 * x = 0
      OBVIOUS
    <3> QED
      BY <1>5, <2>1, <3>1, <3>2
  <2> QED
    BY <1>2, <2>1, <2>2, TotalZero
<1>9. MadeSoFar
  BY <1>6, <1>8 DEF MadeSoFar
<1>10. LastIsRight
  BY <1>6 DEF LastIsRight
<1> QED
  BY <1>7, <1>9, <1>10 DEF MultiInv

(* What the ranges determine does not change.                              *)
LEMMA Determined ==
  ASSUME rule' = rule, base' = base
  PROVE  /\ Counts' = Counts
         /\ \A k : Expected(k)' = Expected(k)
BY DEF Counts, Expected, Digit, Share

(* A device is made from the fields as they stand.                         *)
LEMMA MakeKeeps == MultiInv /\ Make => MultiInv'
<1> SUFFICES ASSUME MultiInv, Make PROVE MultiInv'
  OBVIOUS
<1> DEFINE n == Len(rule)
           d == [name |-> [f \in DOMAIN rule |-> var[f].value],
                 minor |-> (base + MinorOffset) % Byte]
           k == Len(made) + 1
<1>1. MultiType /\ MadeSoFar /\ LastIsRight
  BY DEF MultiInv
<1>2. /\ mdpc = "make" /\ made' = Append(made, d) /\ field' = 1 /\ mdpc' = "increment"
      /\ rule' = rule /\ base' = base /\ var' = var
  BY DEF Make
<1>3. /\ rule \in Seq(RuleField) /\ base \in Nat
      /\ var = [f \in 1 .. n |-> var[f]]
      /\ \A f \in 1 .. n : FieldOK(rule[f], var[f])
      /\ made \in Seq([name : Seq(Int), minor : Int])
      /\ n \in Nat /\ DOMAIN rule = 1 .. n
  BY <1>1 DEF MultiType
<1>4. Len(made) = Total(Weights) /\ Len(made) \in Nat
  BY <1>1, <1>2, <1>3 DEF MadeSoFar
<1>5. Expected(k) = d /\ k \in Nat
  <2>1. k \in Nat /\ k = Total(Weights) + 1
    BY <1>4
  <2> HIDE DEF k
  <2> QED
    BY <1>1, <2>1, ExpectedIs
<1>6. d \in [name : Seq(Int), minor : Int]
  <2>1. [f \in 1 .. n |-> var[f].value] \in Seq(Int)
    <3> DEFINE names == [f \in 1 .. n |-> var[f].value]
    <3>1. \A f \in 1 .. n : var[f].value \in Int
      BY <1>3 DEF FieldOK
    <3>2. names \in [1 .. n -> Int]
      BY <3>1
    <3>3. n \in Nat
      BY <1>3
    <3> HIDE DEF names, n
    <3>4. names \in Seq(Int)
      BY ONLY <3>2, <3>3
    <3> QED
      BY <1>3, <3>4 DEF names
  <2>2. MinorOffset \in Int
    <3> DEFINE offset == [f \in DOMAIN rule |-> Offset(f)]
    <3>1. \A f \in 1 .. n : rule[f] \in RuleField
      BY <1>3
    <3>2. offset \in [1 .. n -> Int]
      BY <1>3, <3>1, OffsetIs
    <3> HIDE DEF offset
    <3>3. \A i \in 1 .. n : \E m \in Int : offset[i] = offset[i] + Byte * m
      <4>1. Byte * 0 = 0 /\ \A i \in 1 .. n : offset[i] \in Int
        BY <3>2, ByteAssumption
      <4>2. \A i \in 1 .. n : offset[i] = offset[i] + Byte * 0
        BY <4>1
      <4> QED
        BY <4>2
    <3>4. Total(offset) \in Int
      BY <1>3, <3>2, <3>3, TotalWraps
    <3> QED
      BY <3>4 DEF MinorOffset, offset
  <2>3. (base + MinorOffset) % Byte \in Int
    BY <1>3, <2>2, ByteAssumption
  <2> HIDE DEF n
  <2> QED
    BY <1>3, <2>1, <2>3
<1> HIDE DEF d
<1>7. /\ made' \in Seq([name : Seq(Int), minor : Int]) /\ Len(made') = k /\ made'[k] = d
  BY <1>2, <1>3, <1>6
<1>8. MultiType'
  <2>1. 1 \in 1 .. n + 1
    BY <1>3
  <2> QED
    BY <1>2, <1>3, <1>7, <2>1 DEF MultiType
<1>9. Counts' = Counts /\ \A j : Expected(j)' = Expected(j)
  BY <1>2, Determined
<1>10. MadeSoFar'
  <2>1. Weights' = Weights
    BY <1>2, <1>9 DEF Weights
  <2>2. Counts'[field' - 1] = 1
    <3>1. field' - 1 = 0
      BY <1>2
    <3> QED
      BY <1>3, <1>9, <3>1, CountsAre
  <2>3. Len(made') = Total(Weights') + Counts'[field' - 1]
    BY <1>4, <1>7, <2>1, <2>2
  <2>4. \A f \in 1 .. field' - 1 : FALSE
    BY <1>2
  <2> QED
    BY <1>2, <2>3, <2>4 DEF MadeSoFar, Total
<1>11. LastIsRight'
  <2>1. SUFFICES ASSUME NEW j, j = Len(made') PROVE made'[j] = Expected(j)'
    BY DEF LastIsRight
  <2>2. j = k
    BY <1>7, <2>1
  <2>3. Expected(j) = d /\ made'[j] = d
    BY <1>5, <1>7, <2>2
  <2> QED
    BY <1>9, <2>3
<1> QED
  BY <1>8, <1>10, <1>11 DEF MultiInv

(* Only one field changes: the devices before go up by what its rank does. *)
LEMMA IncrementKeeps == MultiInv /\ Increment => MultiInv'
<1> SUFFICES ASSUME MultiInv, Increment PROVE MultiInv'
  OBVIOUS
<1> DEFINE n == Len(rule)
           c == field
           W == Weights
           W1 == Weights'
           C == Counts
           rank(f) == RankOf(rule[f], var[f])
           next(f) == RankOf(rule[f], var'[f])
<1>1. MultiType /\ MadeSoFar /\ LastIsRight
  BY DEF MultiInv
<1>2. /\ mdpc = "increment" /\ c <= n /\ var' = [var EXCEPT ![c] = Next1(c)]
      /\ Carries(c) => field' = c + 1 /\ mdpc' = mdpc
      /\ ~Carries(c) => field' = c /\ mdpc' = "make"
      /\ rule' = rule /\ base' = base /\ made' = made
  BY DEF Increment
<1>3. /\ rule \in Seq(RuleField) /\ base \in Nat
      /\ var = [f \in 1 .. n |-> var[f]]
      /\ \A f \in 1 .. n : FieldOK(rule[f], var[f])
      /\ made \in Seq([name : Seq(Int), minor : Int])
      /\ n \in Nat /\ c \in 1 .. n + 1
  BY <1>1 DEF MultiType
<1>4. c \in 1 .. n
  BY <1>2, <1>3
<1>5. \A f \in 1 .. n : rule[f] \in RuleField
  BY <1>3
<1>6. /\ FieldOK(rule[c], Next1(c))
      /\ RankOf(rule[c], Next1(c)) = IF Carries(c) THEN 0 ELSE rank(c) + 1
      /\ Carries(c) => rank(c) + 1 = Len(Values(rule[c]))
  BY <1>3, <1>4, <1>5, NextOK
<1>7. /\ var'[c] = Next1(c) /\ var' = [f \in 1 .. n |-> var'[f]]
      /\ \A f \in 1 .. n : f # c => var'[f] = var[f]
  BY <1>2, <1>3, <1>4
<1>8. \A f \in 1 .. n : FieldOK(rule[f], var'[f])
  BY <1>3, <1>6, <1>7
<1>9. MultiType'
  <2>1. field' \in 1 .. n + 1
    BY <1>2, <1>3, <1>4
  <2> QED
    BY <1>2, <1>3, <1>7, <1>8, <2>1 DEF MultiType
<1>10. Counts' = C /\ \A j : Expected(j)' = Expected(j)
  BY <1>2, Determined
<1>11. /\ W \in [1 .. n -> Int] /\ W1 \in [1 .. n -> Int]
       /\ \A f \in 1 .. n : W[f] = rank(f) * C[f - 1] /\ W1[f] = next(f) * C[f - 1]
       /\ \A f \in 1 .. n : rank(f) \in Nat /\ next(f) \in Nat
  <2>1. /\ W \in [1 .. n -> Int]
        /\ \A f \in 1 .. n : W[f] = rank(f) * C[f - 1] /\ rank(f) \in Nat
    BY <1>1, WeightsAre
  <2>2. \A f \in 1 .. n : next(f) \in Nat /\ C[f - 1] \in Nat
    <3>1. C \in [0 .. n -> Nat] /\ \A f \in 1 .. n : f - 1 \in 0 .. n
      BY <1>3, CountsAre
    <3> QED
      BY <1>5, <1>8, <3>1, RankTells
  <2>3. W1 = [f \in 1 .. n |-> next(f) * C[f - 1]]
    BY <1>2, <1>10 DEF Weights
  <2>4. \A f \in 1 .. n : next(f) * C[f - 1] \in Int
    BY <2>2
  <2> HIDE DEF W, W1, C, rank, next
  <2> QED
    BY <2>1, <2>2, <2>3, <2>4
<1>12. Total(W1) = Total(W) + (W1[c] - W[c]) /\ Total(W) \in Int
  <2>1. \A f \in 1 .. n : f # c => W1[f] = W[f]
    BY <1>7, <1>11
  <2>2. \A f \in 1 .. n : \E m \in Int : W[f] = W[f] + Byte * m
    <3>1. Byte * 0 = 0 /\ \A i \in 1 .. n : W[i] \in Int
      BY <1>11, ByteAssumption
    <3>2. \A i \in 1 .. n : W[i] = W[i] + Byte * 0
      BY <3>1
    <3> QED
      BY <3>2
  <2> HIDE DEF W, W1, n, c
  <2>3. Total(W) \in Int
    BY <1>3, <1>11, <2>2, TotalWraps
  <2>4. Total(W1) = Total(W) + (W1[c] - W[c])
    <3>1. n \in Nat /\ c \in 1 .. n /\ W \in [1 .. n -> Int] /\ W1 \in [1 .. n -> Int]
      BY <1>3, <1>4, <1>11
    <3> QED
      BY ONLY <2>1, <3>1, TotalChange
  <2> QED
    BY <2>3, <2>4
<1>13. /\ C[c - 1] \in Nat /\ C[c] \in Nat /\ Len(Values(rule[c])) \in Nat
       /\ C[c] = C[c - 1] * Len(Values(rule[c]))
  <2>1. /\ C \in [0 .. n -> Nat] /\ c - 1 \in 0 .. n /\ c \in 0 .. n
        /\ C[c] = C[c - 1] * Len(Values(rule[c]))
    BY <1>3, <1>4, CountsAre
  <2>2. Len(Values(rule[c])) \in Nat
    BY <1>3, <1>4, <1>5, RankTells
  <2> QED
    BY <2>1, <2>2
<1>14. Len(made) = Total(W) + C[c - 1] /\ \A f \in 1 .. c - 1 : rank(f) = 0
  BY <1>1, <1>2 DEF MadeSoFar
<1>15. LastIsRight'
  BY <1>1, <1>2, <1>10 DEF LastIsRight
<1>16. MadeSoFar'
  <2> DEFINE b == C[c - 1]
             k == rank(c)
             wd == Len(Values(rule[c]))
             w == W[c]
             w1 == W1[c]
             t == Total(W)
             t1 == Total(W1)
             q == next(c)
  <2>1. /\ b \in Nat /\ wd \in Nat /\ k \in Nat /\ q \in Nat /\ t \in Int
        /\ w = k * b /\ w1 = q * b /\ t1 = t + (w1 - w) /\ Len(made) = t + b /\ C[c] = b * wd
    BY <1>4, <1>11, <1>12, <1>13, <1>14
  <2>2. q = (IF Carries(c) THEN 0 ELSE k + 1) /\ (Carries(c) => k + 1 = wd)
    BY <1>6, <1>7
  <2> HIDE DEF b, k, wd, w, w1, t, t1, q
  <2>3. CASE Carries(c)
    <3>1. mdpc' = "increment" /\ field' = c + 1
      BY <1>2, <2>3
    <3>2. w1 = 0 /\ wd = k + 1
      BY <2>1, <2>2, <2>3
    <3>3. b * (k + 1) = b + k * b /\ k * b \in Int
      BY <2>1
    <3>4. Len(made) = t1 + C[c]
      BY <2>1, <3>2, <3>3
    <3>5. \A f \in 1 .. c : next(f) = 0
      <4>1. \A f \in 1 .. c : f \in 1 .. n /\ (f = c \/ f \in 1 .. c - 1)
        BY <1>3, <1>4
      <4>2. next(c) = 0
        BY <2>2, <2>3 DEF q
      <4>3. \A f \in 1 .. c - 1 : var'[f] = var[f]
        BY <1>3, <1>4, <1>7
      <4> QED
        BY <1>14, <4>1, <4>2, <4>3
    <3>6. field' - 1 = c
      BY <1>4, <3>1
    <3> QED
      BY <1>2, <1>10, <3>1, <3>4, <3>5, <3>6 DEF MadeSoFar, t1
  <2>4. CASE ~Carries(c)
    <3>1. mdpc' = "make"
      BY <1>2, <2>4
    <3>2. q = k + 1
      BY <2>2, <2>4
    <3>3. (k + 1) * b = b + k * b /\ k * b \in Int
      BY <2>1
    <3>4. Len(made) = t1
      BY <2>1, <3>2, <3>3
    <3> QED
      BY <1>2, <3>1, <3>4 DEF MadeSoFar, t1
  <2> QED
    BY <2>3, <2>4
<1> QED
  BY <1>9, <1>15, <1>16 DEF MultiInv

(* All the fields carried: all the devices are made.                       *)
LEMMA OverflowKeeps == MultiInv /\ Overflow => MultiInv'
<1> SUFFICES ASSUME MultiInv, Overflow PROVE MultiInv'
  OBVIOUS
<1> DEFINE n == Len(rule)
<1>1. MultiType /\ MadeSoFar /\ LastIsRight
  BY DEF MultiInv
<1>2. /\ mdpc = "increment" /\ field > n /\ mdpc' = "done"
      /\ rule' = rule /\ base' = base /\ var' = var /\ made' = made /\ field' = field
  BY DEF Overflow
<1>3. rule \in Seq(RuleField) /\ n \in Nat /\ field \in 1 .. n + 1
  BY <1>1 DEF MultiType
<1>4. field - 1 = n
  BY <1>2, <1>3
<1>5. MultiType'
  BY <1>1, <1>2 DEF MultiType
<1>6. Counts' = Counts /\ \A j : Expected(j)' = Expected(j)
  BY <1>2, Determined
<1>7. /\ Counts \in [0 .. n -> Nat] /\ n \in 0 .. n
      /\ \A f \in 1 .. n : f - 1 \in 0 .. n
  BY <1>3, CountsAre
<1>8. Len(made) = Total(Weights) + Counts[n] /\ \A f \in 1 .. n : RankOf(rule[f], var[f]) = 0
  BY <1>1, <1>2, <1>4 DEF MadeSoFar
<1>9. Total(Weights) = 0
  <2>1. /\ Weights \in [1 .. n -> Int]
        /\ \A f \in 1 .. n : Weights[f] = RankOf(rule[f], var[f]) * Counts[f - 1]
    BY <1>1, WeightsAre
  <2>2. \A x \in Nat : 0 * x = 0
    OBVIOUS
  <2>3. \A f \in 1 .. n : Weights[f] = 0
    BY <1>7, <1>8, <2>1, <2>2
  <2> QED
    BY <1>3, <2>1, <2>3, TotalZero
<1>10. Len(made) = Counts[n]
  BY <1>7, <1>8, <1>9
<1>11. MadeSoFar'
  BY <1>2, <1>6, <1>10 DEF MadeSoFar
<1>12. LastIsRight'
  BY <1>1, <1>2, <1>6 DEF LastIsRight
<1> QED
  BY <1>5, <1>11, <1>12 DEF MultiInv

(* bl and ch make exactly the devices of the ranges, whatever the rule: the *)
(* k-th has the k-th combination of values, the first field fastest, and   *)
(* the minor of its ranks, also where a range of bytes wraps around and    *)
(* the code's own sum of differences is another number.                    *)
THEOREM DevicesAreMade == MultiSpec => []AllDevices
<1>1. MultiInit => MultiInv
  BY MultiInvInit
<1>2. MultiInv /\ [MultiNext]_mdvars => MultiInv'
  <2>1. MultiInv /\ UNCHANGED mdvars => MultiInv'
    <3> SUFFICES ASSUME MultiInv, UNCHANGED mdvars PROVE MultiInv'
      OBVIOUS
    <3>1. /\ rule' = rule /\ base' = base /\ var' = var /\ made' = made
          /\ field' = field /\ mdpc' = mdpc
      BY DEF mdvars
    <3>2. Counts' = Counts /\ \A j : Expected(j)' = Expected(j)
      BY <3>1, Determined
    <3>3. MultiType'
      BY <3>1 DEF MultiInv, MultiType
    <3>4. MadeSoFar'
      BY <3>1, <3>2 DEF MultiInv, MadeSoFar, Weights
    <3>5. LastIsRight'
      BY <3>1, <3>2 DEF MultiInv, LastIsRight
    <3> QED
      BY <3>3, <3>4, <3>5 DEF MultiInv
  <2> QED
    BY <2>1, MakeKeeps, IncrementKeeps, OverflowKeeps DEF MultiNext
<1>3. MultiInv => AllDevices
  BY DEF MultiInv, MadeSoFar, LastIsRight, AllDevices
<1> QED
  BY <1>1, <1>2, <1>3, PTL DEF MultiSpec
=============================================================================
