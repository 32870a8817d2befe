----------------------------- MODULE TarExtract -----------------------------
(***************************************************************************)
(* ta of preinit (init/init.c, tar_extract): an archive is read block by   *)
(* block and its members are created below a directory.                    *)
(*                                                                         *)
(* The archive is counted in units of half a block, so that a member may   *)
(* end in the middle of one: a unit belongs to the header or the data of a *)
(* member, or is zero.  The file system is what is known of each path,     *)
(* from the current directory.                                             *)
(*                                                                         *)
(* A text is what stands between its slashes, in order, and each of these  *)
(* is a sequence of pieces, since two texts may meet within a name.        *)
(***************************************************************************)
EXTENDS Integers, Sequences, SequencesExt, FiniteSetsExt

CONSTANTS
  TarTexts,      \* what the fields prefix, name and linkname may hold
  Dirs,       \* directories to extract to, <<>> for the current one
  Archives,   \* sequences of members, see ArchivesAssumption
  Endings,    \* how many empty blocks follow them
  Existing,   \* file systems before: functions from paths to what is there
  Refusals    \* sets of paths that cannot be created

Block == 2    \* units of blk.buffer
Chunk == 4    \* units of the buffer for data, a multiple of the block

Padded(n) == n + (n % Block)

(* A member begins with its header, at unit `at' of the archive; its data  *)
(* fill whole blocks, then the next one begins.                            *)
NextAt(m) == m.at + Block + Padded(m.size)

(* dest, where prefix and name, or linkname, are put one behind the other:  *)
(* no slash is put between them.                                           *)
Joined(prefix, text) ==
  IF prefix = <<>> THEN text
  ELSE Front(prefix) \o <<Last(prefix) \o Head(text)>> \o Tail(text)

MemberType == [type : {"file", "hard", "sym", "node", "dir", "other"},
               prefix : TarTexts, name : TarTexts, link : TarTexts,
               size : Nat, at : Nat]
ASSUME ArchivesAssumption ==
  \A ms \in Archives :
    /\ ms \in Seq(MemberType)
    /\ \A i \in DOMAIN ms : /\ ms[i].at = IF i = 1 THEN 0 ELSE NextAt(ms[i - 1])
                            /\ \A j \in 1 .. i - 1 : NextAt(ms[j]) <= ms[i].at
ASSUME EndingsAssumption == Endings \subseteq Nat

VARIABLES
  members, archive, refused, into,
  pipe,       \* reads may give less than what was asked for
  pos,        \* units read
  blk,        \* what blk.buffer holds: a header, "empty", "junk" or "unset"
  size,       \* units left of the current member
  outfd,      \* the member whose file is open, 0 for none
  ret,
  fs,
  tarpc,
  lost,       \* members that were not created, or not written in full
  misread     \* a read() failed

source == <<members, archive, refused, into, pipe>>
tar == <<source, pos, blk, size, outfd, ret, fs, tarpc, lost, misread>>

Parent(p) == Front(p)
Zero == [of |-> 0, part |-> "zero"]

(* What a unit of the archive is, the empty blocks behind the members      *)
(* included.                                                               *)
Unit(ms, k) ==
  IF \E i \in DOMAIN ms : ms[i].at < k /\ k <= NextAt(ms[i])
  THEN LET i == CHOOSE i \in DOMAIN ms : ms[i].at < k /\ k <= NextAt(ms[i])
       IN CASE k = ms[i].at + 1 -> [of |-> i, part |-> "head"]
            [] k = ms[i].at + 2 -> [of |-> i, part |-> "tail"]
            [] k > ms[i].at + 2 + ms[i].size -> Zero
            [] OTHER -> [of |-> i, part |-> "data"]
  ELSE Zero

Length(ms) == IF ms = <<>> THEN 0 ELSE NextAt(ms[Len(ms)])
Layout(ms, n) == [k \in 1 .. Length(ms) + n * Block |-> Unit(ms, k)]

(* The whole archive, or any beginning of it: a truncated one.             *)
TarInit ==
  /\ members \in Archives
  /\ \E n \in Endings :
       \E len \in 1 .. Len(Layout(members, n)) :
         archive = SubSeq(Layout(members, n), 1, len)
  /\ refused \in Refusals
  /\ into \in Dirs
  /\ pipe \in BOOLEAN
  /\ fs \in Existing
  /\ pos = 0 /\ blk = [of |-> 0, part |-> "unset"] /\ size = 0
  /\ outfd = 0 /\ ret = 0
  /\ tarpc = "header"
  /\ lost = {} /\ misread = FALSE

Return(r) ==
  /\ ret' = r
  /\ tarpc' = "returned"

(* What a whole block holds.                                                *)
Content(two) ==
  CASE two[1].part = "head" /\ two[2].part = "tail" -> [of |-> two[1].of, part |-> "header"]
    [] two[1].part = "zero" /\ two[2].part = "zero" -> [of |-> 0, part |-> "empty"]
    [] OTHER -> [of |-> 0, part |-> "junk"]

(* The length read is compared as unsigned: only less than a block but not  *)
(* an error is a failure.                                                  *)
ReadHeader ==
  /\ tarpc = "header"
  /\ \/ /\ Len(archive) - pos >= Block
        /\ blk' = Content(SubSeq(archive, pos + 1, pos + Block))
        /\ pos' = pos + Block
        /\ tarpc' = "block"
        /\ UNCHANGED ret
     \/ /\ Len(archive) - pos < Block \/ pipe
        /\ Return(-1)
        /\ UNCHANGED <<pos, blk>>
  /\ UNCHANGED <<source, size, outfd, fs, lost, misread>>

(* After an error the block is the one before, and if that was no header    *)
(* bytes outside the buffer are looked at: anything may follow.             *)
ReadError ==
  /\ tarpc = "header"
  /\ misread' = TRUE
  /\ tarpc' = IF blk.part = "header" THEN "block" ELSE "undefined"
  /\ UNCHANGED <<source, pos, blk, size, outfd, ret, fs, lost>>

(* Two empty blocks in a row end the archive.                               *)
NoHeader ==
  /\ tarpc = "block" /\ blk.part # "header"
  /\ IF blk.part = "junk" THEN Return(-1)
     ELSE IF ret + 1 < 2
     THEN ret' = ret + 1 /\ tarpc' = "header"
     ELSE Return(0)
  /\ UNCHANGED <<source, pos, blk, size, outfd, fs, lost, misread>>

----------------------------------------------------------------------------
(* Creating a member.                                                      *)

Member == members[blk.of]
Path(i) == into \o Joined(members[i].prefix, members[i].name)
Target(i) == Joined(members[i].prefix, members[i].link)

(* What a path may be: a hard link names, in `to', the path of its file.    *)
Entry(type, i, to) == [type |-> type, of |-> i, len |-> 0, to |-> to]
Dir == Entry("dir", 0, <<>>)
Owner(f, p) == IF p \in DOMAIN f /\ f[p].type = "hard" THEN f[p].to ELSE p

Put(f, p, what) == [q \in DOMAIN f \cup {p} |-> IF q = p THEN what ELSE f[q]]
IsDir(f, p) == p = <<>> \/ (p \in DOMAIN f /\ f[p].type = "dir")

(* recursive_mkdir: a directory with the missing ones above it, as far as   *)
(* they can be made; it fails for one that exists.                          *)
Missing(f, p) == {q \in Prefixes(p) \ {<<>>} : q \notin DOMAIN f}
Makeable(f, p) ==
  {q \in Missing(f, p) :
     \A r \in Prefixes(q) : IsDir(f, r) \/ (r \in Missing(f, p) /\ r \notin refused)}
Mkdirs(f, p) ==
  [q \in DOMAIN f \cup Makeable(f, p) |-> IF q \in DOMAIN f THEN f[q] ELSE Dir]

(* Whether a new path can be created, or a file opened for writing; a      *)
(* device in its place would be written to, which counts as no file.       *)
Creatable(f, p) == IsDir(f, Parent(p)) /\ p \notin DOMAIN f /\ p \notin refused
Writable(f, p) ==
  \/ Creatable(f, p)
  \/ p \in DOMAIN f /\ p \notin refused /\ Owner(f, p) \in DOMAIN f
     /\ f[Owner(f, p)].type = "file"

(* Once its file is open or its entry made, the data of a member follow,   *)
(* whatever it is.                                                         *)
Begin(type) == /\ tarpc = "block" /\ blk.part = "header" /\ Member.type \in type
               /\ size' = Member.size
               /\ tarpc' = "data"
               /\ UNCHANGED <<source, pos, blk, ret, misread>>

(* A file, whose data follow; one that cannot be opened is skipped.  The    *)
(* other links of a file that is there share what is written.              *)
CreateFile ==
  /\ Begin({"file"})
  /\ LET p == Path(blk.of)
         f == Mkdirs(fs, Parent(p))
     IN IF Writable(f, p)
        THEN /\ fs' = Put(f, Owner(f, p), Entry("file", blk.of, <<>>))
             /\ outfd' = blk.of
             /\ lost' = lost
        ELSE /\ fs' = f /\ outfd' = 0
             /\ lost' = lost \cup {blk.of}

(* Links, devices and fifos are created at once, with their parents.  The  *)
(* target of a hard link is looked up from the current directory, that of  *)
(* a symbolic one is only text.                                            *)
CreateNode ==
  /\ Begin({"hard", "sym", "node"})
  /\ LET p == Path(blk.of)
         f == Mkdirs(fs, Parent(p))
         t == Target(blk.of)
         to == CASE Member.type = "hard" -> Owner(f, t)
                 [] Member.type = "sym" -> t
                 [] OTHER -> <<>>
     IN IF /\ Creatable(f, p)
           /\ Member.type = "hard" => t \in DOMAIN f /\ f[t].type # "dir"
        THEN fs' = Put(f, p, Entry(Member.type, blk.of, to)) /\ lost' = lost
        ELSE fs' = f /\ lost' = lost \cup {blk.of}
  /\ outfd' = outfd

CreateDir ==
  /\ Begin({"dir"})
  /\ fs' = Mkdirs(fs, Path(blk.of))
  /\ lost' = IF IsDir(fs', Path(blk.of)) THEN lost ELSE lost \cup {blk.of}
  /\ outfd' = outfd

(* A type that is not known: its data are skipped.                          *)
SkipMember == Begin({"other"}) /\ UNCHANGED <<outfd, fs, lost>>

----------------------------------------------------------------------------
(* Its data: whole blocks are asked for, and less may be given.            *)

Wanted == Padded(Min({size, Chunk}))

(* Mutant: all that was read is written, with what fills the last block. *)
KeptAll(n) == n

Kept(n) == Min({n, size})

(* A short read is not compensated: the end of the last block is then not   *)
(* read, and the next header is looked for in the wrong place.  Nor is a    *)
(* short write: only a write that fails is noticed, and ends the file.      *)
ReadData ==
  /\ tarpc = "data" /\ size > 0
  /\ \E n \in 1 .. Min({Wanted, Len(archive) - pos}) :
       /\ n < Min({Wanted, Len(archive) - pos}) => pipe
       /\ size' = size - Min({n, size})
       /\ \/ /\ outfd = 0
             /\ UNCHANGED <<fs, outfd, lost>>
          \/ /\ outfd # 0
             /\ outfd' = 0
             /\ lost' = lost \cup {outfd}
             /\ fs' = fs
          \/ \E written \in 0 .. Kept(n) :
               /\ outfd # 0
               /\ fs' = [fs EXCEPT ![Owner(fs, Path(outfd))].len = @ + written]
               /\ lost' = IF written = Kept(n) THEN lost ELSE lost \cup {outfd}
               /\ outfd' = outfd
       /\ pos' = pos + n
  /\ UNCHANGED <<source, blk, ret, tarpc, misread>>

DataEnds ==
  /\ tarpc = "data" /\ size > 0
  /\ \/ pos = Len(archive) /\ misread' = misread
     \/ misread' = TRUE
  /\ Return(-1)
  /\ UNCHANGED <<source, pos, blk, size, outfd, fs, lost>>

(* Whatever became of the member, its status is forgotten.                  *)
MemberDone ==
  /\ tarpc = "data" /\ size = 0
  /\ outfd' = 0
  /\ ret' = 0
  /\ tarpc' = "header"
  /\ UNCHANGED <<source, pos, blk, size, fs, lost, misread>>

TarNext ==
  \/ ReadHeader \/ ReadError \/ NoHeader
  \/ CreateFile \/ CreateNode \/ CreateDir \/ SkipMember
  \/ ReadData \/ DataEnds \/ MemberDone

TarSpec == TarInit /\ [][TarNext]_tar

----------------------------------------------------------------------------
(* A file has the data of its member under the path and the links it has;  *)
(* a hard link is one of its target's.                                     *)
Extracted(i) ==
  LET type == members[i].type
      p == Path(i)
      o == Owner(fs, p)
  IN CASE type = "other" -> TRUE
       [] type = "dir" -> IsDir(fs, p)
       [] type = "node" -> p \in DOMAIN fs /\ fs[p] = Entry("node", i, <<>>)
       [] type = "sym" -> p \in DOMAIN fs /\ fs[p] = Entry("sym", i, Target(i))
       [] type = "hard" ->
            /\ p \in DOMAIN fs /\ fs[p].type = "hard" /\ Target(i) \in DOMAIN fs
            /\ o = Owner(fs, Target(i))
       [] type = "file" ->
            /\ p \in DOMAIN fs /\ o \in DOMAIN fs
            /\ fs[o] = [Entry("file", i, <<>>) EXCEPT !.len = members[i].size]

(* A file may be there twice; the last one counts.                         *)
Replaced(i) ==
  \E j \in DOMAIN members :
    /\ j > i /\ members[j].type = "file"
    /\ {Path(i), Path(j)} \subseteq DOMAIN fs
    /\ Owner(fs, Path(j)) = Owner(fs, Path(i))

(* Only two empty blocks in a row end an archive well: one that is cut is   *)
(* an error wherever it is cut.                                            *)
WellEnded ==
  \E i \in 1 .. Len(archive) - 3 : \A k \in i .. i + 3 : archive[k] = Zero

(* A success means that the archive was read up to its end and, if no      *)
(* read failed, that every member is where its texts put it, whole and no  *)
(* longer, unless a later one was written over it.  A call that failed or  *)
(* wrote too little only costs the member it was made for, however the     *)
(* reads were cut and whatever was there before.                           *)
SuccessIsComplete ==
  tarpc = "returned" /\ ret = 0 =>
    /\ WellEnded
    /\ misread \/ \A i \in DOMAIN members : Extracted(i) \/ Replaced(i) \/ i \in lost
=============================================================================
