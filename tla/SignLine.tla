------------------------------ MODULE SignLine ------------------------------
(***************************************************************************)
(* A line of a list of flx: build_line (flx/fct1.c) writes what is known   *)
(* of a file, and get_field1 with fill_from_signfs_line (flx/input_file.c) *)
(* read it back, when flx check compares a list with a file system.        *)
(*                                                                         *)
(* Names are sequences of characters, those that reading treats in a way   *)
(* of their own and the digits they are written with.  Of the other fields *)
(* only the value is kept.                                                 *)
(***************************************************************************)
EXTENDS Integers, Sequences, SequencesExt

CONSTANTS
  FileNames, \* names of files: sequences of characters
  Targets,   \* what links point to, <<>> if that could not be read
  Devices    \* numbers of devices: [major, minor]

ASSUME FileNamesAssumption == FileNames \subseteq Seq(STRING) \ {<<>>}
ASSUME TargetsAssumption == Targets \subseteq Seq(STRING)
ASSUME DevicesAssumption == Devices \subseteq [major : Nat, minor : Nat]

(* Characters that are written as % and two digits, each with its digits.  *)
Digits == [space |-> <<"2", "0">>, percent |-> <<"2", "5">>, dollar |-> <<"2", "4">>,
           backslash |-> <<"5", "c">>, high |-> <<"e", "9">>]
Escaped == DOMAIN Digits
Hex == {"0", "2", "4", "5", "9", "c", "e"}

VARIABLES
  desc,     \* the file that is signed
  human,    \* the option that adds readable forms in parentheses
  line,     \* its line, from the mode on
  numbers,  \* the values of its other fields
  back,     \* what is read of the line
  slpc

slvars == <<desc, human, line, numbers, back, slpc>>

Rdev(d) == d.major * 256 + (d.minor % 256) + (d.minor \div 256) * 1048576
NoDevice == [major |-> 0, minor |-> 0]

(* Only links have a target, if it could be read; only files and links     *)
(* have a sum, if they could be read.                                      *)
Plain == [type |-> "file", size |-> 1, device |-> NoDevice, sum |-> "none", target |-> <<>>]
Descriptions ==
  {Plain, [Plain EXCEPT !.sum = "md5"], [Plain EXCEPT !.type = "dir"]}
  \cup {[Plain EXCEPT !.type = "device", !.device = d] : d \in Devices}
  \cup {[Plain EXCEPT !.type = "link", !.target = t,
                       !.sum = IF t = <<>> THEN "none" ELSE "md5"] : t \in Targets}

SignLineInit ==
  /\ \E p \in FileNames, d \in Descriptions : desc = [path |-> p, of |-> d]
  /\ human \in BOOLEAN
  /\ line = <<>> /\ numbers = <<>> /\ back = <<>>
  /\ slpc = "build"

(* Mutant: what introduces an escaped character is written as it is. *)
EscapeSpacesOnly(s) ==
  FlattenSeq([i \in DOMAIN s |->
    IF s[i] \in Escaped \ {"percent"} THEN <<"percent">> \o Digits[s[i]] ELSE <<s[i]>>])

(* escape_str.                                                              *)
Escape(s) ==
  FlattenSeq([i \in DOMAIN s |->
    IF s[i] \in Escaped THEN <<"percent">> \o Digits[s[i]] ELSE <<s[i]>>])

(* The mode and the time, with their readable forms.                       *)
ModeAndTime ==
  IF human THEN <<"m", "(", "r", ")", "space", "t", "(", "d", "space", "h", ")", "space">>
  ELSE <<"m", "space", "t", "space">>
LinkText(d) ==
  IF d.type = "link" /\ d.target # <<>> THEN <<"space">> \o Escape(d.target) ELSE <<>>

(* The size of a directory is not written, the numbers of a device are      *)
(* written instead of a size, and the target of a link after its name.     *)
BuildLine ==
  /\ slpc = "build"
  /\ numbers' = [type |-> desc.of.type, sum |-> desc.of.sum,
                 size |-> IF desc.of.type = "dir" THEN 0 ELSE desc.of.size,
                 device |-> desc.of.device]
  /\ line' = ModeAndTime \o Escape(desc.path) \o LinkText(desc.of)
  /\ slpc' = "read"
  /\ UNCHANGED <<desc, human, back>>

----------------------------------------------------------------------------
(* get_field1: a field ends at a space or at a parenthesis, what is in     *)
(* which is passed; a backslash, or % with two digits, stands for one      *)
(* character.                                                              *)
Stripped(s, k) ==
  LET others == {j \in k .. Len(s) : s[j] # "space"}
  IN IF others = {} THEN Len(s) + 1 ELSE Min(others)
AfterParenthesis(s, k) ==
  LET closing == {j \in k .. Len(s) : s[j] = ")"}
  IN IF closing = {} THEN Len(s) + 1 ELSE Min(closing) + 1
Character(a, b) ==
  IF \E c \in Escaped : Digits[c] = <<a, b>> THEN CHOOSE c \in Escaped : Digits[c] = <<a, b>>
  ELSE "other"

(* One round of its loop: what was read so far, and where it goes on.      *)
FieldWith(f, c, k) == [value |-> Append(f.value, c), at |-> k, open |-> TRUE]
FieldEnd(f, k) == [value |-> f.value, at |-> k, open |-> FALSE]
ReadChar(s, f) ==
  LET k == f.at
  IN IF ~f.open THEN f
     ELSE IF k > Len(s) THEN FieldEnd(f, k)
     ELSE IF s[k] = "space" THEN FieldEnd(f, k + 1)
     ELSE IF s[k] = "(" THEN FieldEnd(f, AfterParenthesis(s, k))
     ELSE IF s[k] = "backslash" /\ k < Len(s) THEN FieldWith(f, s[k + 1], k + 2)
     ELSE IF s[k] = "percent" /\ k + 1 < Len(s) /\ {s[k + 1], s[k + 2]} \subseteq Hex
     THEN FieldWith(f, Character(s[k + 1], s[k + 2]), k + 3)
     ELSE FieldWith(f, s[k], k + 1)

(* The field that begins at k; more rounds than characters are not needed. *)
Field(s, k) ==
  LET f[n \in 0 .. Len(s) + 1] ==
        IF n = 0 THEN [value |-> <<>>, at |-> k, open |-> TRUE] ELSE ReadChar(s, f[n - 1])
  IN f[Len(s) + 1]

(* The mode, the time, the name and the target, empty if there is none.    *)
Fields(s) ==
  LET mode == Field(s, Stripped(s, 1))
      time == Field(s, Stripped(s, mode.at))
      name == Field(s, Stripped(s, time.at))
      link == Field(s, Stripped(s, name.at))
  IN <<mode.value, time.value, name.value, link.value>>

(* The number of a device is put together with eight bits for the minor.   *)
ReadRdev(d) == d.major * 256 + d.minor

(* fill_from_signfs_line: the fields in order.                              *)
ReadBack ==
  /\ slpc = "read"
  /\ LET fields == Fields(line)
     IN back' = [fields |-> fields, path |-> fields[3], target |-> fields[4],
                 size |-> IF numbers.type = "device" THEN 0 ELSE numbers.size,
                 rdev |-> IF numbers.type = "device" THEN ReadRdev(numbers.device) ELSE 0,
                 sum |-> numbers.sum]
  /\ slpc' = "compared"
  /\ UNCHANGED <<desc, human, line, numbers>>

SignLineNext == BuildLine \/ ReadBack

SignLineSpec == SignLineInit /\ [][SignLineNext]_slvars

----------------------------------------------------------------------------
(* A file that did not change is found the same when its line is read      *)
(* back, with its name, whatever characters are in it and in the target,   *)
(* and with the readable forms too; but for names with a parenthesis, and  *)
(* minor numbers of more than eight bits.                                  *)
Parenthesis(s) == \E i \in DOMAIN s : s[i] = "("
RoundTrip ==
  slpc = "compared" /\ ~Parenthesis(desc.path) /\ ~Parenthesis(desc.of.target) =>
    /\ back.path = desc.path
    /\ back.fields[1] = <<"m">> /\ back.fields[2] = <<"t">>
    /\ desc.of.type = "file" => back.size = desc.of.size /\ back.sum = desc.of.sum
    /\ desc.of.type = "device" /\ desc.of.device.minor < 256 => back.rdev = Rdev(desc.of.device)
    /\ desc.of.type = "link" => back.target = desc.of.target
=============================================================================
