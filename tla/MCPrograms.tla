----------------------------- MODULE MCPrograms -----------------------------
(* Instances of the programs for TLC; those of fp and of the environment   *)
(* are in the modules it extends.                                          *)
EXTENDS Programs, MCFindPart, MCEnvStore

(* ta: directories, files below and beside them, whole or with a part of a *)
(* block, links, a device above a file, a member of another type, a file   *)
(* with two names that is written again, and prefixes that end with a      *)
(* slash or not.                                                           *)
No == <<>>
A(x) == << <<x>> >>
In(x, y) == << <<x>>, <<y>> >>
MCMember(t, p, n, l, s, a) ==
  [type |-> t, prefix |-> p, name |-> n, link |-> l, size |-> s, at |-> a]
MCArchives ==
  {<<MCMember("dir", No, A("d"), No, 0, 0), MCMember("file", A("d"), A("f"), No, 3, 2),
     MCMember("sym", << <<"d">>, <<>> >>, A("l"), A("f"), 0, 8)>>,
   <<MCMember("file", No, In("e", "g"), No, 5, 0), MCMember("other", No, A("x"), No, 1, 8),
     MCMember("file", No, A("h"), No, 2, 12)>>,
   <<MCMember("node", No, In("d", "n"), No, 0, 0),
     MCMember("file", No, << <<"d">>, <<"n">>, <<"x">> >>, No, 1, 2)>>,
   <<MCMember("file", No, A("h"), No, 2, 0), MCMember("hard", No, A("k"), A("h"), 0, 4),
     MCMember("file", No, A("k"), No, 3, 6)>>}
MCTarTexts == UNION {{m.prefix, m.name, m.link} : m \in UNION {Range(ms) : ms \in MCArchives}}
MCDirs == {<<>>, A("t")}
MCExisting ==
  {[p \in {} |-> Dir], [p \in {A("d")} |-> Entry("file", 0, <<>>)]}
MCRefusals == {{A("d")}, {A("h")}}

MCMessages == {[kind |-> k, pieces |-> p] : k \in {"runlevel", "setenv"}, p \in 1 .. 2}

(* Devices with a signature at the beginning, of ext, of a boot sector, or *)
(* several of them, and one that cannot be read.                           *)
MCImages ==
  {[short |-> s, head |-> h, ext |-> e, boot |-> b] :
     s \in BOOLEAN, h \in {"hsqs4", "xfs", "jffs2", "none"},
     e \in {{}, {"magic"}, {"magic", "journal"}, {"magic", "journal", "extent"}},
     b \in {"none", "fat", "mbr"}}
MCFilesystems == <<"squashfs", "ext4", "vfat">>

(* mdev: up to three fields.                                               *)
MCField(t, r, s) == [type |-> t, ranges |-> r, scale |-> s]
MCFields ==
  {MCField("c", << <<1, 2>>, <<5, 5>>, <<4, 3>> >>, 64), MCField("i", << <<0, 3>> >>, 1),
   MCField("I", << <<254, 1>> >>, 16), MCField("h", << <<7, 7>> >>, 200), MCField("none", << <<0, 0>> >>, 0)}
MCRules == {<<>>} \cup UNION {[1 .. n -> MCFields] : n \in 1 .. 2}
             \cup {<<MCField("i", << <<0, 3>> >>, 1), f, MCField("c", << <<1, 2>>, <<5, 5>> >>, 64)>> : f \in MCFields}

(* signfs. *)
(* Lists of up to three lines on a directory, a file in it and a file      *)
(* beside it, in any order, with repetitions and with other types.         *)
MCLine(p, t, c) == [path |-> p, type |-> t, content |-> c]
MCLines ==
  {MCLine(<<"a">>, "dir", "none"), MCLine(<<"a">>, "file", "1"), MCLine(<<"a", "x">>, "file", "1"),
   MCLine(<<"b">>, "file", "1")}
MCListings == UNION {[1 .. n -> MCLines] : n \in 0 .. 3}

D == [type |-> "dir", content |-> "none"]
F(c) == [type |-> "file", content |-> c]
Tree(S, a, x, b) ==
  [p \in S |-> CASE p = <<"a">> -> a [] p = <<"a", "x">> -> x [] OTHER -> b]
MCSystems ==
  {Tree(S, D, x, F("2")) : S \in {{<<"a">>, <<"a", "x">>}, {<<"a">>, <<"a", "x">>, <<"b">>}},
                           x \in {F("1"), F("2"), D}}
  \cup {Tree(S, a, D, F("1")) : S \in SUBSET {<<"a">>, <<"b">>}, a \in {D, F("2")}}
MCSecret == {<<"b">>}
MCOnlys == {{"old", "new"}, {"new", "others"}}

MCLeft == {{}, {0}, {1}}
MCTexts == {<<>>, <<2>>, <<2, 1>>}

(* Names with every character that is written or read in a way of its own, *)
(* alone and next to the others, with digits behind a percent that is part *)
(* of the name, and with parentheses.                                      *)
MCCharacters == {"space", "percent", "backslash", "high", "2", "5"}
MCFileNames ==
  UNION {[1 .. n -> MCCharacters] : n \in 1 .. 3}
  \cup {<<"a", "(", "b", ")">>, <<"a", ")", "percent">>}
MCTargets ==
  {<<>>, <<"a">>, <<"percent", "2", "5">>, <<"space">>, <<"backslash", "space", "2">>, <<"(", "a">>}
MCDevices == {[major |-> 8, minor |-> 1], [major |-> 8, minor |-> 300]}
=============================================================================
