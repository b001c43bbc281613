-------------------------- MODULE MCCommandLayers --------------------------
(* The layers of the commands that share no state, each by itself.  One of  *)
(* them moves in each behaviour; they share the variables.                  *)
EXTENDS CommandOptions, TLC

CONSTANTS Families, MaxFlags, MaxOfFamily, Absent

VARIABLES layer, v1, v2, v3, v4, v5, v6, v7, v8
lvars == <<layer, v1, v2, v3, v4, v5, v6, v7, v8>>
----------------------------------------------------------------------------
C == INSTANCE CommandLine WITH command <- v1, given <- v2, outcome <- v3

Accepted(c, flags) == {g \in SUBSET flags : Accepts(c, g \cup {"file", "unstable"})}
OwnerFamily == {"keep_permission", "uname", "uid", "gid", "numeric_owner", "no_same_owner"}
TimeFamily == {"keep_timestamp", "mtime", "clamp_mtime"}
TarFamily == {"same_owner", "no_same_permissions", "same_permissions", "keep_fflags",
              "numeric_owner", "no_same_owner"}
Made ==
  {Options("create", g)[1][4] : g \in Accepted("create", OwnerFamily) \cup Accepted("create", TimeFamily)}
    \cup {Options("tar create", g)[1][4] : g \in Accepted("tar create", TarFamily \cup {"keep_acl"})}
Used ==
  {Options("extract", g)[3] : g \in Accepted("extract", OwnerFamily) \cup Accepted("extract", TimeFamily)}
    \cup {Options("tar extract", g)[3] : g \in Accepted("tar extract", TarFamily \cup {"keep_acl"})}

File(kind, uid, mode, mtime, xattrs, flags) ==
  [kind |-> kind, uid |-> uid, gid |-> 1, mode |-> mode, created |-> Absent, mtime |-> mtime,
   atime |-> 2, xattrs |-> xattrs, acl |-> "rules", flags |-> flags]
SourceFiles ==
  {File("file", 1, {"u+r", "suid", "g+w"}, -3, {"user.a", "system.posix_acl_access"}, {"schg", "uchg"}),
   File("file", 2, {"u+r"}, 5, {}, {"nodump"}), File("dir", 4, {"u+r", "g+w"}, 9, {}, {}),
   File("file", 6, {}, 5, {}, {}), File("symlink", 1, {"u+r", "g+w"}, 0, {}, {})}
ForeignEntries ==
  LET none == [created |-> Absent, mtime |-> Absent, atime |-> Absent, uid |-> Absent,
               gid |-> Absent, uname |-> Absent, gname |-> Absent, mode |-> Absent,
               xattrs |-> {}, acl |-> Absent, flags |-> {}]
  IN {none, [none EXCEPT !.mode = {"suid", "u+r"}],
      [none EXCEPT !.uid = 15, !.uname = "carol", !.mtime = 100, !.atime = -100],
      [none EXCEPT !.uid = 4, !.gid = 7, !.uname = "nobody here", !.flags = {"schg"}],
      [none EXCEPT !.uid = 9, !.xattrs = {"system.posix_acl_access"}]}
A == INSTANCE FileAttributes WITH
       Here <- 0 :> "root" @@ 1 :> "alice" @@ 2 :> "a name of more than 255 bytes" @@ 4 :> "carol",
       There <- 0 :> "root" @@ 1 :> "alice" @@ 3 :> "bob" @@ 5 :> "carol",
       IdSpan <- 8, Umask <- {"g+w"}, Now <- 7, Override <- 4, TimeLimit <- 20,
       source <- v1, made <- v2, entry <- v3, used <- v4, target <- v5, step <- v6, warned <- v7

D == INSTANCE DateTimes WITH
       NANOS <- 2, U32 <- 9, SystemOffset <- 1, TextOffset <- 3, MaxTimestamp <- 13,
       PlatformMin <- -10, PlatformMax <- 40, text <- v1, value <- v2, instant <- v3, shown <- v4,
       Texts <- {[kind |-> "epoch", neg |-> n, secs |-> s, nanos |-> f] :
                   n \in BOOLEAN, s \in 0..6, f \in 0..1}
                \cup {[kind |-> "clock", sep |-> p, zone |-> z, ticks |-> t] :
                   p \in {"T", " "}, z \in {"none", "Z", "region", "offset"}, t \in -17..20}
                \cup {[kind |-> "clock", sep |-> "none", zone |-> "none", ticks |-> 4 * t] :
                   t \in -3..4}

\* Patterns of up to three characters, and names with what makes them hard to read.
Chars == {"a", "b", "/", "."}
P == INSTANCE PathMatch WITH
       Alphabet <- Chars \cup {"*", "?", "[", "]", "!", "\\", "^", "$", "-"},
       Names <- UNION {[1..n -> Chars] : n \in 1..2}
                \cup {<<"a", "/", "b">>, <<"/", "a", "/">>, <<".", "/", "a">>, <<"a", ".", "/", "b">>,
                      <<"a", "/", "b", "/", "a">>, <<"/", "a", "/", "b">>, <<"a", "/", "/", "b">>},
       pattern <- v1, name <- v2, found <- v3

N == INSTANCE PathNames WITH
       Tokens <- {<<"a">>, <<"C", ":">>, <<".">>, <<".", ".">>, <<"/">>, <<"\\">>,
                  <<"\\", "\\", "?", "\\">>, <<"U", "N", "C", "\\">>, <<"!">>},
       MaxTokens <- 4, Garbled <- "!", path <- v1, tokens <- v2, editor <- v3, named <- v4

Regex(c, star, anchored, group) == [char |-> c, star |-> star, anchored |-> anchored, group |-> group]
T == INSTANCE Transformers WITH
       Regexes <- {Regex("", FALSE, FALSE, FALSE), Regex("a", FALSE, FALSE, TRUE),
                   Regex("a", TRUE, FALSE, FALSE), Regex("x", FALSE, TRUE, FALSE),
                   Regex("x", FALSE, FALSE, FALSE)},
       Replacements <- {<<>>, <<"~", "x">>, <<"\\", "1", "a">>, <<"x", "$0">>},
       Flags <- {<<>>, <<"g">>, <<"b", "g">>, <<"R", "g">>, <<"R", "r">>, <<"2">>, <<"s", "q">>},
       NamesToEdit <- {<<"b", "a", "b", "a">>, <<"a", "x", "x", "a", "a">>},
       MaxRules <- 2, given <- v1, style <- v2, rules <- v3, input <- v4, output <- v5

\* Trees of two levels: nothing, files, a link for a directory, a link out of the tree.
Entry(n, k, to, m, t, u) == [name |-> n, kind |-> k, to |-> to, mode |-> m, mtime |-> t, up |-> u]
rw == {"r", "w"}
rx == {"r", "x"}
DirD == <<"d">>
FileDF == <<"d", "f">>
FileF == <<"f">>
TreeEntries ==
  {Entry(DirD, "dir", <<>>, {"r"}, 2, FALSE), Entry(FileDF, "file", <<>>, rw, 3, FALSE),
   Entry(<<"d", "d">>, "dir", <<>>, rx, Absent, FALSE), Entry(FileF, "symlink", DirD, Absent, 6, FALSE),
   Entry(FileF, "file", <<>>, {"r"}, 5, FALSE), Entry(FileF, "hardlink", FileDF, rw, 3, FALSE)}
MoreEntries ==
  TreeEntries \cup {Entry(DirD, "file", <<>>, rw, 4, FALSE), Entry(DirD, "symlink", <<"..">>, Absent, Absent, FALSE),
                    Entry(FileDF, "file", <<>>, Absent, Absent, TRUE)}
TreePaths == UNION {[1..n -> {"d", "f", "o"}] : n \in 1..2}
Was(k, t, to) == [kind |-> k, by |-> 0, mode |-> {"r", "w", "x"}, mtime |-> t, to |-> to]
Disk(nodes, tree) == [tree |-> tree @@ [p \in TreePaths |-> 0], node |-> nodes, err |-> ""]
EmptyDisk == Disk(<<>>, <<>>)
Disks ==
  {EmptyDisk, Disk(<<Was("dir", 1, <<>>), Was("file", 3, <<>>), Was("file", 4, <<>>)>>, DirD :> 1 @@ FileDF :> 2 @@ FileF :> 3),
   Disk(<<Was("file", 3, <<>>), Was("link", 3, DirD)>>, DirD :> 1 @@ FileF :> 2),
   Disk(<<Was("link", 3, <<"o">>), Was("dir", 3, <<>>), Was("file", 3, <<>>)>>,
        DirD :> 1 @@ <<"o">> :> 2 @@ <<"o", "f">> :> 3)}
ExtractOpts ==
  [strategy : {"Never", "Always", "KeepNewer", "KeepOlder"}, unlink_first : BOOLEAN, safe_writes : BOOLEAN,
   allow_unsafe_links : {FALSE}, absolute_paths : BOOLEAN, keep : {TRUE}, patterns : {<<>>}, exclude : {{}},
   newer : {Absent}, missing : {"include"}, fast_read : {FALSE}]
SelectOpts ==
  [strategy : {"Always"}, unlink_first : {FALSE}, safe_writes : {FALSE}, allow_unsafe_links : {TRUE},
   absolute_paths : {FALSE}, keep : {FALSE}, patterns : {<<DirD>>, <<FileDF, FileF>>, <<DirD, FileF>>},
   exclude : {{}, {FileDF}}, newer : {Absent, 3}, missing : {"include", "exclude"}, fast_read : BOOLEAN]
Upto(n, entries) == UNION {[1..k -> entries] : k \in 1..n}
E == INSTANCE ExtractTree WITH
       FileNames <- {"d", "f", "o"}, Now <- 9,
       Jobs <- {[archives |-> Upto(2, MoreEntries), opts |-> ExtractOpts, disks |-> Disks],
                [archives |-> Upto(3, TreeEntries), disks |-> {EmptyDisk}, opts |->
                   {o \in ExtractOpts : o.strategy = "Always" /\ ~o.unlink_first /\ ~o.absolute_paths}],
                [archives |-> Upto(2, MoreEntries), opts |-> SelectOpts, disks |-> {EmptyDisk}],
                [archives |-> Upto(3, TreeEntries), opts |-> SelectOpts, disks |-> {EmptyDisk}]},
       job <- v1, disk <- v2, pos <- v3, matched <- v4, links <- v5, dirs <- v6, skips <- v7, outcome <- v8

OfLevel(name, value) == [name |-> name, value |-> value]
S == INSTANCE EntryStreams WITH
       Passwords <- {"p", "q"}, Compressions <- {"NO", "DEFLATE", "ZSTANDARD", "private"},
       Levels <- {OfLevel("Default", 0), OfLevel("Max", 0), OfLevel("Custom", -1)},
       Names <- {[raw |-> "x/../a", clean |-> "a"]}, Renamed <- {[raw |-> "b", clean |-> "b"]},
       ChunkSizes <- {2, 9}, MaxContent <- 3, KEY_CACHE_CAP <- 1,
       builder <- v1, options <- v2, salts <- v3, work <- v4, content <- v5, entry <- v6, reader <- v7

\* Listings: names that cover each other, links with and without a target that can
\* be read, an entry without an owner, an ACL that cannot be read, solid blocks.
NoOne == [uid |-> Absent, gid |-> Absent, uname |-> Absent, gname |-> Absent, mode |-> Absent]
OnDate(t) == [created |-> Absent, modified |-> t, accessed |-> 1]
Listed(n, k, to, o, t, acl) ==
  [name |-> n, kind |-> k, to |-> to, encryption |-> "-", compression |-> "-", owner |-> o,
   raw_size |-> Absent, times |-> OnDate(t), xattrs |-> <<"user.a">>, acl |-> acl,
   chunks |-> <<"faCl", "myCh">>, fflags |-> <<"nodump">>]
ListedEntries ==
  {Listed(DirD, "dir", Absent, [NoOne EXCEPT !.gid = "7"], 2, Absent),
   Listed(<<"d", "f">>, "file", Absent, NoOne, Absent, "rules"),
   Listed(<<"d", "control">>, "symlink", <<"f">>, [NoOne EXCEPT !.mode = "rw-", !.uname = ""], 30, Absent),
   Listed(FileF, "hardlink", Absent, [NoOne EXCEPT !.uid = "1", !.uname = "alice"], 6, "malformed"),
   Listed(<<"f", "">>, "dir", Absent, NoOne, 6, Absent)}
Alone(e) == [block |-> Absent, entries |-> <<e>>]
Blocks ==
  {[block |-> [encryption |-> "aes(ctr)", compression |-> "zstandard", opens |-> o], entries |-> <<e, f>>] :
     o \in BOOLEAN, e \in {x \in ListedEntries : x.name = DirD}, f \in ListedEntries}
Items == {Alone(e) : e \in ListedEntries}
ListingOpts(fast, formats) ==
  [fast_read : fast, solid : BOOLEAN, no_recursive : BOOLEAN, newer : {Absent, 3}, missing : {"include"},
   excluded : {{}, {<<"d", "f">>}}, show : {{}}, long : {FALSE}, format : formats, header : {FALSE},
   time_field : {"modified"}, time_format : {"auto"}, numeric_owner : {FALSE}, classify : {FALSE},
   dir_trailing_slash : {FALSE}, hide_control_chars : {FALSE}]
FormatOpts ==
  [fast_read : {FALSE}, solid : {TRUE}, no_recursive : {FALSE}, newer : {Absent}, missing : {"include"},
   excluded : {{}}, show : {{}, {"xattr", "private"}, {"acl", "fflags"}}, long : BOOLEAN, header : BOOLEAN,
   format : {Absent, "line", "bsdtar", "table", "jsonl", "csv", "tree"},
   time_field : {"created", "modified"}, time_format : {"long"}, numeric_owner : BOOLEAN,
   classify : BOOLEAN, dir_trailing_slash : {TRUE}, hide_control_chars : {TRUE}]
L == INSTANCE ListEntries WITH
       Now <- 9, SixMonths <- 4, MaxTime <- 20,
       Jobs <- {[archives |-> Upto(3, Items), operands |-> {<<>>, <<DirD>>, <<FileF, DirD>>, <<DirD, FileDF>>},
                 opts |-> {o \in ListingOpts(BOOLEAN, {"line"}) : o.solid}],
                [archives |-> Upto(2, Blocks \cup {Alone(e) : e \in {x \in ListedEntries : x.name = FileF}}),
                 operands |-> {<<>>, <<FileDF>>, <<FileF, DirD>>}, opts |-> ListingOpts(BOOLEAN, {"csv"})],
                [archives |-> Upto(1, Blocks) \cup Upto(2, Items), operands |-> {<<>>}, opts |-> FormatOpts]},
       job <- v1, pos <- v2, rows <- v3, matched <- v4, outcome <- v5, printed <- v6
----------------------------------------------------------------------------
(* Edits: three entries, one of them with names, rules and attributes that are hard to
   quote, and edits before a dump of them is restored. *)
Ugo(u, g, o) == [u |-> u, g |-> g, o |-> o, special |-> {}]
Ann == [uid |-> 5, gid |-> 6, uname |-> "ann", gname |-> "staff", usid |-> "S-1", gsid |-> Absent,
        mode |-> Ugo({"r", "w"}, {"r"}, {})]
Somebody == [Ann EXCEPT !.uid = Absent, !.gname = Absent, !.mode = Absent, !.usid = Absent]
Unnamed == [Somebody EXCEPT !.uname = ""]
ListChunk(p) == [ty |-> "faCl", platform |-> p, body |-> Absent]
AceChunk(p, ace) == [ty |-> "faCe", platform |-> p, body |-> ace]
OwnChunk == [ty |-> "myTy", platform |-> Absent, body |-> Absent]
UserAce == [flags |-> {}, owner |-> <<"u", "">>, allow |-> "allow", permission |-> {"r", "w"}]
BobAce == [flags |-> {"default"}, owner |-> <<"u", "bob">>, allow |-> "deny",
           permission |-> {"read_data", "append", "x"}]
RuleChunks ==
  {<<OwnChunk>>, <<ListChunk("linux"), AceChunk(Absent, UserAce), OwnChunk>>,
   <<AceChunk(Absent, UserAce), ListChunk("windows"), AceChunk(Absent, BobAce),
     AceChunk("macos", UserAce), AceChunk(Absent, UserAce)>>,
   <<ListChunk("freebsd"), AceChunk(Absent, Absent)>>}
\* Values  "\   and  \" with a line end,  empty,  1, 255 and 0,  0x1;  a name  a=
AttributeLists ==
  {<<>>, <<<<<<97>>, <<34, 92>>>>>>, <<<<<<97>>, <<92, 34, 10>>>>, <<<<98>>, <<>>>>>>,
   <<<<<<97, 61>>, <<49, 255, 0>>>>, <<<<98>>, <<48, 120, 49>>>>>>}
Edited(name, kind, own, modified, link_type, xattrs, chunks) ==
  [name |-> name, kind |-> kind, own |-> own, link_type |-> link_type, raw_size |-> 3, xattrs |-> xattrs,
   times |-> [created |-> Absent, modified |-> modified, accessed |-> 1], chunks |-> chunks]
EditedArchive(name, xattrs, chunks) ==
  <<Edited(2, "file", Ann, 7, Absent, xattrs, chunks),
    Edited(1, "symlink", Unnamed, Absent, "file", <<>>, <<OwnChunk>>),
    Edited(name, "dir", Somebody, 7, Absent, <<<<<<97>>, <<49>>>>>>,
           <<ListChunk("linux"), AceChunk(Absent, BobAce)>>)>>
Act(who, op, literal, copy_from) == [who |-> who, op |-> op, literal |-> literal, copy_from |-> copy_from]
By(by, order) == [by |-> by, order |-> order]
Rule(default, owner, allow, permissions) ==
  [default |-> default, owner |-> owner, allow |-> allow, permissions |-> permissions]
EditedOwners == {Absent, [as |-> "Name", id |-> Absent, name |-> "bob"],
                 [as |-> "ID", id |-> 8, name |-> Absent], [as |-> "System", id |-> 9, name |-> "cy"]}
B == INSTANCE EntryEdits WITH
       Archives <- {EditedArchive(3, x, <<>>) : x \in AttributeLists}
                     \cup {EditedArchive(3, <<>>, c) : c \in RuleChunks}
                     \cup {EditedArchive(2, <<>>, <<OwnChunk>>)},
       Selections <- {{2}, {1, 3}},
       Modes <- {[numeric |-> Ugo({"r"}, {}, {}), actions |-> <<>>],
                 [numeric |-> Absent, actions |-> <<Act({"g", "o"}, "=", {}, {"u"}),
                                                    Act({"u"}, "-", {"w"}, {}), Act({"o"}, "+", {"x"}, {"g"})>>],
                 [numeric |-> Absent, actions |-> <<Act({"u"}, "=", {"x"}, {})>>]},
       Owners <- {[user |-> u, group |-> Absent] : u \in EditedOwners}
                   \cup {[user |-> Absent, group |-> g] : g \in EditedOwners},
       Rules <- [platform : {"", "linux"}, set : {Absent, Rule(FALSE, <<"g", "">>, Absent, {"r"})},
                 modify : {Absent, Rule(FALSE, <<"u", "">>, "allow", {"x"}),
                           Rule(TRUE, <<"u", "bob">>, Absent, {"w"})},
                 remove : {Absent, Rule(FALSE, <<"u", "">>, Absent, {})}],
       Attributes <- [name : {Absent, <<98>>, <<99>>}, value : {<<50>>}, remove : {Absent, <<97>>}],
       Keeps <- [permission : BOOLEAN, timestamp : {FALSE}, xattr : BOOLEAN, acl : BOOLEAN,
                 private : {Absent, {}, {"myTy"}}]
                  \cup [permission : {FALSE}, timestamp : {TRUE}, xattr : {FALSE}, acl : {FALSE}, private : {Absent}],
       SortKeys <- {<<By("name", "asc")>>, <<By("modified", "desc"), By("name", "asc")>>,
                    <<By("modified", "asc")>>},
       MaxEdits <- 1,
       archive <- v1, edits <- v2, before <- v3, last <- v4, dump <- v5
----------------------------------------------------------------------------
(* Verification: an archive whose chunks may each be damaged, in one part and in two,
   and every way that an entry can fail to be decoded. *)
Plain(good) ==
  [solid |-> FALSE, encryption |-> "no", mode |-> "cbc", good |-> good, torn |-> FALSE, inner |-> <<>>]
Encrypted(cipher, modes, goods) ==
  [solid : {FALSE}, encryption : {cipher}, mode : modes, good : goods, torn : {FALSE}, inner : {<<>>}]
HeldEntries ==
  {Plain(TRUE), Plain(FALSE)} \cup Encrypted("aes", {"ctr", "gcm"}, BOOLEAN) \cup Encrypted("other", {"ctr"}, {TRUE})
    \cup [solid : {TRUE}, encryption : {"no", "camellia"}, mode : {"cbc", "gcm"}, good : {TRUE}, torn : BOOLEAN,
          inner : {<<Plain(TRUE), Plain(TRUE)>>, <<Plain(FALSE)>>}]
Chunk(ty, of, intact) == [ty |-> ty, of |-> of, intact |-> intact]
OnePart ==
  {<<<<Chunk("FHED", 1, w[1]), Chunk("FDAT", 1, w[2]), Chunk("FEND", 1, w[3]), Chunk("FHED", 2, w[4]),
      Chunk("FEND", 2, w[5]), Chunk("FHED", 3, TRUE), Chunk("FDAT", 3, w[6]), Chunk("FEND", 3, w[7]),
      Chunk("AEND", 0, w[8])>>>> : w \in [1..8 -> BOOLEAN]}
TwoParts ==
  {<<<<Chunk("FHED", 1, TRUE), Chunk("FEND", 1, TRUE), Chunk("FHED", 2, w[1]), Chunk("FDAT", 2, w[2]),
      Chunk("ANXT", 0, w[3]), Chunk("AEND", 0, w[4])>>,
    <<Chunk("FDAT", 2, w[5]), Chunk("FEND", 2, w[6]), Chunk("FHED", 3, w[7]), Chunk("FEND", 3, TRUE),
      Chunk("AEND", 0, TRUE)>>>> : w \in [1..7 -> BOOLEAN]}
TwoBlocks ==
  {<<<<Chunk("SHED", 1, TRUE), Chunk("SDAT", 1, w[1]), Chunk("SEND", 1, TRUE), Chunk("SHED", 2, TRUE),
      Chunk("SEND", 2, w[2]), Chunk("AEND", 0, TRUE)>>>> : w \in [1..2 -> BOOLEAN]}
CutShort == {<<<<Chunk("FHED", 1, TRUE), Chunk("FEND", 1, TRUE), Chunk("FHED", 2, TRUE)>>>>}
V == INSTANCE VerifyArchive WITH
       Jobs <- [parts : OnePart \cup TwoParts, entries : {<<Plain(TRUE), Plain(FALSE), Plain(TRUE)>>},
                fast : BOOLEAN, password : {"none"}]
         \cup [parts : TwoBlocks \cup CutShort, fast : BOOLEAN, password : {"none", "right", "wrong"},
               entries : {<<e, f>> : e \in HeldEntries, f \in Encrypted("aes", {"ctr"}, BOOLEAN) \cup {Plain(TRUE)}}],
       job <- v1, at <- v2, kept <- v3, more <- v4, report <- v5, resyncing <- v6, outcome <- v7

\* Comparison with files: -20 is a whole second before the epoch.
Stored(name, kind, to, mode, mtime, uid, size, data) ==
  [name |-> name, kind |-> kind, to |-> to, mode |-> mode, mtime |-> mtime, uid |-> uid, gid |-> Absent,
   size |-> size, data |-> data, decodes |-> TRUE, readable |-> TRUE]
WholeEntries ==
  {Stored(DirD, "dir", <<>>, 7, -20, 2, Absent, <<>>), Stored(FileDF, "file", <<>>, 6, -20, 1, 1, <<"x">>),
   Stored(FileDF, "file", <<>>, Absent, 13, 1, Absent, <<"y">>)}
StoredEntries ==
  WholeEntries
    \cup {Stored(FileF, "symlink", FileDF, Absent, Absent, Absent, Absent, <<>>),
          Stored(FileF, "hardlink", FileDF, 6, Absent, 1, Absent, <<>>),
          [Stored(FileDF, "file", <<>>, 6, 10, 1, 2, <<"x", "y">>) EXCEPT !.decodes = FALSE],
          [Stored(FileF, "file", <<>>, 6, 10, 1, 1, <<"x">>) EXCEPT !.readable = FALSE]}
OnDisk(inode, kind, to, mode, mtime, data) ==
  [inode |-> inode, kind |-> kind, to |-> to, mode |-> mode, mtime |-> mtime, uid |-> 1, gid |-> 1,
   data |-> data, opens |-> inode # 9]
SomeFile == OnDisk(2, "file", <<>>, 6, -19, <<"x">>)
InD == {Absent, SomeFile, OnDisk(2, "file", <<>>, 6, 14, <<"y">>), OnDisk(2, "dir", <<>>, 7, 19, <<>>),
        OnDisk(9, "file", <<>>, 6, 10, <<"x">>)}
BesideD == {Absent, SomeFile, OnDisk(3, "symlink", FileDF, 6, 10, <<>>),
            OnDisk(3, "symlink", DirD, 6, 10, <<>>), OnDisk(3, "file", <<>>, 6, 10, <<"y">>)}
ComparedDisks ==
  {DirD :> OnDisk(1, "dir", <<>>, 7, -11, <<>>) @@ FileDF :> g @@ FileF :> f : g \in InD, f \in BesideD}
    \cup {DirD :> OnDisk(1, "file", <<>>, 6, 15, <<"x">>) @@ FileDF :> Absent @@ FileF :> SomeFile}
F == INSTANCE DiffArchive WITH
       Jobs <- {[entries |-> Upto(1, StoredEntries), disks |-> ComparedDisks, fulls |-> BOOLEAN,
                 operands |-> {{}, {FileF, FileDF}},
                 compares |-> {{}, {"mode", "mtime"}, {"size"}, {"size", "content"}, {"default", "uid"},
                               {"symlink", "hardlink", "content"}, {"gid"}}],
                [entries |-> [1..2 -> WholeEntries], disks |-> ComparedDisks, fulls |-> {FALSE},
                 operands |-> {{}, {DirD}, {FileDF}}, compares |-> {{}, {"default", "mode"}}]},
       job <- v1, pos <- v2, found <- v3, uncompared <- v4, matched <- v5, status <- v6
----------------------------------------------------------------------------
Rest8 == v8 = Absent
Rest67 == v6 = Absent /\ v7 = Absent /\ Rest8
Rest5 == v5 = Absent /\ Rest67
LayersInit ==
  \/ layer = "options" /\ C!Init /\ v4 = Absent /\ Rest5
  \/ layer = "attributes" /\ A!AttributesInit /\ Rest8
  \/ layer = "times" /\ D!TimesInit /\ Rest5
  \/ layer = "patterns" /\ P!MatchInit /\ v4 = Absent /\ Rest5
  \/ layer = "names" /\ N!NamesInit /\ Rest5
  \/ layer = "transforms" /\ T!TransformersInit /\ Rest67
  \/ layer = "tree" /\ E!TreeInit
  \/ layer = "streams" /\ S!StreamsInit /\ Rest8
  \/ layer = "listing" /\ L!ListInit /\ v7 = Absent /\ Rest8
  \/ layer = "edits" /\ B!EditsInit /\ Rest67
  \/ layer = "verify" /\ V!VerifyInit /\ Rest8
  \/ layer = "diff" /\ F!DiffInit /\ v7 = Absent /\ Rest8
Options_ == layer = "options" /\ C!Next /\ UNCHANGED <<layer, v4, v5, v6, v7, v8>>
Attributes == layer = "attributes" /\ A!AttributesNext /\ UNCHANGED <<layer, v8>>
Times == layer = "times" /\ D!TimesNext /\ UNCHANGED <<layer, v5, v6, v7, v8>>
Patterns == layer = "patterns" /\ P!MatchNext(3) /\ UNCHANGED <<layer, v4, v5, v6, v7, v8>>
Names == layer = "names" /\ N!NamesNext /\ UNCHANGED <<layer, v5, v6, v7, v8>>
Transforms == layer = "transforms" /\ T!TransformersNext /\ UNCHANGED <<layer, v6, v7, v8>>
Tree == layer = "tree" /\ E!TreeNext /\ UNCHANGED layer
Streams == layer = "streams" /\ S!StreamsNext /\ UNCHANGED <<layer, v8>>
Listing == layer = "listing" /\ L!ListNext /\ UNCHANGED <<layer, v7, v8>>
Edits == layer = "edits" /\ B!EditsNext /\ UNCHANGED <<layer, v6, v7, v8>>
Verification == layer = "verify" /\ V!VerifyNext /\ UNCHANGED <<layer, v8>>
Comparison == layer = "diff" /\ F!DiffNext /\ UNCHANGED <<layer, v7, v8>>
LayersNext ==
  Options_ \/ Attributes \/ Times \/ Patterns \/ Names \/ Transforms \/ Tree \/ Streams
    \/ Listing \/ Edits \/ Verification \/ Comparison
LayersSpec == LayersInit /\ [][LayersNext]_lvars
----------------------------------------------------------------------------
\* CommandLine: every flag that a command accepts reaches what it does, and the
\* commands that share a flag make the same of it.
FlagsAct == layer = "options" => C!EveryFlagActs /\ C!CommandsAgree /\ C!TransformsAgree
\* Violated by the code: tar's --no-recursive is handed on as --recursive.
NoRecursiveHolds == layer = "options" => C!NoRecursiveHolds

\* FileAttributes: attributes survive archiving and extraction as far as the
\* options ask for it, and what they do not ask for is left alone.
AttributesReturn == layer = "attributes" => A!AttributesReturn
NothingUnasked == [][layer = "attributes" => A!NothingUnaskedStep]_lvars

\* DateTimes: a point in time survives parsing, comparison and display.
TimesKept == layer = "times" => D!InstantsKept /\ D!EchoReadsBack

\* PathMatch: a pattern that matches a path matches what is below it, anchored
\* kinds are stricter, and one without special characters goes by components.
PatternsCover ==
  layer = "patterns" => P!CoversBelow /\ P!KindsNested /\ P!PlainNamesComponents

\* PathNames: no name leads out of the directory; names do not change when they
\* are stored and read once more, and hard links follow the names.
NamesSafe == layer = "names" => N!NamesContained /\ N!NamesStable /\ N!LinksFollowNames

\* Transformers: what a rule has put into a name is not edited by it again.
PlacedTextStays == layer = "transforms" => T!PlacedTextStays

\* ExtractTree: what is extracted is as archived, what is not to be touched
\* stays, and --fast-read finds every operand.
AsArchived == layer = "tree" => E!AsArchived
ExistingStays == layer = "tree" => E!ExistingStays
FastReadFindsAll == layer = "tree" => E!FastReadFindsAll /\ E!FoundMeansThere

\* EntryStreams: an entry, however it was put together and renamed, reads back for
\* those who have its password; and options opened again stay what they were.
EntriesReadBack == layer = "streams" => S!EntryReadsBack /\ S!ReopenedIsSame

\* ListEntries: a listing shows what is asked for, in every format.
ListingTrue == layer = "listing" => L!ListsWhatIsAsked /\ L!FormatsShowRows

\* EntryEdits: a command changes what it is about and nothing else, a dump restores
\* what it was made of, and access rules keep their meaning on another platform.
EditsTrue == layer = "edits" => B!EditsKeepTheRest /\ B!DumpRestores /\ B!RightsSurvive

\* VerifyArchive and DiffArchive: what verify and diff answer is true of the archive,
\* and no damage or difference goes unnoticed by either.
ChecksTell == (layer = "verify" => V!VerifyTells) /\ (layer = "diff" => F!DiffTells)
\* Violated by the code: a file in the way of a parent directory is removed.
OverwritesOnlyIfAllowed == layer = "tree" => E!OverwritesOnlyIfAllowed
=============================================================================
