-------------------------- MODULE ArchiveCommands --------------------------
(***************************************************************************)
(* The other commands, which read an archive or rewrite it: their flags    *)
(* and what these come to.                                                 *)
(***************************************************************************)
EXTENDS CommandOptions

Transforming == {"delete", "strip", "migrate", "chmod", "chown", "acl set", "xattr set"}
Rewriting == Transforming \cup {"sort", "concat", "split"}
Reading == {"list", "diff", "verify", "acl get", "xattr get"}
Commands == Pna \cup Tar \cup Rewriting \cup Reading
----------------------------------------------------------------------------
(* The argument structs.  "needs" are arguments that are not optional.      *)

Needing(needs, flags, unstable, groups, requires) ==
  [needs |-> needs, flags |-> flags \cup needs, unstable |-> unstable, groups |-> groups,
   requires |-> requires]
OutputFlags == {"output", "overwrite", "no_overwrite"}
OutputGroup == {"overwrite", "no_overwrite"}
OutputRules == {<<{"no_overwrite"}, {"output"}>>}
TransformFlags == OutputFlags \cup TransformStrategyArgs \cup PasswordArgs
TransformGroups == {OutputGroup, TransformStrategyArgs, PasswordArgs}

\* format stands for the stable formats, unstable_format for the others.
ListColumns ==
  {"long", "header", "solid", "show_xattr", "show_acl", "show_fflags", "show_private",
   "numeric_owner", "long_time", "time", "hide_control_chars", "classify"}
ListCommand ==
  Needing({"file"},
    ListColumns \cup TimeFlags \cup PasswordArgs
      \cup {"format", "unstable_format", "missing_time", "recursive", "no_recursive", "include",
            "exclude", "exclude_from", "exclude_vcs", "null"},
    TimeFlags \cup {"show_acl", "show_private", "unstable_format", "missing_time", "include",
                    "exclude", "exclude_from"},
    TimeGroups \cup {{"recursive", "no_recursive"}, {"format", "unstable_format"}, PasswordArgs},
    {<<{"null"}, {"exclude_from"}>>, <<{"missing_time"}, TimeFlags>>})
DeleteCommand ==
  Needing({"file"}, TransformFlags \cup SourceFlags \cup {"files_from_stdin"},
    {"files_from", "files_from_stdin", "include", "exclude", "exclude_from"},
    TransformGroups \cup {{"files_from", "files_from_stdin"}},
    OutputRules \cup {<<{"null"}, {"files_from", "files_from_stdin", "exclude_from"}>>})
StripOptions == {"keep_timestamp", "keep_permission", "keep_xattr", "keep_acl", "keep_private"}
StripCommand ==
  Needing({"file"}, TransformFlags \cup StripOptions, {}, TransformGroups, OutputRules)
SortCommand ==
  Needing({"file"}, OutputFlags \cup PasswordArgs \cup {"by"}, {}, {OutputGroup, PasswordArgs},
    OutputRules)
MigrateCommand ==
  Needing({"file", "output"}, TransformFlags, {}, TransformGroups, OutputRules)
ConcatCommand == Needing({"files"}, OutputFlags, {}, {OutputGroup}, {})
SplitCommand ==
  Needing({"file"}, OutputFlags \cup {"out_dir", "max_size"}, {}, {OutputGroup}, {})
ChmodCommand ==
  Needing({"file", "mode"}, TransformFlags, {}, TransformGroups, OutputRules)
ChownCommand ==
  Needing({"file", "owner"},
    TransformFlags \cup {"numeric_owner", "owner_lookup", "no_owner_lookup"}, {},
    TransformGroups \cup {{"owner_lookup", "no_owner_lookup"}}, OutputRules)
RestoreSource == {"restore", "restore_from_stdin"}
SetAclCommand ==
  Needing({"file"}, TransformFlags \cup RestoreSource \cup {"set", "modify", "remove", "platform"},
    {}, TransformGroups \cup {{"set", "modify"}, RestoreSource}, OutputRules)
SetXattrCommand ==
  Needing({"file"}, TransformFlags \cup RestoreSource \cup {"name", "value", "remove"}, {},
    TransformGroups \cup {RestoreSource}, OutputRules)
GetAclCommand ==
  Needing({"file"}, PasswordArgs \cup {"platform", "numeric"}, {}, {PasswordArgs}, {})
GetXattrCommand ==
  Needing({"file"}, PasswordArgs \cup {"name", "dump", "regex_match", "encoding"}, {},
    {PasswordArgs, {"name", "dump"}}, {})
\* format is the one that is not stable.
DiffCommand ==
  Needing({"file"}, PasswordArgs \cup {"full_compare", "compare", "format"},
    {"compare", "format"}, {PasswordArgs, {"full_compare", "compare"}}, {})
VerifyCommand == Needing({"file"}, PasswordArgs \cup {"fast"}, {}, {PasswordArgs}, {})

ArchiveArguments(c) ==
  CASE c = "list" -> ListCommand [] c = "delete" -> DeleteCommand [] c = "strip" -> StripCommand
    [] c = "sort" -> SortCommand [] c = "migrate" -> MigrateCommand
    [] c = "concat" -> ConcatCommand [] c = "split" -> SplitCommand
    [] c = "chmod" -> ChmodCommand [] c = "chown" -> ChownCommand
    [] c = "acl set" -> SetAclCommand [] c = "xattr set" -> SetXattrCommand
    [] c = "acl get" -> GetAclCommand [] c = "xattr get" -> GetXattrCommand
    [] c = "diff" -> DiffCommand [] c = "verify" -> VerifyCommand
ArgumentsOf(c) == IF c \in Pna \cup Tar THEN Arguments(c) ELSE ArchiveArguments(c)
Takes(c, g) ==
  IF c \in Pna \cup Tar THEN Accepts(c, g)
  ELSE Fits(ArchiveArguments(c), g) /\ ArchiveArguments(c).needs \subseteq g
----------------------------------------------------------------------------
(* What the flags come to. *)

\* In place, without --output: then replacing the archive is what is asked for.
RewriteDestination(g) ==
  [path |-> Given(g, "output", "archive"), overwrite |-> "overwrite" \in g \/ "output" \notin g]
strategy(g) == Given(g, "unsolid", "keep_solid")
\* What execute_archive_transform gets, and the transform.
Transform(g, transform) ==
  <<<<ask_password(g), strategy(g), RewriteDestination(g)>>, transform>>
Nothing == <<>>
WithFiles(g, options) == IF "files" \in g THEN options ELSE Nothing

list_archive(g) ==
  <<TimeFilters(g, Given(g, "missing_time", "default"), "start"), PathFilter(g, <<>>), ask_password(g),
    g \cap (ListColumns \cup {"format", "unstable_format"}),
    Unless(g, "no_recursive", "recursive")>>
delete_file_from_archive(g) == Transform(g, PathFilter(g, StdinOrList))
strip_metadata(g) == Transform(g, g \cap (StripOptions \cup {"files"}))
sort_archive(g) == <<ask_password(g), Given(g, "by", "name"), RewriteDestination(g)>>
migrate_metadata(g) == Transform(g, "owner facets")
\* Without --output the first file is the destination and nothing is read from it.
concat_entry(g) == <<Given(g, "output", "first file"), "overwrite" \in g>>
split_archive(g) ==
  <<Given(g, "out_dir", "none"), Given(g, "output", "archive"), Given(g, "max_size", "1 GB"),
    "overwrite" \in g>>
archive_chmod(g) == WithFiles(g, Transform(g, "mode"))
lookup_platform_owner(g) == (g \cap {"numeric_owner"}) \cup Unless(g, "no_owner_lookup", "lookup")
archive_chown(g) == WithFiles(g, Transform(g, lookup_platform_owner(g)))

\* From a dump, or else what is asked for of the named files.
RestoreOr(g, edits) ==
  IF g \cap RestoreSource # {}
  THEN Transform(g, FirstGiven(g, <<"restore_from_stdin", "restore">>, "none"))
  ELSE WithFiles(g, <<Transform(g, "apply")[1], "apply", edits>>)
archive_set_acl(g) ==
  RestoreOr(g, [edits |-> g \cap {"set", "modify", "remove"},
                platform |-> Given(g, "platform", "General")])
\* A name without a value is set to the empty one.
archive_set_xattr(g) ==
  RestoreOr(g, (g \cap {"name", "remove"}) \cup (IF "name" \in g THEN g \cap {"value"} ELSE {}))
archive_get_acl(g) == WithFiles(g, <<ask_password(g), g \cap {"platform", "numeric"}>>)

\* The attributes that match, and whether their values are shown.
DumpOption(g) ==
  [dump |-> g \cap {"dump", "name"} # {}, matcher |-> FirstGiven(g, <<"name", "regex_match">>, "all")]
archive_get_xattr(g) ==
  WithFiles(g, <<ask_password(g), DumpOption(g),
                 IF DumpOption(g).dump THEN Given(g, "encoding", "by value") ELSE "none">>)
diff_archive(g) ==
  <<ask_password(g), g \cap {"full_compare", "compare"}, Given(g, "format", "plain")>>
verify_archive(g) == IF "fast" \in g THEN <<"chunks">> ELSE <<"data", ask_password(g)>>

ArchiveOptions(c, g) ==
  CASE c = "list" -> list_archive(g) [] c = "delete" -> delete_file_from_archive(g)
    [] c = "strip" -> strip_metadata(g) [] c = "sort" -> sort_archive(g)
    [] c = "migrate" -> migrate_metadata(g) [] c = "concat" -> concat_entry(g)
    [] c = "split" -> split_archive(g) [] c = "chmod" -> archive_chmod(g)
    [] c = "chown" -> archive_chown(g) [] c = "acl set" -> archive_set_acl(g)
    [] c = "xattr set" -> archive_set_xattr(g) [] c = "acl get" -> archive_get_acl(g)
    [] c = "xattr get" -> archive_get_xattr(g) [] c = "diff" -> diff_archive(g)
    [] c = "verify" -> verify_archive(g)
OptionsOf(c, g) == IF c \in Pna \cup Tar THEN Options(c, g) ELSE ArchiveOptions(c, g)

\* resolve_rewrite_output and the like: a destination that is there and may not be
\* replaced; and the archive has to be there, but where nothing is done.
resolve_rewrite_output(g, there) ==
  {"output", "overwrite"} \cap g = {"output"} /\ "output" \in there
Declines(c, g, there) ==
  IF c \in Pna \cup Tar THEN Refuses(c, g, there)
  ELSE \/ c \in Transforming \cup {"sort"} /\ OptionsOf(c, g) # Nothing
            /\ resolve_rewrite_output(g, there)
       \/ c = "concat" /\ "overwrite" \notin g /\ Given(g, "output", "archive") \in there
       \/ c # "concat" /\ OptionsOf(c, g) # Nothing /\ "archive" \notin there
=============================================================================
