--------------------------- MODULE CommandOptions ---------------------------
(***************************************************************************)
(* What the flags of create, append, update, extract and of the tar-like   *)
(* command come to: which sets of flags are accepted (the clap attributes  *)
(* of the argument structs), and the options the command then runs with.   *)
(*                                                                         *)
(* A flag is the name of its field; one that takes a value has one value.  *)
(* The tar-like command is one command with five modes.                    *)
(*                                                                         *)
(* External: clap, which refuses two members of a group, a missing         *)
(* requirement and an unknown flag.                                        *)
(***************************************************************************)
EXTENDS Integers, FiniteSets

Pna == {"create", "append", "update", "extract"}
Tar == {"tar create", "tar append", "tar update", "tar extract", "tar list"}
----------------------------------------------------------------------------
(* The argument structs.                                                    *)

ThanFlags == {"newer_ctime_than", "older_ctime_than", "newer_mtime_than", "older_mtime_than"}
TimeFlags == ThanFlags \cup {"newer_ctime", "older_ctime", "newer_mtime", "older_mtime"}
TimeGroups == {{"newer_ctime", "newer_ctime_than"}, {"older_ctime", "older_ctime_than"},
               {"newer_mtime", "newer_mtime_than"}, {"older_mtime", "older_mtime_than"}}
Overrides == {"mtime", "ctime", "atime"}
Clamps == {<<{"clamp_mtime"}, {"mtime"}>>, <<{"clamp_ctime"}, {"ctime"}>>,
           <<{"clamp_atime"}, {"atime"}>>}
ClampFlags == {"clamp_mtime", "clamp_ctime", "clamp_atime"}

\* Groups of flags that exclude each other, and <<flags, needed>>: one of the
\* flags needs one of the needed.
PasswordArgs == {"password", "password_file", "password_file_raw"}
CompressionArgs == {"store", "deflate", "zstd", "xz"}
CipherArgs == {"aes", "camellia"}
HashArgs == {"argon2", "pbkdf2"}
TransformStrategyArgs == {"unsolid", "keep_solid"}
EncryptionRules == {<<CipherArgs, PasswordArgs>>, <<HashArgs, PasswordArgs>>}

\* create, append and update share most of their structs.
SelectionFlags ==
  {"one_file_system", "nodump", "recursive", "no_recursive", "keep_dir", "no_keep_dir",
   "gitignore", "follow_links", "follow_command_links"}
FacetFlags ==
  {"keep_timestamp", "no_keep_timestamp", "keep_permission", "no_keep_permission",
   "keep_xattr", "no_keep_xattr", "keep_acl", "no_keep_acl"}
OwnerFlags == {"uname", "gname", "uid", "gid", "numeric_owner"}
SourceFlags == {"files_from", "include", "exclude", "exclude_from", "exclude_vcs", "null"}
NameFlags == {"strip_components", "substitutions", "transforms"}
WriteFlags == PasswordArgs \cup CompressionArgs \cup CipherArgs \cup HashArgs

CreationFlags == SelectionFlags \cup FacetFlags \cup OwnerFlags \cup Overrides \cup ClampFlags
                 \cup TimeFlags \cup SourceFlags \cup {"files_from_stdin"} \cup NameFlags
                 \cup WriteFlags
CreationUnstable ==
  {"one_file_system", "nodump", "keep_acl", "no_keep_acl", "files_from", "files_from_stdin",
   "include", "exclude", "exclude_from", "gitignore", "follow_command_links"}
    \cup TimeFlags \cup NameFlags
CreationGroups ==
  {{"recursive", "no_recursive"}, {"keep_dir", "no_keep_dir"}, PasswordArgs, CompressionArgs,
   {"keep_timestamp", "no_keep_timestamp"}, {"keep_permission", "no_keep_permission"},
   {"keep_xattr", "no_keep_xattr"}, {"keep_acl", "no_keep_acl"}, CipherArgs, HashArgs,
   {"substitutions", "transforms"}, {"files_from", "files_from_stdin"},
   {"numeric_owner", "uname"}, {"numeric_owner", "gname"}} \cup TimeGroups
CreationRequires ==
  {<<{"null"}, {"files_from", "files_from_stdin", "exclude_from"}>>,
   <<{"uname", "gname", "numeric_owner"}, {"keep_permission"}>>} \cup Clamps \cup EncryptionRules

CreateCommand ==
  [flags |-> CreationFlags \cup {"overwrite", "no_overwrite", "split", "solid"},
   unstable |-> CreationUnstable, groups |-> CreationGroups \cup {{"overwrite", "no_overwrite"}},
   requires |-> CreationRequires]
AppendCommand ==
  [flags |-> CreationFlags, unstable |-> CreationUnstable, groups |-> CreationGroups,
   requires |-> CreationRequires]
UpdateCommand ==
  [flags |-> CreationFlags \cup {"output", "overwrite", "no_overwrite", "missing_time", "sync"}
               \cup TransformStrategyArgs,
   unstable |-> CreationUnstable \cup {"missing_time"},
   groups |-> CreationGroups \cup {{"overwrite", "no_overwrite"}, TransformStrategyArgs}
                \cup {{"sync", f} : f \in NameFlags},
   requires |-> CreationRequires \cup {<<{"no_overwrite"}, {"output"}>>}]

OverwriteFlags == {"overwrite", "no_overwrite", "keep_newer_files", "keep_old_files"}
ExtractFlags ==
  FacetFlags \cup OwnerFlags \cup Overrides \cup ClampFlags \cup TimeFlags \cup SourceFlags
    \cup NameFlags \cup OverwriteFlags \cup PasswordArgs
    \cup {"out_dir", "missing_time", "same_owner", "no_same_owner", "safe_writes",
          "no_safe_writes", "allow_unsafe_links", "no_allow_unsafe_links"}
ExtractUnstable ==
  {"keep_newer_files", "keep_old_files", "keep_acl", "no_keep_acl", "missing_time", "include",
   "exclude", "exclude_from", "files_from", "substitutions", "transforms", "safe_writes",
   "no_safe_writes"} \cup TimeFlags
ExtractCommand ==
  [flags |-> ExtractFlags, unstable |-> ExtractUnstable,
   groups |-> {OverwriteFlags, {"keep_timestamp", "no_keep_timestamp"}, PasswordArgs,
               {"keep_permission", "no_keep_permission"}, {"keep_xattr", "no_keep_xattr"},
               {"keep_acl", "no_keep_acl"}, {"substitutions", "transforms"},
               {"numeric_owner", "uname"}, {"numeric_owner", "gname"},
               {"same_owner", "no_same_owner"}, {"safe_writes", "no_safe_writes"},
               {"allow_unsafe_links", "no_allow_unsafe_links"}} \cup TimeGroups,
   requires |-> {<<{"null"}, {"files_from", "exclude_from"}>>, <<{"missing_time"}, TimeFlags>>}
                  \cup Clamps]

TarFacets == (FacetFlags \ {"keep_permission", "no_keep_permission"})
  \cup {"no_same_permissions", "same_permissions", "keep_fflags", "no_keep_fflags",
        "mac_metadata", "no_mac_metadata", "same_owner", "no_same_owner", "owner", "group"}
TarDestination == OverwriteFlags
  \cup {"unlink_first", "out_dir", "working_dir", "to_stdout", "allow_unsafe_links", "chroot",
        "no_allow_unsafe_links", "absolute_paths", "safe_writes", "no_safe_writes",
        "check_links", "fast_read", "ignore_zeros", "solid", "level", "module_level", "verbose"}
TarUnstable ==
  (CreationUnstable \ {"files_from_stdin", "strip_components"})
    \cup {"keep_newer_files", "keep_old_files", "same_permissions", "keep_fflags",
          "no_keep_fflags", "mac_metadata", "no_mac_metadata", "owner", "group",
          "unlink_first", "to_stdout", "absolute_paths", "ignore_zeros"}
TarGroups ==
  {OverwriteFlags, {"keep_acl", "no_keep_acl"}, {"substitutions", "transforms"},
   {"same_owner", "no_same_owner"}, {"numeric_owner", "uname"}, {"numeric_owner", "gname"},
   {"recursive", "no_recursive"}, {"keep_dir", "no_keep_dir"}, {"keep_xattr", "no_keep_xattr"},
   {"keep_timestamp", "no_keep_timestamp"}, {"safe_writes", "no_safe_writes"},
   {"allow_unsafe_links", "no_allow_unsafe_links"}, {"keep_fflags", "no_keep_fflags"},
   {"mac_metadata", "no_mac_metadata"}, PasswordArgs, CompressionArgs, CipherArgs, HashArgs}
    \cup TimeGroups \cup {{"owner", f} : f \in {"uname", "uid", "numeric_owner"}}
    \cup {{"group", f} : f \in {"gname", "gid", "numeric_owner"}}
BsdtarCommand ==
  [flags |-> SelectionFlags \cup TarFacets \cup TarDestination \cup OwnerFlags \cup Overrides
               \cup ClampFlags \cup TimeFlags \cup SourceFlags \cup NameFlags \cup WriteFlags,
   unstable |-> TarUnstable, groups |-> TarGroups,
   requires |-> {<<{"null"}, {"files_from", "exclude_from"}>>} \cup Clamps \cup EncryptionRules]

Arguments(c) ==
  IF c = "create" THEN CreateCommand ELSE IF c = "append" THEN AppendCommand
  ELSE IF c = "update" THEN UpdateCommand ELSE IF c = "extract" THEN ExtractCommand
  ELSE BsdtarCommand

Operands == {"file", "files"}   \* the archive, and the paths

\* clap.
Fits(struct, g) ==
  /\ g \subseteq struct.flags \cup Operands \cup {"unstable"}
  /\ \A group \in struct.groups : Cardinality(g \cap group) <= 1
  /\ \A r \in struct.requires : g \cap r[1] # {} => g \cap r[2] # {}
  /\ g \cap struct.unstable # {} => "unstable" \in g
\* And what a mode of the tar-like command needs or refuses.
Accepts(c, g) ==
  /\ Fits(Arguments(c), g)
  /\ c \in Pna => "file" \in g
  /\ c \in Tar => /\ {"unlink_first", "chroot"} \cap g # {} => c = "tar extract"
                  /\ "check_links" \in g => c = "tar create"
                  /\ "to_stdout" \in g => c \in {"tar extract", "tar list"}

\* The last of -L and -H holds in the tar-like command.
Overridden(c, f) ==
  IF c \notin Tar THEN {} ELSE IF f = "follow_links" THEN {"follow_command_links"}
  ELSE IF f = "follow_command_links" THEN {"follow_links"} ELSE {}
----------------------------------------------------------------------------
(* What the flags come to.  A switch that is on is a member of a set; a     *)
(* value is the flag that gave it.                                          *)

Given(g, f, otherwise) == IF f \in g THEN f ELSE otherwise
FirstGiven(g, s, otherwise) ==
  IF \E i \in DOMAIN s : s[i] \in g
  THEN s[CHOOSE i \in DOMAIN s : s[i] \in g /\ \A j \in 1..(i - 1) : s[j] \notin g]
  ELSE otherwise

\* `at`: where the files of ThanFlags are looked up, by a relative path.
TimeFilters(g, missing, at) ==
  [newer_ctime |-> FirstGiven(g, <<"newer_ctime_than", "newer_ctime">>, "unbounded"),
   older_ctime |-> FirstGiven(g, <<"older_ctime_than", "older_ctime">>, "unbounded"),
   newer_mtime |-> FirstGiven(g, <<"newer_mtime_than", "newer_mtime">>, "unbounded"),
   older_mtime |-> FirstGiven(g, <<"older_mtime_than", "older_mtime">>, "unbounded"),
   missing |-> missing, at |-> IF g \cap ThanFlags = {} THEN "none" ELSE at]

\* The paths beside the operands, in the order of the lists' precedence, and
\* what the patterns leave.
PathFilter_ForgetsVcs(g, lists) ==
  [files |-> FirstGiven(g, lists, "none"), patterns |-> g \cap {"include", "exclude", "exclude_from"},
   null |-> "null" \in g]
PathFilter(g, lists) ==
  [files |-> FirstGiven(g, lists, "none"),
   patterns |-> g \cap {"include", "exclude", "exclude_from", "exclude_vcs"},
   null |-> "null" \in g]
StdinOrList == <<"files_from_stdin", "files_from">>

Unless(g, off, f) == IF off \in g THEN {} ELSE {f}
CollectOptions(g, recursive) ==
  (g \cap {"gitignore", "nodump", "follow_links", "follow_command_links", "one_file_system"})
    \cup Unless(g, "no_keep_dir", "keep_dir") \cup recursive

time_source_from(g, value, clamp) ==
  IF value \notin g THEN "source" ELSE IF clamp \in g THEN "clamp" ELSE "override"
NoPreserve == [preserve |-> FALSE, mtime |-> "none", ctime |-> "none", atime |-> "none"]
TimestampStrategy(g, default_preserve) ==
  IF "no_keep_timestamp" \in g THEN NoPreserve
  ELSE IF "keep_timestamp" \in g \/ g \cap Overrides # {}
  THEN [preserve |-> TRUE, mtime |-> time_source_from(g, "mtime", "clamp_mtime"),
        ctime |-> time_source_from(g, "ctime", "clamp_ctime"),
        atime |-> time_source_from(g, "atime", "clamp_atime")]
  ELSE IF default_preserve
  THEN [preserve |-> TRUE, mtime |-> "source", ctime |-> "source", atime |-> "source"]
  ELSE NoPreserve

\* The owner that is stored or restored: --owner and --group stand for a name
\* and an id, --numeric-owner for empty names.
NeverOwner == [kept |-> FALSE, uname |-> "none", gname |-> "none", uid |-> "none", gid |-> "none"]
OwnerOptions(g) ==
  [kept |-> TRUE,
   uname |-> FirstGiven(g, <<"numeric_owner", "owner", "uname">>, "source"),
   gname |-> FirstGiven(g, <<"numeric_owner", "group", "gname">>, "source"),
   uid |-> FirstGiven(g, <<"owner", "uid">>, "source"),
   gid |-> FirstGiven(g, <<"group", "gid">>, "source")]

PermissionStrategy(c, g) ==
  IF "keep_permission" \notin g THEN [mode |-> "never", owner |-> NeverOwner]
  ELSE [mode |-> "preserve",
        owner |-> IF c = "extract" /\ "no_same_owner" \in g THEN NeverOwner ELSE OwnerOptions(g)]

CreationPermissionStrategy(g) ==
  [mode |-> IF "no_same_permissions" \in g THEN "never" ELSE "preserve",
   owner |-> IF "no_same_owner" \in g THEN NeverOwner ELSE OwnerOptions(g)]

\* For a user that is not root: root's default is to preserve the mode.
ExtractionPermissionStrategy(g) ==
  [mode |-> IF "no_same_permissions" \notin g /\ "same_permissions" \in g THEN "preserve"
            ELSE "masked",
   owner |-> IF "same_owner" \in g THEN OwnerOptions(g) ELSE NeverOwner]

\* mac_metadata: never, but on macOS.
On(g, off, flags) == off \notin g /\ g \cap flags # {}
BsdtarFacets(g, p) ==
  {f \in {"keep_acl", "keep_fflags", "keep_xattr"} :
     On(g, IF f = "keep_acl" THEN "no_keep_acl" ELSE IF f = "keep_fflags" THEN "no_keep_fflags"
           ELSE "no_keep_xattr", {f} \cup p)}
KeepOptions(g, default_preserve, permission, facets) ==
  [timestamp |-> TimestampStrategy(g, default_preserve), permission |-> permission,
   facets |-> facets]

PathnameEditor(g, bsdtar) ==
  [strip |-> Given(g, "strip_components", "none"),
   transform |-> FirstGiven(g, <<"substitutions", "transforms">>, "none"),
   absolute |-> bsdtar /\ "absolute_paths" \in g, bsdtar |-> bsdtar]

ask_password(g) ==
  FirstGiven(g, <<"password_file_raw", "password_file", "password">>, "none")
WriteOptions(g, level) ==
  [compression |-> FirstGiven(g, <<"store", "xz", "zstd", "deflate">>, "zstd"),
   level |-> level,
   encryption |-> IF ask_password(g) = "none" THEN "none"
                  ELSE FirstGiven(g, <<"aes", "camellia">>, "aes"),
   cipher_mode |-> IF g \cap CipherArgs # {} THEN "given" ELSE "gcm",
   hash |-> FirstGiven(g, <<"pbkdf2", "argon2">>, "default"),
   password |-> ask_password(g)]
Compressed(g) == g \cap (CompressionArgs \ {"store"}) # {}
CompressionLevel(g) == IF Compressed(g) THEN "its own" ELSE "default"

\* The values of --options of the tar-like command are the flags level and
\* module_level (zstd:compression-level=...); a module's level needs its flag.
BsdtarLevel(g) ==
  IF Compressed(g) /\ "module_level" \in g THEN "its own" ELSE Given(g, "level", "default")

OverwriteStrategy(g, otherwise) ==
  FirstGiven(g, <<"overwrite", "no_overwrite", "keep_newer_files", "keep_old_files">>, otherwise)
----------------------------------------------------------------------------
(* The handlers: the options shared with the other creating commands, and   *)
(* the rest.                                                                *)

CreateOptions(g, missing) ==
  <<TimeFilters(g, missing, "start"), PathFilter(g, StdinOrList),
    CollectOptions(g, Unless(g, "no_recursive", "recursive")),
    KeepOptions(g, FALSE, PermissionStrategy("create", g), g \cap {"keep_xattr", "keep_acl"}),
    PathnameEditor(g, FALSE), WriteOptions(g, CompressionLevel(g))>>
create_archive(g) == <<CreateOptions(g, "default"), g \cap {"solid", "split", "overwrite"}>>
append_to_archive(g) == <<CreateOptions(g, "default"), {}>>
update_archive_WithoutAcl(g) ==
  <<[CreateOptions(g, Given(g, "missing_time", "default")) EXCEPT
       ![4] = KeepOptions(g, FALSE, PermissionStrategy("update", g), g \cap {"keep_xattr"})],
    g \cap {"output", "sync", "unsolid", "overwrite"}>>
update_archive(g) ==
  <<CreateOptions(g, Given(g, "missing_time", "default")),
    (g \cap {"output", "sync", "unsolid"})
      \cup (IF "output" \in g THEN g \cap {"overwrite"} ELSE {"overwrite"})>>
extract_archive(g) ==
  <<TimeFilters(g, Given(g, "missing_time", "default"), "start"),
    PathFilter(g, <<"files_from">>),
    KeepOptions(g, FALSE, PermissionStrategy("extract", g), g \cap {"keep_xattr", "keep_acl"}),
    PathnameEditor(g, FALSE), ask_password(g), OverwriteStrategy(g, "no_overwrite"),
    (g \cap {"safe_writes", "out_dir", "allow_unsafe_links"}) \cup {"no_recursive"}>>

BsdtarCreateOptions(g, recursive, at) ==
  <<TimeFilters(g, "default", at), PathFilter(g, <<"files_from">>), CollectOptions(g, recursive),
    KeepOptions(g, TRUE, CreationPermissionStrategy(g),
                BsdtarFacets(g, {}) \cup Unless(g, "no_keep_xattr", "keep_xattr")),
    PathnameEditor(g, TRUE), WriteOptions(g, BsdtarLevel(g))>>
run_create_archive(g) ==
  <<BsdtarCreateOptions(g, Unless(g, "no_recursive", "recursive"), "start"),
    (g \cap {"solid", "check_links", "verbose", "ignore_zeros", "working_dir", "file"})
      \cup Unless(g, "no_overwrite", "overwrite")>>
run_append_AfterDirectory(g) ==   \* mutant
  <<BsdtarCreateOptions(g, {"recursive"}, Given(g, "working_dir", "start")),
    g \cap {"verbose", "ignore_zeros", "working_dir", "file"}>>
run_append(g) ==
  <<BsdtarCreateOptions(g, {"recursive"}, "start"),
    g \cap {"verbose", "ignore_zeros", "working_dir", "file"}>>
\* The only one to change the directory before the time filters are resolved.
run_update(g) ==
  <<BsdtarCreateOptions(g, Unless(g, "no_recursive", "recursive"),
                        Given(g, "working_dir", "start")),
    (g \cap {"verbose", "ignore_zeros", "working_dir"}) \cup {"overwrite", "unsolid"}>>
run_extract_archive(g) ==
  <<TimeFilters(g, "default", "start"), PathFilter(g, <<"files_from">>),
    KeepOptions(g, TRUE, ExtractionPermissionStrategy(g),
                BsdtarFacets(g, IF "no_same_permissions" \in g THEN {} ELSE {"same_permissions"})),
    PathnameEditor(g, TRUE), ask_password(g), OverwriteStrategy(g, "overwrite"),
    (g \cap {"unlink_first", "to_stdout", "verbose", "absolute_paths", "fast_read", "out_dir",
             "ignore_zeros", "working_dir", "chroot", "no_recursive"})
      \cup (IF "no_safe_writes" \in g THEN {} ELSE g \cap {"safe_writes"})
      \cup Unless(g, "no_allow_unsafe_links", "allow_unsafe_links")>>
run_list_archive(g) ==
  <<TimeFilters(g, "default", "start"), PathFilter(g, <<>>), ask_password(g),
    g \cap {"numeric_owner", "to_stdout", "verbose", "no_recursive", "fast_read",
            "ignore_zeros", "file"}>>

Creating == {"create", "append", "update", "tar create", "tar append", "tar update"}
Options(c, g) ==
  CASE c = "create" -> create_archive(g) [] c = "append" -> append_to_archive(g)
    [] c = "update" -> update_archive(g) [] c = "extract" -> extract_archive(g)
    [] c = "tar create" -> run_create_archive(g) [] c = "tar append" -> run_append(g)
    [] c = "tar update" -> run_update(g) [] c = "tar extract" -> run_extract_archive(g)
    [] c = "tar list" -> run_list_archive(g)

\* What the command finds out before it writes: the archive and the output that
\* are there.  A list of files is not empty, and every file that a flag names exists.
Refuses(c, g, there) ==
  \/ c = "create" /\ "overwrite" \notin g /\ "archive" \in there
  \/ c \in {"append", "update", "extract"} /\ "archive" \notin there
  \/ c = "update" /\ {"output", "overwrite"} \cap g = {"output"} /\ "output" \in there
  \/ c = "tar create" /\ \/ {"files", "files_from"} \cap g = {}
                         \/ {"file", "no_overwrite"} \subseteq g /\ "archive" \in there
  \/ c = "tar update" /\ ("file" \notin g \/ "archive" \notin there)
  \/ c \in {"tar append", "tar extract", "tar list"} /\ "file" \in g /\ "archive" \notin there
=============================================================================
