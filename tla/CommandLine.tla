---------------------------- MODULE CommandLine ----------------------------
(***************************************************************************)
(* A command line is typed flag by flag and submitted.                     *)
(***************************************************************************)
EXTENDS ArchiveCommands

CONSTANTS Families,       \* sets of flags that are typed together
          MaxFlags,       \* of any kind on a command line
          MaxOfFamily     \* on a command line that keeps to one family

VARIABLES command,   \* a member of Commands
          given,     \* the flags on the command line
          outcome    \* "none", "refused" or "run"

vars == <<command, given, outcome>>
----------------------------------------------------------------------------
Usual == Operands \cup {"unstable"}
Init == /\ command \in Commands
        /\ given \in {Usual, {}}
        /\ outcome = "none"

Type(f) ==
  LET now == (given \ Overridden(command, f)) \cup {f}
      flags == now \ Usual
  IN /\ outcome = "none" /\ f \notin given
     /\ \/ Cardinality(flags) <= MaxFlags
        \/ Cardinality(flags) <= MaxOfFamily /\ \E F \in Families : flags \subseteq F
     /\ given' = now
     /\ UNCHANGED <<command, outcome>>

Submit(there) ==
  /\ outcome = "none"
  /\ outcome' = IF Takes(command, given) /\ ~Declines(command, given, there) THEN "run"
                ELSE "refused"
  /\ UNCHANGED <<command, given>>

Next == \/ \E f \in ArgumentsOf(command).flags \cup Usual : Type(f)
        \/ \E there \in SUBSET {"archive", "output"} : Submit(there)
Spec == Init /\ [][Next]_vars
----------------------------------------------------------------------------
\* Flags that restate what holds without them, given the others.
Restates(c, g) ==
  {"recursive", "keep_dir", "no_keep_permission", "no_keep_xattr", "no_keep_acl", "keep_solid",
   "no_overwrite", "same_owner", "no_allow_unsafe_links", "no_safe_writes", "owner_lookup"}
    \cup (IF c # "strip" /\ g \cap ({"keep_timestamp"} \cup Overrides) = {}
          THEN {"no_keep_timestamp"} ELSE {})
    \cup (IF g \cap Overrides # {} THEN {"keep_timestamp"} ELSE {})
    \cup (IF c \in Transforming \cup {"update", "sort"} /\ "output" \notin g THEN {"overwrite"} ELSE {})
    \cup (IF c = "xattr get" /\ "name" \in g THEN {"regex_match"} ELSE {})

\* Flags that go without a word: the times with --no-keep-timestamp, the owner
\* without --keep-permission or with --no-same-owner; all where no file is named;
\* the edits beside a dump that is restored; what shows or sets no value.
Dropped(c, g) ==
  (IF "no_keep_timestamp" \in g THEN Overrides \cup ClampFlags ELSE {})
    \cup (IF c \in Pna /\ "keep_permission" \notin g THEN OwnerFlags \cup {"no_same_owner"} ELSE {})
    \cup (IF c \in Pna /\ "no_same_owner" \in g THEN OwnerFlags ELSE {})
    \cup (IF c \in Rewriting \cup Reading /\ OptionsOf(c, g) = Nothing THEN g ELSE {})
    \cup (IF g \cap RestoreSource # {} THEN {"set", "modify", "remove", "platform", "name", "value"} ELSE {})
    \cup (IF g \cap {"set", "modify", "remove"} = {} /\ c = "acl set" THEN {"platform"} ELSE {})
    \cup (IF c = "xattr set" /\ "name" \notin g THEN {"value"} ELSE {})
    \cup (IF g \cap {"dump", "name"} = {} THEN {"encoding"} ELSE {})
    \cup (IF "fast" \in g THEN PasswordArgs ELSE {})

\* Every flag that a command accepts changes what the command then does, those
\* two lists apart: none is lost between the argument struct and the options.
EveryFlagActs ==
  outcome = "run" /\ command \notin Tar =>
    \A f \in given \ (Usual \cup Restates(command, given) \cup Dropped(command, given)) :
      Takes(command, given \ {f}) =>
        OptionsOf(command, given) # OptionsOf(command, given \ {f})

\* The same flags select, filter, name and write the same whether an archive is
\* created, appended to or updated; -n of the tar-like append apart, which
\* NoRecursiveHolds is about, and -C of its update, which also says where the
\* files of --newer-mtime-than and its like are, while the others look for them
\* where they were started.
Shared(c) ==
  IF c = "tar update" /\ "working_dir" \in given /\ given \cap ThanFlags # {}
  THEN [Options(c, given)[1] EXCEPT ![1].at = "start"]
  ELSE Options(c, given)[1]
CommandsAgree ==
  outcome = "run" /\ command \in Creating /\ (command \in Tar => "no_recursive" \notin given) =>
    \A other \in Creating \cap (IF command \in Pna THEN Pna ELSE Tar) :
      Accepts(other, given) => Shared(other) = Shared(command)

\* The same flags mean the same password, destination and treatment of blocks in
\* every command that transforms the entries of an archive.
TransformsAgree ==
  outcome = "run" /\ command \in Transforming /\ OptionsOf(command, given) # Nothing =>
    \A other \in Transforming :
      Takes(other, given) /\ OptionsOf(other, given) # Nothing =>
        OptionsOf(other, given)[1] = OptionsOf(command, given)[1]

\* "Do not recursively add directories to the archives. This is the inverse
\* option of --recursive" (bsdtar.rs, --no-recursive).
NoRecursiveHolds ==
  outcome = "run" /\ command \in Creating /\ "no_recursive" \in given =>
    "recursive" \notin Options(command, given)[1][3]
=============================================================================
