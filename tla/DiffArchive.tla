---------------------------- MODULE DiffArchive ----------------------------
(***************************************************************************)
(* diff (cli/src/command/diff.rs): the entries of an archive are compared  *)
(* with the files of their names.  The exit status tells no difference (0) *)
(* from some (1) and from what could not be compared (2).                  *)
(*                                                                         *)
(* A time is a number of tenths of a second; one with no tenths was stored *)
(* in whole seconds.  An operand matches a name and what is below it.      *)
(***************************************************************************)
EXTENDS Integers, Sequences, FiniteSets, SequencesExt

CONSTANTS Jobs,      \* [entries, disk, compare, full, operands, unix]
          Absent

VARIABLES job,       \* entries; disk: a file or Absent for each name; compare, operands: sets
          pos,       \* entries compared so far
          found,     \* the differences shown: <<entry, DiffKind>>
          uncompared,\* requested fields that could not be compared: <<entry, field>>, 0 for all
          matched,   \* operands that were found
          status     \* Absent, and then the exit status
dfvars == <<job, pos, found, uncompared, matched, status>>

Fields == {"size", "content", "mtime", "mode", "uid", "gid", "symlink", "hardlink"}
Numbers == {"mode", "mtime", "uid", "gid"}
----------------------------------------------------------------------------
(* CompareOptions. *)

Supported == IF job.unix THEN Fields ELSE Fields \ {"mode", "uid", "gid"}
default_profile == job.compare = {} \/ "default" \in job.compare
Named == job.compare \ {"default"}
Requested == Named \cap Supported
default_enabled(field, kind) ==
  /\ default_profile /\ field \in Supported
  /\ \/ field \in {"size", "content", "mode", "mtime", "uid", "gid"} /\ kind = "file"
     \/ field \in {"symlink", "hardlink"} /\ kind = field
     \/ kind = "dir" /\ (field = "mode" \/ (field \in {"mtime", "uid", "gid"} /\ job.full))
enabled(field, kind) == field \in Requested \/ default_enabled(field, kind)
compares_nothing == ~default_profile /\ Requested = {}
----------------------------------------------------------------------------
(* Times, and what the file system answers. *)

whole_seconds(t) == IF t >= 0 THEN t \div 10 ELSE -((-t) \div 10)
subsec(t) == t - 10 * whole_seconds(t)
\* Mutant: before the epoch a second ends where it should start.
floor_seconds_Truncates(t) == whole_seconds(t)
floor_seconds(t) == IF subsec(t) < 0 THEN whole_seconds(t) - 1 ELSE whole_seconds(t)
matches_at_stored_precision(archived, fs) ==
  IF subsec(archived) = 0 THEN floor_seconds(archived) = floor_seconds(fs) ELSE archived = fs

\* "not a directory" is an error of its own: a file is where a directory should be.
Stat(name) ==
  IF \E p \in DOMAIN job.disk : IsStrictPrefix(p, name) /\ job.disk[p] # Absent /\ job.disk[p].kind # "dir"
  THEN "unreachable" ELSE IF job.disk[name] = Absent THEN "missing" ELSE "there"
\* Opening goes on to what a link points to.
Opened(name) ==
  IF Stat(name) = "there" /\ job.disk[name].kind = "symlink" THEN job.disk[name].to ELSE name
is_same_file(a, b) == job.disk[Opened(a)].inode = job.disk[Opened(b)].inode
----------------------------------------------------------------------------
(* One entry: [diffs, missing, fails]. *)

Outcome(diffs, missing, fails) == [diffs |-> diffs, missing |-> missing \cap Requested, fails |-> fails]
Only(diff) == Outcome({diff}, {}, FALSE)
Matches(field, archived, fs) ==
  IF field = "mtime" THEN matches_at_stored_precision(archived, fs) ELSE archived = fs
compare_metadata(e, file) ==
  LET compared == {f \in Numbers : enabled(f, e.kind)}
      known == {f \in compared : e[f] # Absent /\ file[f] # Absent}
  IN Outcome({f \in known : ~Matches(f, e[f], file[f])}, compared \ known, FALSE)

Fails == Outcome({}, {}, TRUE)
compare_file(e, file) ==
  LET sized == enabled("size", "file")
      missing == IF sized /\ e.size = Absent THEN {"size"} ELSE {}
  IN IF sized /\ e.size \notin {Absent, Len(file.data)} THEN Only("size")
     ELSE IF ~enabled("content", "file") THEN Outcome({}, missing, FALSE)
     ELSE IF ~e.decodes \/ ~file.opens THEN Outcome({}, missing, TRUE)
     ELSE Outcome(IF e.data = file.data THEN {} ELSE {"content"}, missing, FALSE)
\* Whether two names are one file shows once both have been opened.
compare_link(e, file) ==
  IF ~e.decodes \/ ~file.opens THEN Fails
  ELSE CASE Stat(Opened(e.to)) = "missing" -> Only("missing")
         [] Stat(Opened(e.to)) = "unreachable" -> Fails
         [] Stat(Opened(e.to)) = "there" ->
              IF ~job.disk[Opened(e.to)].opens THEN Fails
              ELSE IF is_same_file(e.name, e.to) THEN Outcome({}, {}, FALSE) ELSE Only("hardlink")
compare_data(e, file) ==
  CASE e.kind = "file" -> compare_file(e, file)
    [] e.kind = "symlink" /\ enabled("symlink", "symlink") ->
         IF ~e.decodes THEN Fails ELSE IF e.to = file.to THEN Outcome({}, {}, FALSE) ELSE Only("symlink")
    [] e.kind = "hardlink" /\ enabled("hardlink", "hardlink") -> compare_link(e, file)
    [] OTHER -> Outcome({}, {}, FALSE)
type_matches(e, file) == file.kind = IF e.kind = "hardlink" THEN "file" ELSE e.kind
compare_entry(e) ==
  LET file == job.disk[e.name]
  IN CASE Stat(e.name) = "unreachable" -> Fails
       [] Stat(e.name) = "missing" -> Only("missing")
       [] Stat(e.name) = "there" ->
            IF ~type_matches(e, file) THEN Only("type")
            ELSE LET m == compare_metadata(e, file)
                     d == compare_data(e, file)
                 IN Outcome(m.diffs \cup d.diffs, m.missing \cup d.missing, d.fails)
----------------------------------------------------------------------------
(* The command. *)

DiffInit ==
  /\ \E j \in Jobs : job \in [entries : j.entries, disk : j.disks, compare : j.compares, full : j.fulls,
                              operands : j.operands, unix : BOOLEAN]
  /\ job.full => job.compare = {}
  /\ pos = 0 /\ found = {} /\ matched = {}
  /\ uncompared = {<<0, f>> : f \in Named \ Supported}
  /\ status = IF compares_nothing THEN 2 ELSE Absent

Covering(name) == {o \in job.operands : IsPrefix(o, name)}
Passed(e) == job.operands # {} /\ Covering(e.name) = {}
At(n) == status = Absent /\ pos < Len(job.entries) /\ n = pos + 1 /\ pos' = n
Pass ==
  \E n \in DOMAIN job.entries :
    /\ At(n) /\ job.entries[n].readable /\ Passed(job.entries[n])
    /\ UNCHANGED <<job, found, uncompared, matched, status>>
Compare ==
  \E n \in DOMAIN job.entries :
    LET e == job.entries[n]
        result == compare_entry(e)
    IN /\ At(n) /\ e.readable /\ ~Passed(e)
       /\ matched' = matched \cup Covering(e.name)
       /\ found' = found \cup {<<n, d>> : d \in result.diffs}
       /\ uncompared' = uncompared \cup {<<n, f>> : f \in result.missing}
       /\ status' = IF result.fails THEN 2 ELSE Absent
       /\ UNCHANGED job
Breaks ==
  /\ \E n \in DOMAIN job.entries : At(n) /\ ~job.entries[n].readable
  /\ status' = 2 /\ UNCHANGED <<job, found, uncompared, matched>>
Finish ==
  /\ status = Absent /\ pos = Len(job.entries)
  /\ status' = IF matched # job.operands \/ uncompared # {} THEN 2 ELSE IF found = {} THEN 0 ELSE 1
  /\ UNCHANGED <<job, pos, found, uncompared, matched>>
DiffNext == Pass \/ Compare \/ Breaks \/ Finish
DiffSpec == DiffInit /\ [][DiffNext]_dfvars
----------------------------------------------------------------------------
(* What diff promises. *)

Taken == {n \in DOMAIN job.entries : ~Passed(job.entries[n])}
SameTime(archived, fs) == fs = archived \/ (archived % 10 = 0 /\ fs - archived \in 0..9)
\* The file is what the entry says it is, as far as the entry says so.
Agrees(field, e, file) ==
  CASE field \in {"mode", "uid", "gid"} -> e[field] \in {Absent, file[field]}
    [] field = "mtime" -> e.mtime = Absent \/ file.mtime = Absent \/ SameTime(e.mtime, file.mtime)
    [] field = "size" -> e.kind = "file" => e.size \in {Absent, Len(file.data)}
    [] field = "content" -> e.kind = "file" => e.data = file.data
    [] field = "symlink" -> e.kind = "symlink" => e.to = file.to
    [] field = "hardlink" -> e.kind = "hardlink" => Stat(Opened(e.to)) = "there" /\ is_same_file(e.to, e.name)
AsDirectory == {"mode"} \cup (IF job.full THEN {"mtime", "uid", "gid"} ELSE {})
Asked(e) ==
  Supported \cap
    (Named \cup IF Named # {} /\ "default" \notin job.compare THEN {}
                ELSE IF e.kind = "dir" THEN AsDirectory ELSE IF e.kind = "file" THEN Fields ELSE {e.kind})
OtherKind(e, file) == file.kind # e.kind /\ ~(e.kind = "hardlink" /\ file.kind = "file")
Differs(e) ==
  LET file == job.disk[e.name]
  IN Stat(e.name) = "missing" \/ OtherKind(e, file) \/ \E f \in Asked(e) : ~Agrees(f, e, file)
Silent(e) == \E f \in Named \cap Numbers : e[f] = Absent
Unreadable(e) == ~e.readable \/ ~e.decodes \/ Stat(e.name) = "unreachable"
                   \/ (Stat(e.name) = "there" /\ ~job.disk[e.name].opens)
                   \/ /\ e.kind = "hardlink"
                      /\ LET to == Opened(e.to)
                         IN \/ Stat(to) = "unreachable"
                            \/ Stat(to) = "there" /\ ~job.disk[to].opens

\* Status 0 means that nothing that was asked about differs and all of it could be
\* compared, status 1 that something does, and status 2 only comes of what could not
\* be compared; no difference of the entries that were reached goes unreported.
DiffTells ==
  /\ status \in {0, 1} =>
       /\ (status = 0) <=> \A n \in Taken : ~Differs(job.entries[n])
       /\ \A o \in job.operands : \E n \in Taken : IsPrefix(o, job.entries[n].name)
       /\ Named \subseteq Supported
       /\ \A n \in Taken : LET e == job.entries[n]
                           IN Silent(e) => Stat(e.name) = "missing" \/ OtherKind(e, job.disk[e.name])
  /\ status = 2 =>
       \/ \E n \in DOMAIN job.entries : Unreadable(job.entries[n])
       \/ \E o \in job.operands : \A n \in Taken : ~IsPrefix(o, job.entries[n].name)
       \/ ~(Named \subseteq Supported) \/ uncompared # {}
  /\ \A n \in Taken : (n <= pos /\ ~Unreadable(job.entries[n]) /\ Differs(job.entries[n]))
                       => \E d \in found : d[1] = n
  /\ \A d \in found : d[1] \in Taken /\ Differs(job.entries[d[1]])
  /\ \A u \in uncompared : u[2] \in Named
=============================================================================
