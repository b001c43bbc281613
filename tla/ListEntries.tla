---------------------------- MODULE ListEntries ----------------------------
(***************************************************************************)
(* The listing of an archive (cli/src/command/list.rs), of list and of the *)
(* tar-like command with -t: which entries get a row, with --fast-read and *)
(* without, what a row collects, and what the formats make of the rows.    *)
(*                                                                         *)
(* A name is the sequence of its components; an empty one first or last    *)
(* stands for a slash there, and "?" is what a control character turns     *)
(* into.  An operand without special characters matches a name or what is  *)
(* below it (see PathMatch).  Alignment, colours and widths are left out.  *)
(***************************************************************************)
EXTENDS Integers, Sequences, FiniteSets, SequencesExt

CONSTANTS Jobs,      \* [archives, operands, opts]: sets of what may be listed, and how
          Now, SixMonths, MaxTime,   \* of the clock, and what it can show
          Absent

VARIABLES job,       \* [archive, operands, opt]
          pos,       \* items of the archive read so far
          rows,      \* TableRow, in the order of the archive
          matched,   \* the operands that were found, by position
          outcome,   \* "reading", "stopped", "failed" or "listed"
          printed    \* what came out
levars == <<job, pos, rows, matched, outcome, printed>>

opt == job.opt
----------------------------------------------------------------------------
(* Rows. *)

\* The target of a link is read only for the formats that show it.
CollectsTargets == IF opt.format = Absent THEN opt.long ELSE opt.format \in {"table", "bsdtar"}
Target(e) ==
  IF e.kind \notin {"symlink", "hardlink"} \/ ~CollectsTargets THEN <<>>
  ELSE IF e.to = Absent THEN <<"-">> ELSE e.to
\* block is the solid block that holds the entry, or Absent.
RowFails(e) == "acl" \in opt.show /\ e.acl = "malformed"
from_entry(e, block) ==
  [entry |-> e.id, name |-> e.name, kind |-> e.kind, to |-> Target(e), solid |-> block # Absent,
   encryption |-> IF block = Absent THEN e.encryption ELSE block.encryption,
   compression |-> IF block = Absent THEN e.compression ELSE block.compression,
   owner |-> e.owner, raw_size |-> e.raw_size, times |-> e.times,
   xattrs |-> IF "xattr" \in opt.show THEN e.xattrs ELSE <<>>,
   acl |-> IF "acl" \in opt.show /\ e.acl # Absent THEN <<e.acl>> ELSE <<>>,
   privates |-> IF "private" \notin opt.show THEN <<>>
                ELSE SelectSeq(e.chunks, LAMBDA c : c \notin {"faCe", "faCl"}),
   fflags |-> IF "fflags" \in opt.show THEN e.fflags ELSE <<>>]

\* BsdGlobMatcher, TimeFilters and PathFilter.
pattern_matches_path(i, name) ==
  IF opt.no_recursive THEN name \in {job.operands[i], Append(job.operands[i], "")}
  ELSE IsPrefix(job.operands[i], name)
Found(name) == {i \in DOMAIN job.operands : pattern_matches_path(i, name)}
TimeOk(e) ==
  opt.newer = Absent \/ (e.times.modified # Absent /\ e.times.modified > opt.newer)
    \/ (e.times.modified = Absent /\ opt.missing = "include")
Passes(r) == TimeOk(r) /\ r.name \notin opt.excluded
----------------------------------------------------------------------------
(* Reading. *)

Fast == opt.fast_read /\ job.operands # <<>>
\* mark_satisfied comes after the filters: an operand is found by what is listed.
Satisfied_Early(r) == Found(r.name)
Satisfied(r) == IF Passes(r) THEN Found(r.name) ELSE {}

\* An entry, as s = [rows, matched, outcome] is passed on.
EachEntry(s, e, block) ==
  IF s.outcome # "reading" \/ (Fast /\ Found(e.name) = {}) THEN s
  ELSE IF RowFails(e) THEN [s EXCEPT !.outcome = "failed"]
  ELSE LET r == from_entry(e, block)
       IN IF ~Fast THEN [s EXCEPT !.rows = Append(@, r)]
          ELSE [rows |-> IF Passes(r) THEN Append(s.rows, r) ELSE s.rows,
                matched |-> s.matched \cup Satisfied(r),
                outcome |-> IF s.matched \cup Satisfied(r) = DOMAIN job.operands THEN "stopped"
                            ELSE "reading"]
\* A block is opened with --solid only; else there is but a warning.
EachItem(s, item) ==
  IF item.block = Absent THEN EachEntry(s, item.entries[1], Absent)
  ELSE IF ~opt.solid THEN s
  ELSE IF ~item.block.opens THEN [s EXCEPT !.outcome = "failed"]
  ELSE FoldLeft(LAMBDA at, e : EachEntry(at, e, item.block), s, item.entries)

ReadItem ==
  /\ outcome = "reading" /\ pos < Len(job.archive)
  /\ \E s \in {EachItem([rows |-> rows, matched |-> matched, outcome |-> outcome], job.archive[pos + 1])} :
       rows' = s.rows /\ matched' = s.matched /\ outcome' = s.outcome
  /\ pos' = pos + 1
  /\ UNCHANGED <<job, printed>>
----------------------------------------------------------------------------
(* What is shown of a row. *)

hide_control_chars(n) == [i \in DOMAIN n |-> IF n[i] = "control" THEN "?" ELSE n[i]]
Hidden(n) == IF opt.hide_control_chars THEN hide_control_chars(n) ELSE n
EndsWithSlash(n) == n # <<>> /\ Last(n) = ""
Mark(r, slash) ==
  IF r.kind = "dir" /\ slash /\ ~EndsWithSlash(r.name) THEN "/"
  ELSE IF r.kind = "symlink" /\ opt.classify THEN "@" ELSE ""
Kind(kind) ==
  CASE kind = "dir" -> "d" [] kind = "symlink" -> "l" [] kind = "unknown" -> "?" [] OTHER -> "-"
\* '@' for attributes goes before '+' for an ACL; bsdtar knows '+' and 'h' only, and the
\* table writes '.' for '-'.
PermissionDisplay(r, bsdtar) ==
  [kind |-> IF r.kind = "hardlink" /\ bsdtar THEN "h" ELSE Kind(r.kind),
   mode |-> IF r.owner.mode = Absent THEN "0" ELSE r.owner.mode,
   indicator |-> IF ~bsdtar /\ r.xattrs # <<>> THEN "@" ELSE IF r.acl # <<>> THEN "+" ELSE " "]

has_owner_group_identity(o) ==
  o.uid # Absent \/ o.gid # Absent \/ o.uname \notin {Absent, ""} \/ o.gname \notin {Absent, ""}
Text(name) == IF name = Absent THEN "" ELSE name
UserDisplay(name, id) ==
  IF opt.numeric_owner THEN IF id = Absent THEN "0" ELSE id ELSE Text(name)
Owners(o, blank) ==
  IF ~has_owner_group_identity(o) THEN <<blank, blank>>
  ELSE <<UserDisplay(o.uname, o.uid), UserDisplay(o.gname, o.gid)>>
\* bsdtar's: the id where there is no name.
NameOrId(name, id) ==
  IF opt.numeric_owner \/ name \in {Absent, ""} THEN (IF id = Absent THEN "" ELSE id) ELSE name
BsdtarOwners(o) ==
  IF ~has_owner_group_identity(o) THEN <<"", "">> ELSE <<NameOrId(o.uname, o.uid), NameOrId(o.gname, o.gid)>>

within_six_months(t) == Now - SixMonths <= t
datetime(style, t) ==
  IF t > MaxTime THEN <<"-- -- ----">>
  ELSE <<IF style = "long" THEN "seconds" ELSE IF within_six_months(t) THEN "clock" ELSE "year", t>>
TimeShown(style, t) == IF t = Absent THEN <<>> ELSE datetime(style, t)
----------------------------------------------------------------------------
(* The formats: lines of columns, or a tree. *)

Size(r) == IF r.raw_size = Absent THEN 0 ELSE r.raw_size
Fflags(shown) == IF "fflags" \in opt.show THEN shown ELSE <<>>
Line(r, columns) == [entry |-> r.entry, columns |-> columns]

Simple(r) == <<Line(r, <<Hidden(r.name), Mark(r, opt.dir_trailing_slash \/ opt.classify)>>)>>
Bsdtar(r) ==
  <<Line(r, <<PermissionDisplay(r, TRUE), BsdtarOwners(r.owner), Size(r),
              datetime("auto", IF r.times.modified = Absent THEN Now ELSE r.times.modified),
              r.name, IF r.kind = "dir" /\ ~EndsWithSlash(r.name) THEN "/" ELSE "", r.to>>)>>
DetailedHeader == <<"Encryption", "Compression", "Permissions">> \o Fflags(<<"Fflags">>)
  \o <<"Raw Size", "Compressed Size", "User", "Group", opt.time_field, "Name">>
detailed_format_name(r) == <<Hidden(r.name), Mark(r, opt.classify), Hidden(r.to)>>
Detailed(r) ==
  <<Line(r, <<r.encryption, <<r.compression, r.solid>>, PermissionDisplay(r, FALSE)>>
              \o Fflags(<<r.fflags>>)
              \o <<r.raw_size, "size", Owners(r.owner, "-")[1], Owners(r.owner, "-")[2],
                   TimeShown(opt.time_format, r.times[opt.time_field]), detailed_format_name(r)>>)>>
    \o [i \in DOMAIN r.acl |-> Line(r, <<"", "", r.acl[i]>>)]
    \o [i \in DOMAIN r.xattrs |-> Line(r, <<"", "", r.xattrs[i], "size">>)]
    \o [i \in DOMAIN r.privates |-> Line(r, <<"", "", r.privates[i], "size">>)]
\* Owner and group by name; a list that was not asked for is left out.
Json(r) ==
  <<Line(r, <<r.name, PermissionDisplay(r, FALSE), Text(r.owner.uname),
              Text(r.owner.gname), Size(r),
              r.encryption, <<r.compression, r.solid>>, TimeShown("long", r.times.created),
              TimeShown("long", r.times.modified), TimeShown("long", r.times.accessed)>>
              \o Fflags(<<r.fflags>>) \o (IF "acl" \in opt.show THEN <<r.acl>> ELSE <<>>)
              \o (IF "xattr" \in opt.show THEN <<r.xattrs>> ELSE <<>>))>>
DelimitedHeader ==
  <<"filename", "permissions", "owner", "group", "raw_size", "compressed_size", "encryption",
    "compression">> \o Fflags(<<"fflags">>) \o <<opt.time_field>>
Delimited(r) ==
  <<Line(r, <<r.name, PermissionDisplay(r, FALSE), Owners(r.owner, "")[1], Owners(r.owner, "")[2],
              Size(r), "size", r.encryption, <<r.compression, r.solid>>>>
              \o Fflags(<<r.fflags>>) \o <<TimeShown("long", r.times[opt.time_field])>>)>>

\* FileTree: the last entry of a path gives its kind, what has none is a directory.
Parts(name) == SelectSeq(name, LAMBDA c : c # "")
Insert(tree, r) ==
  LET p == Parts(r.name)
  IN IF p = <<>> THEN tree
     ELSE [q \in DOMAIN tree \cup {SubSeq(p, 1, n) : n \in DOMAIN p} |->
             IF q = p THEN r.kind ELSE IF q \in DOMAIN tree THEN tree[q] ELSE Absent]
FileTree(all) == FoldLeft(Insert, <<>>, all)
TreeLabel(p, kind) ==
  [at |-> p, name |-> Hidden(<<Last(p)>>),
   mark |-> IF ~opt.classify THEN "" ELSE IF kind \in {"dir", Absent} THEN "/"
            ELSE IF kind = "symlink" THEN "@" ELSE ""]
TreeLines(tree) == {TreeLabel(p, tree[p]) : p \in DOMAIN tree}

Format == IF opt.format # Absent THEN opt.format ELSE IF opt.long THEN "table" ELSE "line"
Header ==
  CASE Format = "table" /\ opt.header -> <<[entry |-> 0, columns |-> DetailedHeader]>>
    [] Format = "csv" -> <<[entry |-> 0, columns |-> DelimitedHeader]>>
    [] OTHER -> <<>>
LinesOf(r) ==
  CASE Format = "line" -> Simple(r)
    [] Format = "bsdtar" -> Bsdtar(r)
    [] Format = "table" -> Detailed(r)
    [] Format = "jsonl" -> Json(r)
    [] OTHER -> Delimited(r)
print_formatted_entries(all) ==
  IF Format = "tree" THEN <<TreeLines(FileTree(all))>>
  ELSE Header \o FlattenSeq([i \in DOMAIN all |-> LinesOf(all[i])])

\* Without --fast-read operands and filters come last; an operand is found by any
\* entry, whether or not it is listed.
Kept == IF Fast THEN rows
        ELSE SelectSeq(rows, LAMBDA r : (job.operands = <<>> \/ Found(r.name) # {}) /\ Passes(r))
AllFound == IF Fast THEN matched ELSE UNION {Found(rows[i].name) : i \in DOMAIN rows}
Finish ==
  /\ \/ outcome = "reading" /\ pos = Len(job.archive)
     \/ outcome = "stopped"
  /\ IF AllFound = DOMAIN job.operands
     THEN outcome' = "listed" /\ printed' = print_formatted_entries(Kept) /\ rows' = Kept
     ELSE outcome' = "failed" /\ UNCHANGED <<printed, rows>>
  /\ matched' = AllFound
  /\ UNCHANGED <<job, pos>>
----------------------------------------------------------------------------
ListInit ==
  /\ \E j \in Jobs : \E a \in j.archives, p \in j.operands, o \in j.opts :
       job = [archive |-> [i \in DOMAIN a |->
                             [a[i] EXCEPT !.entries = [n \in DOMAIN @ |-> [id |-> 10 * i + n] @@ @[n]]]],
              operands |-> p, opt |-> o]
  /\ pos = 0 /\ rows = <<>> /\ matched = {} /\ outcome = "reading" /\ printed = <<>>
ListNext == ReadItem \/ Finish
----------------------------------------------------------------------------
\* The entries in the order of the archive that can be seen, and those of them
\* that are asked for: named by an operand and kept by the filters.
Seen == FlattenSeq([i \in DOMAIN job.archive |->
          IF job.archive[i].block # Absent /\ ~opt.solid THEN <<>> ELSE job.archive[i].entries])
AskedFor(e) == (job.operands = <<>> \/ Found(e.name) # {}) /\ TimeOk(e) /\ e.name \notin opt.excluded
Asked == SelectSeq(Seen, AskedFor)
Ids(s) == [i \in DOMAIN s |-> s[i].id]

\* A listing shows the entries that are asked for, all of them and in order;
\* --fast-read the shortest start of that list in which every operand has an entry
\* of its own.  When it cannot, it fails, and shows nothing.
ListsWhatIsAsked ==
  /\ outcome = "listed" =>
       LET listed == [i \in DOMAIN rows |-> rows[i].entry]
           FoundIn(n) == UNION {Found(Asked[i].name) : i \in 1..n}
       IN IF ~Fast THEN listed = Ids(Asked)
          ELSE /\ listed = SubSeq(Ids(Asked), 1, Len(listed))
               /\ FoundIn(Len(listed)) = DOMAIN job.operands
               /\ FoundIn(Len(listed) - 1) # DOMAIN job.operands
  /\ outcome = "failed" => printed = <<>>

\* Every format shows the listed entries, each once and in order (a tree: their
\* names and those of the directories above them), with as many columns as there
\* are headings; a link where the format shows targets with the one it has; and no
\* owner for an entry that stores none.
FormatsShowRows ==
  outcome = "listed" =>
    LET long == SelectSeq(printed, LAMBDA l : Len(l.columns) > 4 \/ Format = "line")
        body == SelectSeq(long, LAMBDA l : l.entry # 0)
        From(r) == CHOOSE e \in {Seen[i] : i \in DOMAIN Seen} : e.id = r.entry
        Known(o) == {o.uid, o.gid, o.uname, o.gname} # {Absent}
        Ups(name) == {SubSeq(name, 1, n) : n \in DOMAIN name}
    IN IF Format = "tree"
       THEN {l.at : l \in printed[1]} = UNION {Ups(Parts(rows[i].name)) : i \in DOMAIN rows}
       ELSE /\ [i \in DOMAIN body |-> body[i].entry] = [i \in DOMAIN rows |-> rows[i].entry]
            /\ Format \in {"table", "csv"} => Cardinality({Len(long[i].columns) : i \in DOMAIN long}) <= 1
            /\ \A i \in DOMAIN rows :
                 /\ Format \in {"table", "bsdtar"} /\ rows[i].kind \in {"symlink", "hardlink"} =>
                      rows[i].to = (IF From(rows[i]).to = Absent THEN <<"-">> ELSE From(rows[i]).to)
                 /\ Format = "csv" /\ ~Known(rows[i].owner) =>
                      body[i].columns[3] = "" /\ body[i].columns[4] = ""
                 /\ Format = "bsdtar" /\ ~Known(rows[i].owner) => body[i].columns[2] = <<"", "">>
=============================================================================
