---------------------------- MODULE ExtractTree ----------------------------
(***************************************************************************)
(* Extraction into a tree of files, entry after entry                      *)
(* (cli/src/command/extract.rs): which entries are taken, what is done to  *)
(* the files and directories that are in their way, and the two things     *)
(* that wait until all files are there, links and the attributes of        *)
(* directories.  What jobs of several threads do to each other is          *)
(* ParallelExtract's matter.                                               *)
(*                                                                         *)
(* The file system is external: inodes under paths, with modes that hold   *)
(* back an ordinary user, and symbolic links that calls follow or not.     *)
(***************************************************************************)
EXTENDS Integers, Sequences, FiniteSets, SequencesExt

CONSTANTS Jobs,         \* [archives, opts, disks]: what is extracted, how and where
          FileNames,    \* the names of files; paths have at most two of them
          Now,          \* a time later than that of any entry
          Absent

VARIABLES job, disk, pos, matched, links, dirs, skips, outcome

etvars == <<job, disk, pos, matched, links, dirs, skips, outcome>>

archive == job.archive
opt == job.opt
Paths == UNION {[1..n -> FileNames] : n \in 1..2}
All == {"r", "w", "x"}
----------------------------------------------------------------------------
(* External: a disk is [tree: path -> inode number or 0, node: sequence of  *)
(* inodes, err].  Calls of a disk with an error do nothing.                 *)

Inode(kind, by, mode, mtime, to) == [kind |-> kind, by |-> by, mode |-> mode, mtime |-> mtime, to |-> to]
NodeAt(d, p) == d.node[d.tree[p]]
KindAt(d, p) == IF p = <<>> THEN "dir"
                ELSE IF p \notin Paths \/ d.tree[p] = 0 THEN "none" ELSE NodeAt(d, p).kind
Searchable(d, p) == p = <<>> \/ "x" \in NodeAt(d, p).mode
Writable(d, p) == p = <<>> \/ {"w", "x"} \subseteq NodeAt(d, p).mode
Fails(d, why) == [d EXCEPT !.err = why]
Children(d, p) == {q \in Paths : Len(q) = Len(p) + 1 /\ Front(q) = p /\ d.tree[q] # 0}

\* The real path of at \o rest, or why there is none; follow: the last link, too.
RECURSIVE Walk(_, _, _, _, _)
Walk(d, at, rest, follow, fuel) ==
  IF rest = <<>> THEN [at |-> at, why |-> ""]
  ELSE LET p == Append(at, rest[1])
           last == Len(rest) = 1
           is == KindAt(d, p)
       IN IF ~Searchable(d, at) THEN [at |-> p, why |-> "Denied"]
          ELSE IF is = "none" /\ last THEN [at |-> p, why |-> ""]
          ELSE IF is = "none" THEN [at |-> p, why |-> "NotFound"]
          ELSE IF is = "link" /\ (follow \/ ~last)
          THEN IF fuel = 0 THEN [at |-> p, why |-> "Loop"]
               ELSE Walk(d, at, NodeAt(d, p).to \o Tail(rest), follow, fuel - 1)
          ELSE IF ~last /\ is # "dir" THEN [at |-> p, why |-> "NotADirectory"]
          ELSE Walk(d, p, Tail(rest), follow, fuel)
symlink_metadata(d, path) == Walk(d, <<>>, path, FALSE, 3)
metadata(d, path) == Walk(d, <<>>, path, TRUE, 3)
KindOf(d, w) == IF w.why # "" THEN "none" ELSE KindAt(d, w.at)

Touched(d, dir) ==
  IF dir = <<>> THEN d ELSE [d EXCEPT !.node[d.tree[dir]].mtime = Now]
Put(d, p, node) ==
  LET n == Len(d.node) + 1
  IN Touched([d EXCEPT !.tree[p] = n, !.node = Append(@, node)], Front(p))
Unlink(d, p) == Touched([d EXCEPT !.tree[p] = 0], Front(p))

\* A new node under a path that must not exist.
MakeAt(d, w, node) ==
  IF d.err # "" THEN d
  ELSE IF w.why # "" THEN Fails(d, w.why)
  ELSE IF KindAt(d, w.at) # "none" THEN Fails(d, "AlreadyExists")
  ELSE IF ~Writable(d, Front(w.at)) \/ w.at \notin Paths THEN Fails(d, "Denied")
  ELSE Put(d, w.at, node)
Make(d, path, node) == MakeAt(d, symlink_metadata(d, path), node)
create_dir(d, path) == Make(d, path, Inode("dir", 0, All, Now, <<>>))
UnlinkAt(d, w) ==
  IF d.err # "" THEN d
  ELSE IF w.why # "" THEN Fails(d, w.why)
  ELSE IF KindAt(d, w.at) = "none" THEN Fails(d, "NotFound")
  ELSE IF ~Writable(d, Front(w.at)) THEN Fails(d, "Denied")
  ELSE IF KindAt(d, w.at) = "dir" /\ Children(d, w.at) # {} THEN Fails(d, "NotEmpty")
  ELSE Unlink(d, w.at)
remove_path(d, path) == UnlinkAt(d, symlink_metadata(d, path))
Ignoring(d, d2, whys) == IF d2.err \in whys THEN d ELSE d2
RemoveIfThere(d, path) == Ignoring(d, remove_path(d, path), {"NotFound"})

Refused(d, w) == IF w.why # "" \/ KindAt(d, w.at) = "none" THEN "NotFound" ELSE ""
ModeAt(d, w, mode) ==
  IF d.err # "" \/ w.at = <<>> THEN d
  ELSE IF Refused(d, w) # "" THEN Fails(d, Refused(d, w))
  ELSE [d EXCEPT !.node[d.tree[w.at]].mode = mode]
TimeAt(d, w, mtime) ==
  IF d.err # "" \/ w.at = <<>> THEN d
  ELSE IF Refused(d, w) # "" THEN Fails(d, Refused(d, w))
  ELSE [d EXCEPT !.node[d.tree[w.at]].mtime = mtime]
chmod(d, path, mode) == ModeAt(d, metadata(d, path), mode)
SetTimes(d, path, mtime) == TimeAt(d, symlink_metadata(d, path), mtime)

\* create_dir_all: the directories of a path from the first that is missing.
create_dir_all(d, path) ==
  FoldLeft(LAMBDA at, n :
             IF KindOf(at, metadata(at, SubSeq(path, 1, n))) = "dir" THEN at
             ELSE create_dir(at, SubSeq(path, 1, n)),
           d, [i \in DOMAIN path |-> i])
----------------------------------------------------------------------------
(* The way to an entry's path.                                              *)

\* One component: what is in the way of a directory goes.
ComponentAt(d, path, w, is) ==
  IF d.err # "" THEN d
  ELSE IF w.why \notin {"", "NotFound"} THEN Fails(d, w.why)
  ELSE IF is = "dir" THEN d
  ELSE IF is = "none" THEN create_dir(d, path)
  ELSE IF opt.absolute_paths /\ is = "link" /\ KindOf(d, metadata(d, path)) = "dir" THEN d
  ELSE IF ~opt.absolute_paths /\ is = "link" /\ ~opt.unlink_first THEN Fails(d, "ThroughSymlink")
  ELSE create_dir(RemoveIfThere(d, path), path)
DirectoryAt_Follows(d, path, w) == IF KindOf(d, metadata(d, path)) = "dir" THEN d ELSE create_dir(d, path)
DirectoryAt(d, path, w) == ComponentAt(d, path, w, KindOf(d, w))

EachComponent(d, path) ==
  FoldLeft(LAMBDA at, n : DirectoryAt(at, SubSeq(path, 1, n), symlink_metadata(at, SubSeq(path, 1, n))),
           d, [i \in DOMAIN path |-> i])
IfItWorks(all, each) ==
  IF opt.absolute_paths /\ all.err \notin {"NotADirectory", "AlreadyExists"} THEN all ELSE each
ensure_directory_components(d, path) == IfItWorks(create_dir_all(d, path), EachComponent(d, path))

Newer(node, e) == e.mtime # Absent /\ node.mtime >= e.mtime

\* What is there says whether the entry is extracted, and what has to go; the
\* directories on the way are made when a first removal is done.
Freed(ready, e, is) ==
  IF \/ is = "file" /\ e.kind = "dir"
     \/ is = "link" /\ ~(/\ opt.absolute_paths /\ e.kind = "dir"
                        /\ KindOf(ready, metadata(ready, e.name)) = "dir")
  THEN RemoveIfThere(ready, e.name) ELSE ready
IsDirectory(d, path, is) ==
  is = "dir" \/ (opt.absolute_paths /\ is = "link" /\ KindOf(d, metadata(d, path)) = "dir")
Prepared(d, e, w, is, unlink) ==
  IF w.why \notin {"", "NotFound", "NotADirectory"}
  THEN [disk |-> Fails(d, w.why), skip |-> FALSE, remove |-> FALSE]
  ELSE IF is # "none" /\ ~opt.unlink_first /\ opt.strategy = "Never"
  THEN [disk |-> Fails(d, "AlreadyExists"), skip |-> FALSE, remove |-> FALSE]
  ELSE IF /\ is # "none" /\ ~opt.unlink_first
          /\ \/ opt.strategy = "KeepOlder"
             \/ opt.strategy = "KeepNewer" /\ Newer(NodeAt(d, w.at), e)
  THEN [disk |-> d, skip |-> TRUE, remove |-> FALSE]
  ELSE [disk |-> Freed(ensure_directory_components(IF unlink THEN RemoveIfThere(d, e.name) ELSE d,
                                                   Front(e.name)), e, is),
        skip |-> FALSE,
        remove |-> is # "none" /\ opt.strategy \in {"Always", "KeepNewer"} /\ ~unlink]
Prepare(d, e, w, is) ==
  Prepared(d, e, w, is,
           opt.unlink_first /\ is # "none" /\ (e.kind # "dir" \/ ~IsDirectory(d, e.name, is)))
check_and_prepare_target(d, e) ==
  LET w == symlink_metadata(d, e.name) IN Prepare(d, e, w, KindOf(d, w))
----------------------------------------------------------------------------
(* One entry.                                                               *)

restore_metadata(d, e) ==
  LET timed == IF opt.keep /\ e.mtime # Absent /\ e.kind # "file" THEN SetTimes(d, e.name, e.mtime) ELSE d
      moded(t) == IF opt.keep /\ e.mode # Absent /\ e.kind # "symlink" THEN chmod(t, e.name, e.mode) ELSE t
  IN moded(timed)

FileTime_Now(e) == Now   \* mutant
FileTime(e) == IF opt.keep /\ e.mtime # Absent THEN e.mtime ELSE Now

\* The rename of a temporary file.
Replaced(d, w, file) ==
  IF d.err # "" THEN d
  ELSE IF w.why # "" THEN Fails(d, w.why)
  ELSE IF KindAt(d, w.at) = "dir" THEN Fails(d, "IsADirectory")
  ELSE IF ~Writable(d, Front(w.at)) THEN Fails(d, "Denied")
  ELSE Put(d, w.at, file)
FileInto(d, e, file, prepared) ==
  IF prepared.skip THEN d
  ELSE restore_metadata(
         IF opt.safe_writes
         THEN Replaced(prepared.disk, symlink_metadata(prepared.disk, e.name), file)
         ELSE Make(IF prepared.remove THEN RemoveIfThere(prepared.disk, e.name) ELSE prepared.disk,
                   e.name, file), e)
extract_file_entry(d, i) ==
  FileInto(d, archive[i], Inode("file", i, {"r", "w"}, FileTime(archive[i]), <<>>),
           check_and_prepare_target(d, archive[i]))

\* The attributes of a directory wait.
DirectoryMade(d, e, prepared) ==
  IF prepared.skip THEN [disk |-> d, defer |-> FALSE]
  ELSE [disk |-> ensure_directory_components(prepared.disk, e.name), defer |-> TRUE]
extract_directory_structure(d, e) == DirectoryMade(d, e, check_and_prepare_target(d, e))

Unsafe(to) == Contains(to, "..")
SharesInode(d, made, name, to) ==
  IF made.err # "" THEN made
  ELSE [made EXCEPT !.tree[symlink_metadata(made, name).at] = d.tree[to]]
HardLink(d, e, original) ==
  IF d.err # "" THEN d
  ELSE IF KindOf(d, original) = "none" THEN Fails(d, "NotFound")
  ELSE IF KindOf(d, original) = "dir" THEN Fails(d, "Denied")
  ELSE SharesInode(d, Make(d, e.name, NodeAt(d, original.at)), e.name, original.at)
Linked(d, i, e) ==
  IF e.kind = "symlink" THEN Make(d, e.name, Inode("link", i, All, Now, e.to))
  ELSE HardLink(d, e, symlink_metadata(d, e.to))
LinkInto(i, e, p, skip, remove) ==
  IF skip \/ p.err # "" THEN [disk |-> p, skipped |-> FALSE]
  ELSE IF Unsafe(e.to) /\ ~opt.allow_unsafe_links THEN [disk |-> p, skipped |-> TRUE]
  ELSE [skipped |-> FALSE, disk |->
          restore_metadata(Linked(IF opt.safe_writes \/ remove THEN RemoveIfThere(p, e.name) ELSE p, i, e), e)]
extract_link_entry(d, i) ==
  LET prepared == check_and_prepare_target(d, archive[i])
      into(p) == LinkInto(i, archive[i], p.disk, p.skip, p.remove)
  IN into(prepared)
----------------------------------------------------------------------------
(* Which entries.  A pattern is a path that stands for all below it.        *)

BelowOrAt(name, p) == IsPrefix(p, name)
Matching(e) == {k \in DOMAIN opt.patterns : BelowOrAt(e.name, opt.patterns[k])}
excluded(e) == \E p \in opt.exclude : BelowOrAt(e.name, p)
\* One bound, newer; an entry without a time goes by the policy.
TimeMatches(time) ==
  \/ opt.newer = Absent
  \/ IF time = Absent THEN opt.missing = "include" ELSE time > opt.newer
AllMatched == matched = DOMAIN opt.patterns

\* filter_entry: what matches is marked before it is looked at any closer.
FilterEntry(e) ==
  LET hit == opt.patterns = <<>> \/ Matching(e) # {}
      passes == hit /\ ~excluded(e) /\ TimeMatches(e.mtime)
  IN [take |-> passes /\ ~e.up, stop |-> FALSE, security |-> passes /\ e.up,
      matched |-> matched \cup Matching(e)]
\* filter_entry_fast_read: only what is taken is marked, and when all are, it ends.
FilterFastRead_MarksEarly(e) ==
  LET hit == Matching(e) # {}
      passes == hit /\ ~excluded(e) /\ TimeMatches(e.mtime)
      after == matched \cup Matching(e)
  IN [take |-> passes /\ ~e.up, security |-> passes /\ e.up, matched |-> after,
      stop |-> after = DOMAIN opt.patterns]
FilterFastRead(e) ==
  LET hit == Matching(e) # {} /\ ~excluded(e)
      passes == hit /\ TimeMatches(e.mtime)
      after == IF passes /\ ~e.up THEN matched \cup Matching(e) ELSE matched
  IN [take |-> passes /\ ~e.up, security |-> passes /\ e.up, matched |-> after,
      stop |-> after = DOMAIN opt.patterns /\ (hit /\ ~(passes /\ e.up))]
Filter(e) == IF opt.fast_read /\ opt.patterns # <<>> THEN FilterFastRead(e) ELSE FilterEntry(e)
----------------------------------------------------------------------------
TreeInit ==
  /\ (\E jobs \in Jobs : job \in [archive : jobs.archives, opt : jobs.opts, disk : jobs.disks])
  /\ disk = job.disk
  /\ pos = 0 /\ matched = {} /\ links = <<>> /\ dirs = <<>> /\ skips = {}
  /\ outcome = "reading"

Extracted(i, e) ==
  IF e.kind = "dir" THEN extract_directory_structure(disk, e)
  ELSE [disk |-> IF e.kind = "file" THEN extract_file_entry(disk, i) ELSE disk, defer |-> FALSE]
ReadEntry ==
  /\ outcome = "reading" /\ pos < Len(archive)
  /\ pos' = pos + 1
  /\ LET i == pos + 1
         e == archive[i]
     IN \E f \in {Filter(e)} :
          \E made \in {IF f.take THEN Extracted(i, e) ELSE [disk |-> disk, defer |-> FALSE]} :
            /\ matched' = f.matched
            /\ skips' = IF f.security THEN skips \cup {i} ELSE skips
            /\ links' = IF f.take /\ e.kind \in {"symlink", "hardlink"} THEN Append(links, i) ELSE links
            /\ dirs' = IF made.defer /\ made.disk.err = "" THEN Append(dirs, i) ELSE dirs
            /\ disk' = made.disk
            /\ outcome' = IF made.disk.err # "" THEN "error" ELSE IF f.stop THEN "links" ELSE "reading"
  /\ UNCHANGED job

LastRead ==
  /\ outcome = "reading" /\ pos = Len(archive)
  /\ outcome' = "links"
  /\ UNCHANGED <<job, disk, pos, matched, links, dirs, skips>>

ExtractLink ==
  /\ outcome = "links" /\ links # <<>>
  /\ \E made \in {extract_link_entry(disk, links[1])} :
        /\ disk' = made.disk
        /\ skips' = IF made.skipped THEN skips \cup {links[1]} ELSE skips
        /\ outcome' = IF made.disk.err # "" THEN "error" ELSE outcome
  /\ links' = Tail(links)
  /\ UNCHANGED <<job, pos, matched, dirs>>

\* The directories, deepest first, those of one depth in their order.
DeepestFirst_AsRead(is) == is
DeepestFirst(is) ==
  LET ofDepth(n) == SelectSeq(is, LAMBDA i : Len(archive[i].name) = n)
  IN ofDepth(2) \o ofDepth(1)
RestoreDirectories ==
  /\ outcome = "links" /\ links = <<>>
  /\ disk' = FoldLeft(LAMBDA d, i : restore_metadata(d, archive[i]), disk, DeepestFirst(dirs))
  /\ dirs' = <<>>
  /\ outcome' = IF disk'.err # "" THEN "error"
                ELSE IF ~AllMatched THEN "not found"
                ELSE IF skips # {} THEN "warn" ELSE "ok"
  /\ UNCHANGED <<job, pos, matched, links, skips>>

TreeNext == ReadEntry \/ LastRead \/ ExtractLink \/ RestoreDirectories
----------------------------------------------------------------------------
Done == outcome \in {"ok", "warn", "not found"}
Taken == {i \in 1..pos : /\ opt.patterns = <<>> \/ Matching(archive[i]) # {}
                         /\ ~excluded(archive[i]) /\ TimeMatches(archive[i].mtime) /\ ~archive[i].up}

\* Nothing is in the way of the entries, or of the way to them: a path is that
\* of directories, or of files and links, which may take each other's place.
Plain ==
  /\ \A p \in Paths : job.disk.tree[p] # 0 => job.disk.node[job.disk.tree[p]].kind = "dir"
  /\ \A i, j \in DOMAIN archive :
       i # j /\ IsPrefix(archive[i].name, archive[j].name) =>
         \/ archive[i].kind = "dir" /\ (archive[i].name = archive[j].name => archive[j].kind = "dir")
         \/ archive[i].name = archive[j].name /\ archive[j].kind # "dir"

\* The order of extraction: links come after all that is no link.
IsLink(i) == archive[i].kind \in {"symlink", "hardlink"}
Before(j, i) == IF IsLink(i) = IsLink(j) THEN j < i ELSE IsLink(i)
\* The entry was not preceded by its directory, or by one made for another entry.
Fresh(i) ==
  /\ job.disk.tree[archive[i].name] = 0
  /\ \A j \in DOMAIN archive : Before(j, i) => ~IsPrefix(archive[i].name, archive[j].name)
LastOfName(i) == \A j \in Taken : archive[j].name = archive[i].name => j = i \/ Before(j, i)

\* A hard link that is extracted later gives the file a time and a mode of its own.
File(i) == IF archive[i].kind = "hardlink" THEN archive[i].to ELSE archive[i].name
LinkedLater(i) == {h \in Taken : archive[h].kind = "hardlink" /\ File(h) = File(i) /\ Before(i, h)}
HasTime(i, node) ==
  \/ archive[i].mtime \in {Absent, node.mtime}
  \/ \E h \in LinkedLater(i) : archive[h].mtime = node.mtime
HasMode(i, node) ==
  \/ archive[i].kind = "symlink" \/ archive[i].mode \in {Absent, node.mode}
  \/ \E h \in LinkedLater(i) : archive[h].mode = node.mode

\* When a command has come to its end, the last entry of every path that was
\* asked for is there with its own content, time and mode: those of directories
\* too, although files and links were put into them after, and although some
\* hold their owner back; but for a file that hard links are made to, which has
\* the time and mode of one of them.
AsArchived ==
  /\ outcome = "error" /\ Plain =>
       \E i \in DOMAIN archive :
         \/ opt.strategy = "Never" /\ ~Fresh(i)
         \/ archive[i].kind = "hardlink"
            /\ ~\E j \in Taken : archive[j].kind = "file" /\ archive[j].name = archive[i].to
  /\ Done /\ Plain => \A i \in Taken \ skips :
        LET e == archive[i]
            node == NodeAt(disk, e.name)
        IN LastOfName(i) /\ (opt.strategy = "Always" \/ Fresh(i)) =>
             /\ disk.tree[e.name] # 0
             /\ e.kind = "hardlink" => node = NodeAt(disk, e.to)
             /\ e.kind = "file" => node.by = i
             /\ e.kind = "symlink" => node.kind = "link" /\ node.to = e.to
             /\ e.kind = "dir" => node.kind = "dir"
             /\ opt.keep => HasTime(i, node) /\ HasMode(i, node)

\* Without leave to overwrite, or when it is the newer one, the file that was
\* there stays, whichever way the command ends, unless it is in the way to an
\* entry below it; and nothing is reached through a symbolic link of the disk.
InTheWay(p) == \E i \in DOMAIN archive : archive[i].name # p /\ IsPrefix(p, archive[i].name)
Allowed(p) ==
  \/ opt.unlink_first \/ opt.strategy = "Always"
  \/ opt.strategy = "KeepNewer" /\ \E i \in DOMAIN archive :
       archive[i].name = p /\ ~Newer(job.disk.node[job.disk.tree[p]], archive[i])
Stays(p) == disk.tree[p] = job.disk.tree[p] /\ NodeAt(disk, p).kind = job.disk.node[job.disk.tree[p]].kind
FilesBefore == {p \in Paths : job.disk.tree[p] # 0 /\ job.disk.node[job.disk.tree[p]].kind = "file"}
Named(p) == \E i \in DOMAIN archive : archive[i].name[1] = p[1]

ExistingStays ==
  \A p \in FilesBefore :
    \/ Allowed(p) /\ Named(p)
    \/ InTheWay(p)
    \/ ~Named(p) /\ (opt.absolute_paths \/ opt.unlink_first)
    \/ Stays(p)
OverwritesOnlyIfAllowed ==
  \A p \in FilesBefore : Named(p) /\ ~Allowed(p) => Stays(p)

\* Stopping early loses nothing: the first entry that each pattern may have was
\* read, and an end without an error means that there was one for each.
FastReadFindsAll ==
  LET taken(i) == /\ ~excluded(archive[i]) /\ TimeMatches(archive[i].mtime) /\ ~archive[i].up
  IN Done /\ opt.fast_read => \A k \in DOMAIN opt.patterns :
       LET its == {i \in DOMAIN archive : k \in Matching(archive[i]) /\ taken(i)}
       IN its # {} => \E i \in its : i <= pos
FoundMeansThere ==
  outcome \in {"ok", "warn"} =>
    \A k \in DOMAIN opt.patterns : \E i \in 1..pos :
      k \in Matching(archive[i]) /\ (opt.fast_read => i \in Taken)

\* What fast-read takes is the first match of a pattern.
FirstMatchesOnly ==
  opt.fast_read /\ opt.patterns # <<>> => \A i \in Taken : \E k \in Matching(archive[i]) :
    \A j \in Taken : k \in Matching(archive[j]) => i <= j

\* The mode of a file is that of an entry that is not a directory.
FilesKeepTheirModes ==
  Done /\ opt.keep => \A p \in {q \in Paths : disk.tree[q] # 0 /\ NodeAt(disk, q).kind = "file"} :
    \/ NodeAt(disk, p).by = 0
    \/ \E i \in DOMAIN archive : archive[i].kind # "dir" /\ NodeAt(disk, p).mode = archive[i].mode

\* An entry that is left out as unsafe changes nothing under its path.
SkippedTouchesNothing ==
  Done => \A i \in skips :
    \/ \E j \in DOMAIN archive : j # i /\ archive[j].name[1] = archive[i].name[1]
    \/ disk.tree[archive[i].name] = job.disk.tree[archive[i].name]
=============================================================================
