--------------------------- MODULE FileCollection ---------------------------
(***************************************************************************)
(* What create, append and update put into an archive:                     *)
(* collect_items_from_sources and collect_items_with_state of core.rs, the *)
(* resolver of hard links (utils/fs/file_id.rs), the filters on paths,     *)
(* times, .gitignore files and nodump flags, and the names of the entries  *)
(* in create_entry.                                                        *)
(*                                                                         *)
(* A path is a sequence of names below the working directory; an object of *)
(* the file system has an identity (device and inode) and perhaps several  *)
(* paths.  Glob and ignore patterns are the sets of paths and names that   *)
(* they match.                                                             *)
(*                                                                         *)
(* External: the file system, which does not change meanwhile, and walkdir *)
(* 2.5, which lists a directory in any order and descends at once.         *)
(***************************************************************************)
EXTENDS Integers, Sequences, FiniteSets, SequencesExt

CONSTANTS Cases,     \* [fs, options, operands]: what a command may find
          Nowhere,   \* where a broken link points
          MaxDepth   \* of a path below an operand

VARIABLES
  fs,        \* kind, dev, mtime, ctime, links, nodump, kids, to, rules of objects
  options, operands,
  at,        \* the operand that is walked
  pc,        \* "start" an operand, "walk", "done", "error"
  stack,     \* the directories being listed: [dir, rest]
  ig,        \* directories whose .gitignore was read
  seen,      \* the resolver: identity -> [first_path, archived_count]
  out        \* the items, each with its operand (arg) as history

vars == <<fs, options, operands, at, pc, stack, ig, seen, out>>

NoTime == -1
Operand == operands[at]

\* The object at a path; a link on the way is followed, one at the end is not.
Target(n) == IF n # Nowhere /\ fs.kind[n] = "link" THEN fs.to[n] ELSE n
Node(p) == FoldLeft(LAMBDA n, name : fs.kids[Target(n)][name], "top", p)

\* normalize_non_follow_root_path: with a trailing separator lstat would see
\* through a link.
Bare(x) == /\ ~options.follow_links /\ ~options.follow_command_links
           /\ fs.kind[Node(x.path)] = "link"
Root(x) == IF x.slash /\ ~Bare(x) THEN Target(Node(x.path)) ELSE Node(x.path)
ObjectAt(p) == IF p = Operand.path THEN Root(Operand) ELSE Node(p)
----------------------------------------------------------------------------
(* walkdir.  A visit v is the next path, its object n, its depth and the    *)
(* listings that are open when it is reached.                               *)

AtRoot(v) == v.depth = 0
IsLink(v) == v.n # Nowhere /\ fs.kind[v.n] = "link"
OnRootDevice(n) == fs.dev[n] = fs.dev[Target(Root(Operand))]

\* Errors: a broken link that is followed, or looked at for its device; a
\* followed link to a directory that is being listed; nothing there.
BrokenLink(v) ==
  /\ IsLink(v) /\ Target(v.n) = Nowhere
  /\ \/ options.follow_links
     \/ AtRoot(v) /\ (options.follow_command_links \/ options.one_file_system)
WalkFails(v) ==
  \/ v.n = Nowhere
  \/ /\ IsLink(v) /\ options.follow_links
     /\ \E k \in DOMAIN v.open : Target(ObjectAt(v.open[k].dir)) = Target(v.n)

\* A directory is opened before it is handed out, so that
Pushes(v) ==
  /\ options.recursive /\ Target(v.n) # Nowhere /\ fs.kind[Target(v.n)] = "dir"
  /\ IF IsLink(v) /\ ~options.follow_links THEN AtRoot(v) /\ options.follow_command_links
     ELSE options.one_file_system => AtRoot(v) \/ OnRootDevice(Target(v.n))
Opened(v) ==
  IF Pushes(v) THEN Append(v.open, [dir |-> v.path, rest |-> DOMAIN fs.kids[Target(v.n)]])
  ELSE v.open
\* skip_current_dir can give up the listing opened last, whichever that is.
SkipCurrentDir(s) == IF s = <<>> THEN s ELSE Front(s)

Visit(p, depth, open) == [path |-> p, n |-> ObjectAt(p), depth |-> depth, open |-> open]
Upcoming ==
  CASE pc = "start" -> {Visit(Operand.path, 0, <<>>)}
    [] pc = "walk" /\ stack # <<>> ->
         {Visit(Append(Last(stack).dir, name), Len(stack),
                [stack EXCEPT ![Len(stack)].rest = @ \ {name}]) : name \in Last(stack).rest}
    [] OTHER -> {}
----------------------------------------------------------------------------
(* The loop of collect_items_with_state.                                    *)

\* is_dir, is_file, is_symlink: what the entry is stored as.
ShouldFollow(v) == options.follow_links \/ (AtRoot(v) /\ options.follow_command_links)
Kind(v) == LET n == IF ShouldFollow(v) THEN Target(v.n) ELSE v.n
           IN IF n = Nowhere THEN "none" ELSE fs.kind[n]

Excluded(p) == p \in options.exclude \/ (options.include # {} /\ p \notin options.include)

\* Ignore::is_ignore: the closest directory with a rule for it decides.
Above(p) == {SubSeq(p, 1, k) : k \in 0..(Len(p) - 1)}
Rule(dir, name) == LET r == fs.rules[Target(ObjectAt(dir))]
                   IN IF name \in DOMAIN r THEN r[name] ELSE "none"
Decides_Topmost(d, ruled) == \A e \in ruled : Len(d) <= Len(e)   \* mutant
Decides(d, ruled) == \A e \in ruled : Len(e) <= Len(d)
IsIgnore(p) ==
  LET ruled == {d \in Above(p) \cap ig : Rule(d, Last(p)) # "none"}
  IN \E d \in ruled : Decides(d, ruled) /\ Rule(d, Last(p)) = "ignore"

Prunes(v) == \/ Excluded(v.path)
             \/ options.gitignore /\ IsIgnore(v.path)
             \/ options.nodump /\ v.n \in fs.nodump

\* HardlinkResolver::resolve, with its first path or none (<<>> is a
\* directory's) for a file that has other links.
FileId(v) == IF options.follow_links THEN Target(v.n) ELSE v.n
First(v) == LET id == FileId(v) IN IF id \in DOMAIN seen THEN seen[id].first_path ELSE <<>>
Counted_Once(c) == c   \* mutant
Counted(c) == c + 1
Resolved(v) ==
  LET id == FileId(v)
  IN IF fs.links[id] <= 1 THEN seen
     ELSE IF id \in DOMAIN seen
          THEN [seen EXCEPT ![id].archived_count = Counted(@)]
          ELSE [i \in DOMAIN seen \cup {id} |->
                  IF i = id THEN [first_path |-> v.path, archived_count |-> 1] ELSE seen[i]]

\* How the entry is stored, and the object whose metadata is stored with it.
StoreAs(v) ==
  IF Kind(v) # "file" THEN Kind(v)
  ELSE IF fs.links[FileId(v)] > 1 /\ First(v) # <<>> THEN "hardlink" ELSE "file"
MetaOf(v) == IF StoreAs(v) \in {"link", "hardlink"} THEN v.n ELSE Target(v.n)
Item(v) == [arg |-> at, path |-> v.path, store_as |-> StoreAs(v), n |-> v.n,
            link |-> IF StoreAs(v) = "hardlink" THEN First(v) ELSE <<>>]

\* TimeFilter::matches; new_strict leaves out both ends.
Unbounded(f) == f.newer = NoTime /\ f.older = NoTime
Within(f, t) == (f.newer = NoTime \/ t > f.newer) /\ (f.older = NoTime \/ t < f.older)
Matches(f, t) ==
  Unbounded(f) \/ IF t # NoTime THEN Within(f, t)
                  ELSE IF f.assume # NoTime THEN Within(f, f.assume) ELSE f.include
TimesMatch(n) == Matches(options.ctime, fs.ctime[n]) /\ Matches(options.mtime, fs.mtime[n])

Keeps(v) == /\ Kind(v) = "dir" => options.keep_dir
            /\ TimesMatch(MetaOf(v))

Begin == UNCHANGED <<fs, options, operands, at>> /\ pc' = "walk"

\* The Err arm: a broken link is stored as a link, whatever the filters say.
StoreBroken(v) ==
  /\ BrokenLink(v)
  /\ Begin /\ stack' = v.open
  /\ out' = Append(out, [arg |-> at, path |-> v.path, store_as |-> "link", n |-> v.n,
                         link |-> <<>>])
  /\ UNCHANGED <<ig, seen>>

\* Leaving out a directory prunes the descent.
Skipped_Files(v) == SkipCurrentDir(Opened(v))   \* mutant
Skipped(v) == IF Kind(v) = "dir" THEN SkipCurrentDir(Opened(v)) ELSE Opened(v)
Prune(v) ==
  /\ ~BrokenLink(v) /\ ~WalkFails(v) /\ Prunes(v)
  /\ Begin /\ stack' = Skipped(v)
  /\ UNCHANGED <<ig, seen, out>>

Store(v) ==
  /\ ~BrokenLink(v) /\ ~WalkFails(v) /\ ~Prunes(v) /\ Kind(v) # "other"
  /\ Begin /\ stack' = Opened(v)
  /\ ig' = IF options.gitignore /\ Kind(v) = "dir" THEN ig \cup {v.path} ELSE ig
  /\ seen' = IF Kind(v) = "file" THEN Resolved(v) ELSE seen
  /\ out' = IF Keeps(v) THEN Append(out, Item(v)) ELSE out

\* Any other error of the walk, or a device, a socket and the like.
Fail(v) ==
  /\ ~BrokenLink(v)
  /\ ~WalkFails(v) => ~Prunes(v) /\ Kind(v) = "other"
  /\ pc' = "error"
  /\ UNCHANGED <<fs, options, operands, at, stack, ig, seen, out>>

PopDir ==
  /\ pc = "walk" /\ stack # <<>> /\ Last(stack).rest = {}
  /\ stack' = Front(stack)
  /\ UNCHANGED <<fs, options, operands, at, pc, ig, seen, out>>

\* The next operand, with an Ignore of its own and the same resolver.
NextOperand ==
  /\ pc = "walk" /\ stack = <<>>
  /\ IF at < Len(operands) THEN at' = at + 1 /\ pc' = "start" ELSE pc' = "done" /\ UNCHANGED at
  /\ ig' = {}
  /\ UNCHANGED <<fs, options, operands, stack, seen, out>>

Init ==
  /\ \E c \in Cases : fs = c.fs /\ options = c.options /\ operands = c.operands
  /\ at = 1 /\ pc = "start" /\ stack = <<>> /\ ig = {} /\ seen = <<>> /\ out = <<>>
Next == \/ \E v \in Upcoming : StoreBroken(v) \/ Prune(v) \/ Store(v) \/ Fail(v)
        \/ PopDir \/ NextOperand
Spec == Init /\ [][Next]_vars
----------------------------------------------------------------------------
(* After the walk.                                                          *)

\* incomplete_links, of which --check-links warns.
Incomplete == {i \in DOMAIN seen : seen[i].archived_count < fs.links[i]}

\* edit_entry_name and edit_hardlink: <<>> is "skip the entry".
Strip(p) == IF Len(p) <= options.strip_components THEN <<>>
            ELSE SubSeq(p, options.strip_components + 1, Len(p))
\* create_entry, for every item in turn
Edited(x) == [name |-> Strip(x.path), store_as |-> x.store_as, n |-> Target(x.n),
              reference |-> Strip(x.link)]
LinkEdited_Always(x) == TRUE   \* mutant
LinkEdited(x) == x.store_as = "hardlink" => Strip(x.link) # <<>>
Entries ==
  LET kept == SelectSeq(out, LAMBDA x : Strip(x.path) # <<>> /\ LinkEdited(x))
  IN [k \in DOMAIN kept |-> Edited(kept[k])]
----------------------------------------------------------------------------
(* Properties                                                               *)

\* What an operand selects, defined without the walk: all there is below it
\* down to what is left out, a directory of another file system, or a link
\* that is not followed.  Whether something is left out depends on itself and,
\* for .gitignore, on the closest directory above it with a rule.
Looked(i, p) == [path |-> p,
                 n |-> IF /\ p = operands[i].path /\ operands[i].slash
                          /\ options.follow_links \/ options.follow_command_links
                       THEN Target(Node(p)) ELSE Node(p),
                 depth |-> Len(p) - Len(operands[i].path), open |-> <<>>]
Ruled(i, p) == {d \in Above(p) : Len(d) >= Len(operands[i].path) /\ Rule(d, Last(p)) # "none"}
IgnoredThere(i, p) ==
  \E d \in Ruled(i, p) : /\ Rule(d, Last(p)) = "ignore"
                         /\ \A e \in Ruled(i, p) : Len(e) <= Len(d)
LeftOut(i, p) ==
  \/ Excluded(p)
  \/ options.nodump /\ Looked(i, p).n \in fs.nodump
  \/ options.gitignore /\ IgnoredThere(i, p)
Descended(i, p) ==
  LET v == Looked(i, p)
      end == Target(v.n)
      followed == \/ v.n = end \/ options.follow_links
                  \/ options.follow_command_links /\ v.depth = 0
  IN /\ options.recursive /\ followed /\ end # Nowhere /\ fs.kind[end] = "dir"
     /\ options.one_file_system /\ v.depth > 0 =>
          fs.dev[end] = fs.dev[Target(Looked(i, operands[i].path).n)]
Reached(i) ==
  LET level[k \in 0..MaxDepth] ==
        IF k = 0 THEN {operands[i].path}
        ELSE UNION {{Append(p, name) : name \in DOMAIN fs.kids[Target(Looked(i, p).n)]} :
                      p \in {q \in level[k - 1] : ~LeftOut(i, q) /\ Descended(i, q)}}
  IN UNION {level[k] : k \in 0..MaxDepth}

Paths(i) == {out[k].path : k \in {j \in DOMAIN out : out[j].arg = i}}
Wanted(i) ==
  {p \in Reached(i) :
     LET v == Looked(i, p)
     IN \/ BrokenLink(v)
        \/ /\ ~LeftOut(i, p)
           /\ Kind(v) = "dir" => options.keep_dir
           /\ TimesMatch(IF Kind(v) = "link" THEN v.n ELSE Target(v.n))}

\* Two limits of the code (README, section 3) are left aside.
\* Leaving out a directory that was not opened, because it is on another
\* device, gives up the directory around it.
MountLeftOut ==
  /\ options.one_file_system
  /\ \E i \in DOMAIN operands : \E p \in Reached(i) :
       LeftOut(i, p) /\ Kind(Looked(i, p)) = "dir" /\ ~Descended(i, p)
\* With followed links a hard link is compared by the times of the link.
TimesOfLinks == options.follow_links /\ ~(Unbounded(options.ctime) /\ Unbounded(options.mtime))

\* A walk that succeeds collects, for every operand in turn, exactly what it
\* selects, a directory before what is in it; and it succeeds if nothing
\* selected is a device, a loop or missing.
CollectsExactly ==
  /\ pc = "done" /\ ~MountLeftOut /\ ~TimesOfLinks =>
       /\ \A i \in DOMAIN operands : Paths(i) = Wanted(i)
       /\ \A j, k \in DOMAIN out : j < k =>
            /\ out[j].arg <= out[k].arg
            /\ out[j].arg = out[k].arg => ~IsPrefix(out[k].path, out[j].path)
  /\ pc = "error" =>
       \/ Looked(at, Operand.path).n = Nowhere
       \/ \E p \in Reached(at) :
            LET v == Looked(at, p)
            IN \/ ~LeftOut(at, p) /\ Kind(v) = "other"
               \/ /\ options.follow_links /\ IsLink(v)
                  /\ \E q \in Above(p) : Len(q) >= Len(Operand.path)
                                        /\ Target(Looked(at, q).n) = Target(v.n)

\* No operand is given twice or lies inside another.
OperandsApart ==
  \A j, k \in DOMAIN operands : j # k => ~IsPrefix(operands[j].path, operands[k].path)

\* A hard link entry names an earlier entry that holds the data of the same
\* file, whatever the order of the walk, the filters and the operands, and
\* also when leading components of the names are stripped.
LinksResolve ==
  pc = "done" /\ OperandsApart /\ ~TimesOfLinks =>
    LET e == Entries
    IN \A k \in DOMAIN e : e[k].store_as = "hardlink" =>
         \E j \in 1..(k - 1) : /\ e[j].name = e[k].reference /\ e[j].n = e[k].n
                               /\ e[j].store_as = "file"

\* "Warn if not all links to each file are archived": a file is warned of when
\* one of its paths is collected and another one is not.
Missing == {n \in {x.n : x \in ToSet(out)} :
              /\ fs.kind[n] = "file"
              /\ Cardinality({x.path : x \in {y \in ToSet(out) : y.n = n}}) < fs.links[n]}
WarnsOfMissingLinks == pc = "done" => Missing \subseteq Incomplete
\* It does when no file is collected twice by one of its paths, and then not
\* without reason either, as long as the filter on times takes the file.
WarnsExactly ==
  pc = "done" /\ OperandsApart /\ ~options.follow_links =>
    /\ Missing \subseteq Incomplete
    /\ \A n \in Incomplete : n \in Missing \/ ~TimesMatch(n)
=============================================================================
