---------------------------- MODULE UpdateArchive ----------------------------
(***************************************************************************)
(* `pna update`: UpdateCommand and run_update_archive of                   *)
(* cli/src/command/update.rs, create_entry of cli/src/command/core.rs.     *)
(*                                                                         *)
(* The command looks at its files, copies the archive entry by entry into  *)
(* a staged one and spawns a job for each file that is newer; jobs read    *)
(* the files in parallel and send entries back, which are added in the     *)
(* order of the files (ReorderByIndex).  Meanwhile files go on changing.   *)
(*                                                                         *)
(* A file has the time of its last change as its content, so that content  *)
(* and modification time can be compared.  Times are ticks, counted from   *)
(* the epoch, which is 1; 0 stands for none.  Solid blocks are taken apart *)
(* by both transform strategies and are not modelled, nor is the staged    *)
(* file (SafeWriter).  One path collects to one name, and the file system  *)
(* always knows when a file was changed.                                   *)
(***************************************************************************)
EXTENDS ReorderByIndex, SequencesExt

CONSTANTS
  Names,         \* of files and entries, numbered in the order of collection
  MaxTime,       \* bounds the changes of files
  MaxEntries,    \* bounds the archives that an update starts from
  TicksPerSecond,
  Timestamps,    \* what commands may do with the times of files: keep none, keep
                 \* the file's, or take that of --mtime, always or at most
  MissingTimes,  \* what commands may make of an entry without a time
  Given,         \* the time given with --mtime
  Assumed        \* and that of --missing-time
ASSUME NamesAssumption == Names \subseteq Nat
ASSUME OptionsAssumption ==
  /\ Timestamps \subseteq {"none", "source", "override", "clamp"}
  /\ MissingTimes \subseteq {"include", "exclude", "assume"}
ASSUME TimesAssumption ==
  TicksPerSecond \in Nat \ {0} /\ Given \in Nat \ {0} /\ Assumed \in Nat \ {0}

VARIABLES
  disk,     \* the time each file was last changed, 0 if there is none
  now,
  archive,  \* the entries of the archive
  cmd,      \* the command: "idle", "reading", "joining", "adding"
  opt,      \* its options
  asked,    \* the modification times it saw of the files it was given
  targets,  \* those of them no entry has been matched with
  pos, out, \* entries read, and entries of the staged archive
  jobs,     \* for each job its step and the content it has read
  rx,       \* the channel of results: <<index, entry>>
  status,   \* of the last command: "none", "ok", "failed"
  changed   \* files changed since the command started (history)

diskvars == <<disk, now>>
vars == <<diskvars, archive, cmd, opt, asked, targets, pos, out, jobs, rx,
          status, changed, rvars>>

Entry(n, t, c) == [name |-> n, mtime |-> t, content |-> c]
Error == Entry(0, 0, 0)   \* the result of a job whose file is gone
Idx(n) == Cardinality({m \in DOMAIN asked : m < n})
Without(f, n) == Restrict(f, DOMAIN f \ {n})

-----------------------------------------------------------------------------
(* Files change at any time, also while the command runs.                  *)

Change(n) ==
  /\ now < MaxTime
  /\ now' = now + 1
  /\ \/ disk' = [disk EXCEPT ![n] = now + 1]
     \/ disk[n] # 0 /\ disk' = [disk EXCEPT ![n] = 0]
  /\ changed' = changed \cup {n}
  /\ UNCHANGED <<archive, cmd, opt, asked, targets, pos, out, jobs, rx, status, rvars>>

-----------------------------------------------------------------------------
(* The command.                                                            *)

\* UpdateCommand: the files are collected with the metadata they have now.
Start ==
  /\ cmd = "idle" /\ Len(archive) <= MaxEntries
  /\ \E files \in SUBSET {n \in Names : disk[n] # 0} \ {{}} :
       asked' = [n \in files |-> disk[n]]
  /\ targets' = asked'
  /\ opt' \in [sync : BOOLEAN, timestamp : Timestamps, missing_time : MissingTimes]
  /\ cmd' = "reading" /\ pos' = 0 /\ out' = <<>> /\ jobs' = <<>> /\ rx' = <<>>
  /\ status' = "none" /\ changed' = {}
  /\ UNCHANGED <<diskvars, archive, rvars>>

Second(t) == (t - 1) \div TicksPerSecond
Whole(t) == (t - 1) % TicksPerSecond = 0

\* cmp_at_stored_precision: a stored time without a fraction goes by its second.
IsOlder_Coarse(stored, t) == Second(stored) < Second(t)   \* mutant
IsOlder(stored, t) ==
  IF Whole(stored) THEN Second(stored) < Second(t) ELSE stored < t

\* is_newer_than_archive: t is the file's time.
IsNewer(t, mtime) ==
  \/ mtime # 0 /\ IsOlder(mtime, t)
  \/ mtime = 0 /\ \/ opt.missing_time = "include"
                  \/ opt.missing_time = "assume" /\ IsOlder(Assumed, t)

\* The jobs, with new ones for the files of S.
Spawned(S) ==
  [n \in DOMAIN jobs \cup S |->
     IF n \in S THEN [step |-> "spawned", content |-> 0] ELSE jobs[n]]

\* The fate of an archive entry: its file, if asked for and not matched yet,
\* is updated when newer; --sync drops what is replaced or gone.
Pruned_OnlyAsked(n) ==   \* mutant
  opt.sync /\ n \in DOMAIN asked \ DOMAIN targets /\ disk[n] = 0
Pruned(n) == opt.sync /\ n \notin DOMAIN targets /\ disk[n] = 0
Replaced_Always(newer) == newer   \* mutant
Replaced(newer) == opt.sync /\ newer
Taken(n) == Without(targets, n)
ReadEntry ==
  LET entry == archive[pos + 1]
      n == entry.name
      newer == n \in DOMAIN targets /\ IsNewer(targets[n], entry.mtime)
  IN /\ cmd = "reading" /\ pos < Len(archive)
     /\ pos' = pos + 1
     /\ targets' = Taken(n)
     /\ jobs' = IF newer THEN Spawned({n}) ELSE jobs
     /\ out' = IF Replaced(newer) \/ Pruned(n) THEN out ELSE Append(out, entry)
     /\ UNCHANGED <<diskvars, archive, cmd, opt, asked, rx, status, changed, rvars>>

\* The files no entry was there for are added.
EndOfEntries ==
  /\ cmd = "reading" /\ pos = Len(archive)
  /\ jobs' = Spawned(DOMAIN targets)
  /\ cmd' = "joining"
  /\ UNCHANGED <<diskvars, archive, opt, asked, targets, pos, out, rx, status,
                 changed, rvars>>

Iterate(results) ==
  /\ source' = results /\ next' = 0 /\ buffer' = <<>>
  /\ exhausted' = FALSE /\ yielded' = <<>>

\* The command is over, and what it had in memory gone.
Return(s) ==
  /\ cmd' = "idle" /\ status' = s
  /\ targets' = <<>> /\ pos' = 0 /\ out' = <<>> /\ jobs' = <<>> /\ rx' = <<>>
  /\ Iterate(<<>>)

\* An entry cannot be read or written: the staged archive is dropped, and so
\* are the results of the jobs that the scope still waits for.
Fails ==
  /\ cmd \in {"reading", "adding"}
  /\ Return("failed")
  /\ UNCHANGED <<diskvars, archive, opt, asked, changed>>

Join ==
  /\ cmd = "joining" /\ DOMAIN jobs = {}
  /\ cmd' = "adding"
  /\ Iterate(rx)
  /\ UNCHANGED <<diskvars, archive, opt, asked, targets, pos, out, jobs, rx,
                 status, changed>>

\* add_entry of what the iterator yields; at an error the command ends.
Erroneous == yielded # <<>> /\ Last(yielded) = Error
Add ==
  /\ cmd = "adding" /\ ~Erroneous /\ ReorderNext
  /\ out' = IF yielded' = yielded THEN out ELSE Append(out, Last(yielded'))
  /\ UNCHANGED <<diskvars, archive, cmd, opt, asked, targets, pos, jobs, rx,
                 status, changed>>

AddFails ==
  /\ cmd = "adding" /\ Erroneous
  /\ Return("failed")
  /\ UNCHANGED <<diskvars, archive, opt, asked, changed>>

Commit ==
  /\ cmd = "adding" /\ ~Erroneous /\ Ended
  /\ archive' = out
  /\ Return("ok")
  /\ UNCHANGED <<diskvars, opt, asked, changed>>

-----------------------------------------------------------------------------
(* The jobs: create_entry reads the content and then adds the metadata     *)
(* that the file had when it was collected.                                *)

ReadContent(n) ==
  /\ n \in DOMAIN jobs /\ jobs[n].step = "spawned"
  /\ jobs' = [jobs EXCEPT ![n] =
                [step |-> IF disk[n] = 0 THEN "error" ELSE "read", content |-> disk[n]]]
  /\ UNCHANGED <<diskvars, archive, cmd, opt, asked, targets, pos, out, rx,
                 status, changed, rvars>>

\* TimeSource::resolve: the time that is stored of a file.
Stored(t) ==
  IF opt.timestamp = "none" THEN 0
  ELSE IF opt.timestamp = "override" \/ (opt.timestamp = "clamp" /\ Given < t) THEN Given
  ELSE t
Metadata_Reread(n) == disk[n]   \* mutant
Metadata(n) == asked[n]
Send(n) ==
  /\ n \in DOMAIN jobs /\ jobs[n].step # "spawned"
  /\ rx' = Append(rx, <<Idx(n), IF jobs[n].step = "error" THEN Error
                       ELSE Entry(n, Stored(Metadata(n)), jobs[n].content)>>)
  /\ jobs' = Without(jobs, n)
  /\ UNCHANGED <<diskvars, archive, cmd, opt, asked, targets, pos, out, status,
                 changed, rvars>>

Init ==
  /\ disk \in [Names -> 0..1] /\ now = 1
  /\ archive = <<>> /\ cmd = "idle" /\ out = <<>> /\ pos = 0
  /\ opt = [sync |-> FALSE, timestamp |-> "none", missing_time |-> "include"]
  /\ asked = <<>> /\ targets = <<>> /\ jobs = <<>> /\ rx = <<>>
  /\ status = "none" /\ changed = {}
  /\ ReorderInit(<<>>)

Command == \/ ReadEntry \/ EndOfEntries \/ Join \/ Add \/ AddFails \/ Commit
           \/ \E n \in Names : ReadContent(n) \/ Send(n)
Next == Start \/ Command \/ Fails \/ \E n \in Names : Change(n)

\* A command that has started goes on, and so do its jobs.
Spec == Init /\ [][Next]_vars /\ WF_vars(Command)

-----------------------------------------------------------------------------
(* Properties                                                              *)

\* The last of the entries with its name.
IsLast(k) == \A j \in DOMAIN archive : archive[j].name = archive[k].name => j <= k
Done == cmd = "idle" /\ status = "ok"

\* Why an older entry x may stand for a file last changed at t: it was given a
\* later time, its time is a whole second and the change came within it, or it
\* has none and --missing-time takes it for new enough.
Spared(x, t) ==
  \/ x.content < x.mtime
  \/ x.mtime # 0 /\ Whole(x.mtime) /\ Second(x.content) = Second(t)
  \/ x.mtime = 0 /\ ~IsNewer(t, 0)

\* After an update the last entry of each file that was asked for, and left
\* alone meanwhile, has the file's content, whatever was in the archive: it
\* is the one that extraction leaves.  Only where an entry is spared may it be
\* an older one.  And no entry ever claims to be newer than its content, even
\* if its file changes while it is read, but at the wish of --mtime: no later
\* update takes it for up to date.
UpToDate ==
  /\ \A k \in DOMAIN archive :
       \/ archive[k].mtime <= archive[k].content
       \/ "override" \in Timestamps /\ archive[k].mtime = Given
  /\ Done => \A n \in DOMAIN asked \ changed :
       \E k \in DOMAIN archive :
         /\ archive[k].name = n /\ IsLast(k)
         /\ \/ archive[k].content = disk[n]
            \/ \E j \in DOMAIN archive : archive[j].name = n /\ Spared(archive[j], disk[n])

\* --sync leaves no entry whose file is gone.
NoneGone ==
  Done /\ opt.sync =>
    \A k \in DOMAIN archive : disk[archive[k].name] = 0 => archive[k].name \in changed

\* An entry that the last command may have dropped or replaced.
Concerned(x) ==
  x.name \in DOMAIN asked \/ (opt.sync /\ (disk[x.name] = 0 \/ x.name \in changed))
Rest(s) == {k \in DOMAIN s : ~Concerned(s[k])}

\* The elements of s in S are those of t in T, in the same order.
SameEntries(S, s, T, t) ==
  \E f \in Surjection(S, T) : \A k \in S : /\ t[f[k]] = s[k]
                                            /\ \A j \in S : j < k => f[j] < f[k]

\* What an update does not concern it leaves as it is and in its order; and
\* without --sync it only adds, in the order of the files.
LeavesTheRest ==
  /\ SameEntries(Rest(archive), archive, Rest(archive'), archive')
  /\ ~opt.sync => /\ IsPrefix(archive, archive')
                  /\ \A j, k \in DOMAIN archive' :
                       Len(archive) < j /\ j < k => archive'[j].name < archive'[k].name
KeepsTheRest == [][LeavesTheRest]_archive

\* What is gone is pruned with --sync, and nothing else ever is.
PrunesWhatIsGone == []NoneGone /\ KeepsTheRest

\* A command that was started comes to its end.
CommandEnds == cmd # "idle" ~> cmd = "idle"
=============================================================================
