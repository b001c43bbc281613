--------------------------- MODULE ParallelExtract ---------------------------
(***************************************************************************)
(* Extraction of an archive by a reader and a pool of workers:             *)
(* run_extract_archive_reader and run_extract_archive of                   *)
(* cli/src/command/extract.rs.                                             *)
(*                                                                         *)
(* The reader takes the entries in archive order.  It registers a file for *)
(* its path (PathLocks) and spawns a job, makes a directory itself, and    *)
(* puts a link off until every job is done.  Jobs and reader use the file  *)
(* system one call at a time.  External to the code: rayon's FIFO scope,   *)
(* and a file system with a file, a link or an empty directory under each  *)
(* path.                                                                   *)
(***************************************************************************)
EXTENDS PathLocks, Sequences, FiniteSets, SequencesExt

CONSTANTS
  Inputs,       \* what may be extracted and how: see the inputs below
  Threads,      \* threads that may be in rayon's pool
  Now           \* a modification time later than that of any entry

\* What is under a path: its kind, the entry that put it there (0: it was
\* there before), whether all of its content is, and its modification time.
Nodes == [kind : {"none", "file", "dir", "link"}, by : {0} \cup Jobs,
          whole : BOOLEAN, mtime : Nat]
Node(k, i, w, t) == [kind |-> k, by |-> i, whole |-> w, mtime |-> t]
Absent == Node("none", 0, TRUE, 0)
\* An entry that records no modification time has mtime 0.
Entries == [path : Paths, kind : {"file", "link", "dir"}, mtime : Nat, bad : BOOLEAN]
Options == [strategy : {"Always", "Never", "KeepNewer", "KeepOlder"},
            unlink_first : BOOLEAN, safe_writes : BOOLEAN, keep_timestamp : BOOLEAN]

\* The job of a file entry is named by the entry's position in the archive.
ASSUME JobsAssumption == Jobs \subseteq Nat \ {0} /\ Now \in Nat
ASSUME InputsAssumption ==
  \A in \in Inputs :
    /\ in.archive \in Seq(Entries) /\ DOMAIN in.archive \subseteq Jobs
    /\ in.opt \in Options /\ in.pool.workers \subseteq Threads
    /\ in.disk \in [Paths -> Nodes]
    /\ \A p \in Paths : in.disk[p].by = 0 /\ in.disk[p].whole

VARIABLES
  archive,      \* the entries [path, kind, mtime, bad], in order
  opt,          \* [strategy, unlink_first, safe_writes, keep_timestamp]
  pool,         \* [workers, reader]: the threads of the pool, and the thread
                \* the reader runs on, one of them or not
  disk,         \* what is under each path before
  fs,           \* the node of each path
  pos, rstate,  \* how many entries the reader has taken, and where it is
  saw,          \* the kind of node that extract_directory_structure saw
  links,        \* link entries put off
  queue,        \* spawned jobs that no worker has started
  running,      \* the job of each worker, or 0
  step,         \* the next call of each job
  remove,       \* remove_existing, decided by a job that looked at its path
  rx            \* the channel of results: <<job, "ok" or "error">>

inputs == <<archive, opt, pool, disk>>
readvars == <<pos, rstate, saw, links>>
jobvars == <<step, remove>>
vars == <<inputs, fs, readvars, queue, running, jobvars, rx, lvars>>

RStates == {"reading", "dirclear", "dirmake", "dircreate", "failing", "scope", "links",
            "done", "failed"}
JobSteps == {"idle", "check", "unlink", "remove", "create", "write", "temp",
             "prepare", "rename", "ok", "error", "leave"}

Put(p, n) == fs' = [fs EXCEPT ![p] = n]
e(i) == archive[i]
At(i) == fs[e(i).path]

-----------------------------------------------------------------------------
(* check_and_prepare_target: what the overwrite strategy says of entry i   *)
(* when node n is under its path.                                          *)

HasTime(i) == e(i).mtime # 0
Newer_Strictly(n, i) == HasTime(i) /\ n.mtime > e(i).mtime   \* mutant
Newer(n, i) == HasTime(i) /\ n.mtime >= e(i).mtime           \* is_existing_newer

Refused(n, i) == n.kind # "none" /\ opt.strategy = "Never" /\ ~opt.unlink_first
Skipped(n, i) == /\ n.kind # "none" /\ ~opt.unlink_first
                 /\ \/ opt.strategy = "KeepOlder"
                    \/ opt.strategy = "KeepNewer" /\ Newer(n, i)
Unlinks(n) == n.kind # "none" /\ (opt.unlink_first \/ n.kind = "link")
RemovesExisting(n) == /\ n.kind # "none" /\ ~opt.unlink_first
                      /\ opt.strategy \in {"Always", "KeepNewer"}

-----------------------------------------------------------------------------
(* The reader.                                                             *)

\* With one thread the reader extracts the files itself, one after the other.
Sequential == pool.reader \notin pool.workers /\ Cardinality(pool.workers) = 1
Quiet == queue = <<>> /\ \A w \in Threads : running[w] = 0
Failed == \E k \in DOMAIN rx : rx[k][2] = "error"
MayRead == /\ rstate = "reading" /\ pos < Len(archive)
           /\ Sequential => Quiet /\ ~Failed

ReadFile ==
  LET i == pos + 1
  IN /\ MayRead /\ e(i).kind = "file"
     /\ pos' = i
     /\ Register(i, e(i).path)
     /\ queue' = Append(queue, i)
     /\ UNCHANGED <<inputs, fs, rstate, saw, links, running, jobvars, rx>>

ReadLink ==
  LET i == pos + 1
  IN /\ MayRead /\ e(i).kind = "link"
     /\ pos' = i
     /\ links' = Append(links, i)
     /\ UNCHANGED <<inputs, fs, rstate, saw, queue, running, jobvars, rx, lvars>>

\* extract_directory_structure: looks at the path, clears it, then makes the
\* directory; none of it under the path's lock.
ReadDirectory ==
  LET i == pos + 1
  IN /\ MayRead /\ e(i).kind = "dir"
     /\ pos' = i
     /\ saw' = At(i).kind
     /\ rstate' = IF Refused(At(i), i) THEN "failing"
                  ELSE IF Skipped(At(i), i) THEN "reading" ELSE "dirclear"
     /\ UNCHANGED <<inputs, fs, links, queue, running, jobvars, rx, lvars>>

ClearDirectory ==
  /\ rstate = "dirclear"
  /\ IF saw \in {"file", "link"} THEN Put(e(pos).path, Absent) ELSE UNCHANGED fs
  /\ rstate' = "dirmake"
  /\ UNCHANGED <<inputs, pos, saw, links, queue, running, jobvars, rx, lvars>>

\* ensure_directory_components: whatever else has come in the way meanwhile
\* goes, and the directory is made unless something comes again.
MakeDirectory ==
  \/ /\ rstate = "dirmake"
     /\ rstate' = IF At(pos).kind = "dir" THEN "reading" ELSE "dircreate"
     /\ IF At(pos).kind = "dir" THEN UNCHANGED fs ELSE Put(e(pos).path, Absent)
     /\ UNCHANGED <<inputs, pos, saw, links, queue, running, jobvars, rx, lvars>>
  \/ /\ rstate = "dircreate"
     /\ rstate' = "reading"
     /\ IF At(pos).kind # "none" THEN UNCHANGED fs
        ELSE Put(e(pos).path, Node("dir", pos, TRUE, Now))
     /\ UNCHANGED <<inputs, pos, saw, links, queue, running, jobvars, rx, lvars>>

\* An entry cannot be read.
ReadFails ==
  /\ MayRead
  /\ rstate' = "failing"
  /\ UNCHANGED <<inputs, fs, pos, saw, links, queue, running, jobvars, rx, lvars>>

EndOfArchive ==
  /\ rstate = "reading" /\ pos = Len(archive)
  /\ rstate' = "scope"
  /\ UNCHANGED <<inputs, fs, pos, saw, links, queue, running, jobvars, rx, lvars>>

\* The scope returns once every job has; only then are the results looked at.
Drains_Partial == rstate \in {"scope", "failing"} /\ queue = <<>>   \* mutant
Drains == rstate \in {"scope", "failing"} /\ Quiet
JoinScope ==
  /\ Drains \/ (Sequential /\ rstate = "reading" /\ Quiet /\ Failed)
  /\ rstate' = IF rstate = "failing" \/ Failed THEN "failed" ELSE "links"
  /\ UNCHANGED <<inputs, fs, pos, saw, links, queue, running, jobvars, rx, lvars>>

\* extract_link_entry: nothing else runs any more.  Whatever is under the
\* path goes first.
ExtractLink ==
  LET i == links[1]
  IN /\ rstate = "links" /\ links # <<>>
     /\ IF Refused(At(i), i) THEN rstate' = "failed" ELSE UNCHANGED rstate
     /\ links' = Tail(links)
     /\ IF Refused(At(i), i) \/ Skipped(At(i), i) THEN UNCHANGED fs
        ELSE Put(e(i).path, Node("link", i, TRUE, Now))
     /\ UNCHANGED <<inputs, pos, saw, queue, running, jobvars, rx, lvars>>

AllDone ==
  /\ rstate = "links" /\ links = <<>>
  /\ rstate' = "done"
  /\ UNCHANGED <<inputs, fs, pos, saw, links, queue, running, jobvars, rx, lvars>>

Read == \/ ReadFile \/ ReadLink \/ ReadDirectory \/ ClearDirectory
        \/ MakeDirectory \/ EndOfArchive \/ JoinScope \/ ExtractLink \/ AllDone

-----------------------------------------------------------------------------
(* The jobs: extract_file_entry under the guard of the path.               *)

\* Jobs are started first in, first out; a thread the reader runs on is free
\* for them once the reader waits for the scope.
NextJob_Last == Len(queue)   \* mutant: the order of a LIFO scope
NextJob == 1
Start(w) ==
  /\ w \in pool.workers /\ running[w] = 0 /\ queue # <<>>
  /\ w = pool.reader => rstate \in {"scope", "failing"}
  /\ running' = [running EXCEPT ![w] = queue[NextJob]]
  /\ queue' = RemoveAt(queue, NextJob)
  /\ UNCHANGED <<inputs, fs, readvars, jobvars, rx, lvars>>

\* restore_timestamps: without a recorded time the file is as new as its content.
Mtime(i) == IF opt.keep_timestamp /\ HasTime(i) THEN e(i).mtime ELSE Now
Then(i, s) == step' = [step EXCEPT ![i] = s]
InJob == UNCHANGED <<inputs, readvars, queue, running, lvars>>

Wait(i) ==
  /\ step[i] = "idle" /\ WaitForTurn(i)
  /\ IF lstate'[i] = "guard" THEN Then(i, "check") ELSE UNCHANGED step
  /\ UNCHANGED <<inputs, fs, readvars, queue, running, remove, rx>>

AfterUnlink_RemovesFirst(r) == IF r THEN "remove"   \* mutant
                               ELSE IF opt.safe_writes THEN "temp" ELSE "create"
AfterUnlink(r) == IF opt.safe_writes THEN "temp"
                  ELSE IF r THEN "remove" ELSE "create"
Check(i) ==
  /\ step[i] = "check"
  /\ remove' = [remove EXCEPT ![i] = RemovesExisting(At(i))]
  /\ Then(i, IF Refused(At(i), i) THEN "error"
             ELSE IF Skipped(At(i), i) THEN "ok"
             ELSE IF Unlinks(At(i)) THEN "unlink"
             ELSE AfterUnlink(RemovesExisting(At(i))))
  /\ UNCHANGED <<fs, rx>> /\ InJob

Unlink(i) ==
  /\ step[i] \in {"unlink", "remove"}
  /\ Put(e(i).path, Absent)
  /\ Then(i, AfterUnlink(step[i] = "unlink" /\ remove[i]))
  /\ UNCHANGED <<remove, rx>> /\ InJob

\* file_create: create_new fails on whatever exists, create on a directory.
CreateFails(i) == IF remove[i] THEN At(i).kind = "dir" ELSE At(i).kind # "none"
Create(i) ==
  /\ step[i] = "create"
  /\ IF CreateFails(i) THEN Then(i, "error") /\ UNCHANGED fs
     ELSE Then(i, "write") /\ Put(e(i).path, Node("file", i, FALSE, Now))
  /\ UNCHANGED <<remove, rx>> /\ InJob

\* The content goes to the file that was created, wherever its name is now.
Write(i) ==
  /\ step[i] = "write"
  /\ Then(i, IF e(i).bad THEN "error" ELSE "ok")
  /\ IF At(i).kind = "file" /\ At(i).by = i /\ ~e(i).bad
     THEN Put(e(i).path, Node("file", i, TRUE, Mtime(i))) ELSE UNCHANGED fs
  /\ UNCHANGED <<remove, rx>> /\ InJob

\* --safe-writes: SafeWriter writes to a temporary file and renames it.
WriteTemp(i) ==
  /\ step[i] = "temp"
  /\ Then(i, IF e(i).bad THEN "error" ELSE "prepare")
  /\ UNCHANGED <<fs, remove, rx>> /\ InJob

Prepare(i) ==
  /\ step[i] = "prepare"
  /\ IF At(i).kind = "dir" THEN Put(e(i).path, Absent) ELSE UNCHANGED fs
  /\ Then(i, "rename")
  /\ UNCHANGED <<remove, rx>> /\ InJob

Rename(i) ==
  /\ step[i] = "rename"
  /\ IF At(i).kind = "dir" THEN Then(i, "error") /\ UNCHANGED fs
     ELSE Then(i, "ok") /\ Put(e(i).path, Node("file", i, TRUE, Mtime(i)))
  /\ UNCHANGED <<remove, rx>> /\ InJob

Send(i) ==
  /\ step[i] \in {"ok", "error"}
  /\ rx' = Append(rx, <<i, step[i]>>)
  /\ Then(i, "leave")
  /\ UNCHANGED <<fs, remove>> /\ InJob

\* The guard is dropped at the end of the job's closure.
Leave(w) ==
  LET i == running[w]
  IN /\ i # 0 /\ step[i] = "leave"
     /\ DropGuard(i)
     /\ Then(i, "idle")
     /\ running' = [running EXCEPT ![w] = 0]
     /\ UNCHANGED <<inputs, fs, readvars, queue, remove, rx>>

Run(i) == \/ Wait(i) \/ Check(i) \/ Unlink(i) \/ Create(i) \/ Write(i)
          \/ WriteTemp(i) \/ Prepare(i) \/ Rename(i) \/ Send(i)
Work(w) == Start(w) \/ (running[w] # 0 /\ Run(running[w])) \/ Leave(w)

Spurious == /\ \E i \in Jobs : WakeUp(i)
            /\ UNCHANGED <<inputs, fs, readvars, queue, running, jobvars, rx>>

InitOf(in) ==
  /\ LInit
  /\ archive = in.archive /\ opt = in.opt /\ pool = in.pool /\ disk = in.disk
  /\ fs = disk
  /\ pos = 0 /\ rstate = "reading" /\ saw = "none" /\ links = <<>>
  /\ queue = <<>> /\ running = [w \in Threads |-> 0]
  /\ step = [j \in Jobs |-> "idle"] /\ remove = [j \in Jobs |-> FALSE]
  /\ rx = <<>>
Init == \E in \in Inputs : InitOf(in)

Next == Read \/ ReadFails \/ (\E w \in Threads : Work(w)) \/ Spurious

\* The reader and every thread of the pool are scheduled.
Spec == Init /\ [][Next]_vars /\ WF_vars(Read) /\ \A w \in Threads : WF_vars(Work(w))

-----------------------------------------------------------------------------
(* Properties                                                              *)

\* Types; a worker's job has left the queue and is not over, and a job that
\* touches the file system holds the guard of its path.
TypeOK ==
  /\ LTypeOK
  /\ fs \in [Paths -> Nodes] /\ rstate \in RStates /\ pos \in 0..Len(archive)
  /\ queue \in Seq(Jobs) /\ links \in Seq(Jobs)
  /\ running \in [Threads -> {0} \cup Jobs]
  /\ step \in [Jobs -> JobSteps] /\ remove \in [Jobs -> BOOLEAN]
  /\ \A j \in Jobs : step[j] # "idle" =>
       /\ lstate[j] = "guard" /\ \E w \in Threads : running[w] = j
       /\ \A k \in DOMAIN queue : queue[k] # j

Files == {i \in DOMAIN archive : e(i).kind = "file"}
OnlyFiles(p) == \A i \in DOMAIN archive : e(i).path = p => i \in Files

\* What one file entry makes of what is under its path when nothing else runs.
Alone(n, i) ==
  LET m == IF Unlinks(n) THEN Absent ELSE n
  IN IF Refused(n, i) \/ Skipped(n, i) THEN n
     ELSE IF ~e(i).bad THEN Node("file", i, TRUE, Mtime(i))
     ELSE IF opt.safe_writes THEN m ELSE Node("file", i, FALSE, Now)

\* What is under the paths once the first k entries have gone there one by
\* one: only files are counted, see OnlyFiles.
OneByOne[k \in Nat] ==
  IF k = 0 THEN disk
  ELSE IF k \in Files
  THEN [OneByOne[k - 1] EXCEPT ![e(k).path] = Alone(OneByOne[k - 1][e(k).path], k)]
  ELSE OneByOne[k - 1]

\* However the jobs interleave, once those of the entries read are through
\* each path that only files go to is as if they had been extracted one by
\* one in archive order: the last entry wins, or the one the strategy says.
SameAsSequential ==
  Quiet => \A p \in Paths : OnlyFiles(p) => fs[p] = OneByOne[pos][p]

\* Success is reported only when every file entry has been worked on exactly
\* once and without error, nothing still runs, and nothing is half-written.
DoneIsComplete ==
  rstate = "done" =>
    /\ Quiet /\ ~Failed /\ Len(rx) = Cardinality(Files)
    /\ {rx[k][1] : k \in DOMAIN rx} = Files
    /\ \A p \in Paths : fs[p].whole

\* With --safe-writes someone who opens a file that is replaced always finds
\* a whole one under its name, the old one or a new one, also when entries
\* follow each other on the path or fail (unless --unlink asks otherwise).
SafeWritesNeverExpose ==
  opt.safe_writes /\ ~opt.unlink_first =>
    \A p \in Paths :
      OnlyFiles(p) =>
        fs[p].whole /\ (disk[p].kind = "file" => fs[p].kind = "file")

\* Success leaves nothing half-written and nothing undone, and with
\* --safe-writes nobody ever finds a file that is not whole.
NothingHalfWritten == DoneIsComplete /\ SafeWritesNeverExpose

\* An entry without a time goes over whatever lies there, also over a newer one.
Covered(i) == \E j \in Files : j > i /\ e(j).path = e(i).path /\ ~HasTime(j)

\* --keep-newer-files leaves the newest: no entry of the path is newer than
\* what lies there in the end, and of equally new ones the first stays; an
\* entry without a time counts as just made, and only those that come after
\* it compete with it.  (The reader may remove a file in the way of a
\* directory of the same name while its jobs still run; what stays of such a
\* path depends on the timing.)
NewestStays ==
  rstate = "done" /\ opt.strategy = "KeepNewer" /\ opt.keep_timestamp
    /\ ~opt.unlink_first =>
    \A i \in Files :
      LET n == At(i)
      IN OnlyFiles(e(i).path) /\ ~Covered(i) =>
           n.mtime > Mtime(i) \/ (n.mtime = Mtime(i) /\ n.by <= i)

\* The extraction always comes to an end: no job waits for ever for the turn
\* of one that no thread is left to run.
Terminates == <>(rstate \in {"done", "failed"})

\* What cli/tests/cli/extract/overwrite_order.rs says of --overwrite: the last
\* entry in archive order determines what a path ends up with.
LastEntryWins ==
  rstate = "done" /\ opt.strategy = "Always" =>
    \A i \in DOMAIN archive :
      (\A k \in DOMAIN archive : k > i => e(k).path # e(i).path) => At(i).by = i
=============================================================================
