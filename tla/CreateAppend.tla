---------------------------- MODULE CreateAppend ----------------------------
(***************************************************************************)
(* pna create, append and split: entries made by parallel jobs are drained *)
(* in order into an archive that is written where it will stay, and the    *)
(* archive is read back.  create.rs, append.rs, split.rs and               *)
(* spawn_entry_results, drain_entry_results, write_split_archive_path of   *)
(* core.rs; the reader is ArchiveReader.                                   *)
(*                                                                         *)
(* A file is a sequence of tokens, as for the reader; 0 is the name given  *)
(* on the command line, n >= 1 that of its n-th part.  What stands behind  *)
(* a chunk that was written over something longer is one "junk" token: the *)
(* reader stops there, as it would at chunks that do not line up.          *)
(***************************************************************************)
EXTENDS ReorderByIndex, SequencesExt

CONSTANTS Layouts,     \* what may be there before: [disk, held, whole]
          Commands,    \* [kind, solid, overwrite, concatenated, at]
          Results,     \* for each item, "ok", "none" or "err" for its entries
          MaxParts

VARIABLES
  disk,     \* name -> tokens
  pc,       \* "idle", "start", "spawn", "build", "open", "drain", "close",
            \* and in the end "ok", "error" or "killed"
  cmd,      \* the command that runs
  results,  \* per item [batch, out], what creating or reading it will give
  spawned, jobs, sent,   \* items spawned, jobs at work, results in the channel
  taken,    \* how many yielded results the drain has begun
  queue,    \* entries left of the last of them
  todo,     \* chunks of the current entry that are still to be written
  out, pos, \* where the next chunk goes
  held, whole,  \* history: what the archives at 0 and 1 should hold, and
                \* whether they were finished
  before,   \* history: the disk when the command started
  lost,     \* history: the last buffered bytes of an archive were lost
  mixed,    \* history: parts of an older archive stand behind new ones
  asked     \* the name that is read in the end

VARIABLES files, concatenated, rpc, opened, rest, number, next_archive, buf, items

R == INSTANCE ArchiveReader
readers == <<files, concatenated, rpc, opened, rest, number, next_archive, buf, items>>
work == <<cmd, results, before, asked>>
spawning == <<spawned, jobs, sent>>
history == <<held, whole, lost, mixed>>
writing == <<disk, todo, out, pos, history>>
vars == <<pc, work, spawning, writing, taken, queue, rvars, readers>>

\* A solid block that will be cut is built in memory before a part is opened.
Builds == cmd.kind = "create_split" /\ cmd.solid
Splits == cmd.kind \in {"create_split", "split"}
Buffered == cmd.kind # "append"   \* BufWriter; append writes to the file itself
Tok(ty, e) == [ty |-> ty, e |-> e]
Marker(ty) == [ty |-> ty]
Header(n) == [ty |-> "AHED", number |-> n]
Number_Always0(n) == 0   \* mutant
Number(n) == IF n = 0 THEN 0 ELSE n - 1   \* of the archive under name n
Chunks(e) == IF cmd.solid THEN <<Tok("SDAT", e)>> ELSE <<Tok("FHED", e), Tok("FEND", e)>>

\* What the archive is to hold in the end, item after item.
Entries(i) == LET o == results[i].out
              IN SelectSeq([j \in DOMAIN o |-> <<1, i, j>>],
                           LAMBDA e : o[e[3]] = "ok")
Added == FlattenSeq([i \in DOMAIN results |-> Entries(i)])
Erred == \E i \in DOMAIN results : \E r \in Range(results[i].out) : r = "err"
Wanted(old) == IF cmd.kind = "append" THEN old \o Added ELSE Added

-----------------------------------------------------------------------------
(* Where append begins to write: open_archive_then_seek_to_end.            *)

Name(k) == IF k = 1 THEN cmd.at ELSE k
EndFrom(s, o) == {i \in o..Len(s) : s[i].ty = "AEND"}
\* One archive of the scan: part k from token o; where it ends, and where the
\* scan goes on.  "end" is the place found, "error" that there is none.
Broken == [place |-> "error", part |-> 0, token |-> 0]
Scanned(k, o, num) ==
  IF Name(k) \notin DOMAIN disk THEN Broken
  ELSE LET s == disk[Name(k)]
           e == Min(EndFrom(s, o))
       IN IF \/ o > Len(s) \/ ~R!Starts(SubSeq(s, o, Len(s))) \/ EndFrom(s, o) = {}
             \/ ~cmd.concatenated /\ s[o].number # num
          THEN Broken
          ELSE IF \E i \in o..e : s[i].ty = "ANXT"
          THEN [place |-> "next", part |-> k + 1, token |-> 1]
          ELSE IF cmd.concatenated /\ e < Len(s)
          THEN [place |-> "next", part |-> k, token |-> e + 1]
          ELSE [place |-> "end", part |-> k, token |-> e]
FirstNumber == IF R!Starts(disk[cmd.at]) THEN disk[cmd.at][1].number ELSE 0

\* At most so many archives follow each other.
ScanBound == MaxParts + 2
Scan[n \in 0..ScanBound] ==
  IF n = 0 THEN [place |-> "next", part |-> 1, token |-> 1]
  ELSE IF Scan[n - 1].place # "next" THEN Scan[n - 1]
  ELSE Scanned(Scan[n - 1].part, Scan[n - 1].token, FirstNumber + Scan[n - 1].part - 1)
SeekToEnd_ChunkEarlier == [Scan[ScanBound] EXCEPT !.token = @ - 1]   \* mutant
SeekToEnd == Scan[ScanBound]

-----------------------------------------------------------------------------
(* The command starts.                                                     *)

Fail == pc' = "error" /\ todo' = <<>> /\ queue' = <<>>

Start(c, rs) ==
  /\ pc = "idle"
  /\ c.kind = "append" => c.at \in DOMAIN disk /\ c.concatenated = concatenated
  /\ c.kind = "split" => Len(rs) = 1 /\ rs[1].batch
  /\ cmd' = c /\ results' = rs
  /\ before' = disk
  /\ pc' = "start"
  /\ UNCHANGED <<writing, asked, spawning, taken, queue, rvars, readers>>

\* create refuses an archive that exists; append looks for the end first of
\* all.  split reads entries one by one from the archive it opens.
Refused == cmd.kind \in {"create", "create_split"} /\ ~cmd.overwrite /\ 0 \in DOMAIN disk
Begin ==
  /\ pc = "start"
  /\ \/ Refused /\ Fail /\ UNCHANGED <<out, pos, yielded, exhausted>>
     \/ /\ cmd.kind \in {"create", "create_split"} /\ ~Refused
        /\ pc' = "spawn" /\ UNCHANGED <<todo, queue, out, pos, yielded, exhausted>>
     \/ /\ cmd.kind = "append"
        /\ UNCHANGED <<yielded, exhausted>>
        /\ IF SeekToEnd.place # "end" THEN Fail /\ UNCHANGED <<out, pos>>
           ELSE /\ out' = Name(SeekToEnd.part) /\ pos' = SeekToEnd.token
                /\ pc' = "spawn" /\ UNCHANGED <<todo, queue>>
     \/ /\ cmd.kind = "split"
        /\ yielded' = <<1>> /\ exhausted' = TRUE
        /\ pc' = "open" /\ UNCHANGED <<todo, queue, out, pos>>
  /\ UNCHANGED <<disk, work, spawning, taken, history, source, next, buffer, readers>>

-----------------------------------------------------------------------------
(* spawn_entry_results: the files are read by jobs of a pool, the archives *)
(* named @file by the spawning thread itself.                              *)

Spawn ==
  /\ pc = "spawn" /\ spawned < Len(results)
  /\ spawned' = spawned + 1
  /\ IF results[spawned + 1].batch
     THEN sent' = Append(sent, spawned + 1) /\ UNCHANGED jobs
     ELSE jobs' = jobs \cup {spawned + 1} /\ UNCHANGED sent
  /\ UNCHANGED <<pc, work, writing, taken, queue, rvars, readers>>

CreateEntry(i) ==
  /\ pc = "spawn" /\ i \in jobs
  /\ jobs' = jobs \ {i} /\ sent' = Append(sent, i)
  /\ UNCHANGED <<pc, work, writing, spawned, taken, queue, rvars, readers>>

\* Indices count from 0.
Indexed(s) == [k \in DOMAIN s |-> <<s[k] - 1, s[k]>>]
ScopeEnds ==
  /\ pc = "spawn" /\ spawned = Len(results) /\ jobs = {}
  /\ source' = Indexed(sent)
  /\ pc' = IF cmd.kind = "append" THEN "drain" ELSE IF Builds THEN "build" ELSE "open"
  /\ UNCHANGED <<work, writing, spawning, taken, queue, next, buffer, exhausted, yielded,
                 readers>>

-----------------------------------------------------------------------------
(* Writing.                                                                *)

\* The archives at 0 and 1 that an unfinished write makes unfinished.
Chain(n) == IF n = 0 THEN 0 ELSE IF cmd.kind = "append" THEN cmd.at ELSE 1

\* file_create for name n, then the header of an archive or a part, and more.
CreateFile(d, n, more) ==
  /\ cmd.overwrite \/ n \notin DOMAIN d
  /\ disk' = (n :> <<>>) @@ d
  /\ out' = n /\ pos' = 1
  /\ todo' = <<Header(Number(n))>> \o more

Solid(es) == <<Marker("SHED")>> \o FlattenSeq([k \in DOMAIN es |-> Chunks(es[k])])
Built == FlattenSeq([k \in DOMAIN yielded |-> Entries(yielded[k])])
Open ==
  LET n == IF Splits THEN 1 ELSE 0
      more == IF Builds THEN Append(Solid(Built), Marker("SEND"))
              ELSE IF cmd.solid THEN Solid(<<>>) ELSE <<>>
  IN /\ pc = "open"
     /\ \/ /\ CreateFile(disk, n, more) /\ pc' = "drain"
           /\ whole' = [whole EXCEPT ![n] = FALSE] /\ held' = [held EXCEPT ![n] = <<>>]
           /\ mixed' = (mixed \/ (Splits /\ \E k \in DOMAIN disk : k > 1))
           /\ UNCHANGED queue
        \/ Fail /\ UNCHANGED <<disk, out, pos, held, whole, mixed>>
     /\ UNCHANGED <<work, spawning, taken, lost, rvars, readers>>

\* A chunk of t at the place; what it does not cover of the rest is junk.
Written(t) ==
  LET f == disk[out]
  IN {[disk EXCEPT ![out] = SubSeq(f, 1, pos - 1) \o t \o junk] :
        junk \in IF Len(f) > pos THEN {<<>>, <<Marker("junk")>>} ELSE {<<>>}}

Ends(t) == t.ty = "AEND"
WriteChunk ==
  /\ pc \in {"drain", "close"} /\ todo # <<>>
  /\ disk' \in Written(<<todo[1]>>)
  /\ pos' = pos + 1 /\ todo' = Tail(todo)
  /\ LET c == Chain(out)
     IN /\ whole' = [whole EXCEPT ![c] = Ends(todo[1]) /\ ~Erred]
        /\ held' = IF Ends(todo[1]) THEN [held EXCEPT ![c] = Wanted(@)] ELSE held
  /\ UNCHANGED <<pc, work, spawning, taken, queue, out, lost, mixed, rvars, readers>>

\* roll_over, at any chunk once the part holds one: the rest in the next part.
RollOver ==
  /\ Splits /\ pc \in {"drain", "close"} /\ out < MaxParts
  /\ todo # <<>> /\ ~Ends(todo[1]) /\ pos > 2
  /\ LET closed == [disk EXCEPT ![out] = @ \o <<Marker("ANXT"), Marker("AEND")>>]
         n == out + 1
     IN \/ CreateFile(closed, n, todo) /\ UNCHANGED <<pc, queue>>
        \/ disk' = closed /\ Fail /\ UNCHANGED <<out, pos>>
  /\ UNCHANGED <<work, spawning, taken, history, rvars, readers>>

-----------------------------------------------------------------------------
(* drain_entry_results: the results in order, up to the first error.       *)

StopsAt_Never(r) == FALSE   \* mutant
StopsAt(r) == r = "err"

Draining == pc \in {"drain", "build"} /\ todo = <<>>
NeedsNext == Draining /\ queue = <<>> /\ taken = Len(yielded)

Iterate ==
  /\ NeedsNext
  /\ ReorderNext
  /\ UNCHANGED <<pc, work, writing, spawning, taken, queue, readers>>

TakeResult ==
  /\ Draining /\ queue = <<>> /\ taken < Len(yielded)
  /\ taken' = taken + 1
  /\ LET i == yielded[taken + 1]
     IN queue' = [j \in DOMAIN results[i].out |-> <<1, i, j>>]
  /\ UNCHANGED <<pc, work, writing, spawning, rvars, readers>>

AddEntry ==
  /\ Draining /\ queue # <<>>
  /\ LET e == queue[1]
         r == results[e[2]].out[e[3]]
     IN IF StopsAt(r) THEN Fail
        ELSE /\ queue' = Tail(queue)
             /\ todo' = IF r = "ok" /\ pc = "drain" THEN Chunks(e) ELSE <<>>
             /\ UNCHANGED pc
  /\ UNCHANGED <<work, spawning, taken, disk, out, pos, history, rvars, readers>>

\* finalize, when the iterator has come to its end.
Finalize ==
  /\ NeedsNext /\ Ended
  /\ \/ Builds /\ pc = "build" /\ pc' = "open" /\ UNCHANGED todo
     \/ /\ pc = "drain" /\ pc' = "close"
        /\ todo' = (IF cmd.solid /\ ~Builds THEN <<Marker("SEND")>> ELSE <<>>)
                   \o <<Marker("AEND")>>
  /\ UNCHANGED <<work, disk, out, pos, history, spawning, taken, queue, rvars, readers>>

\* Bytes that were already written are lost, and with them the archive.
LoseTail ==
  \E f \in Prefixes(disk[out]) \ {disk[out]} :
    /\ disk' = [disk EXCEPT ![out] = f]
    /\ whole' = [whole EXCEPT ![Chain(out)] = FALSE]
    /\ held' = [held EXCEPT ![Chain(out)] = <<>>]

\* create drops its BufWriter without looking at the outcome of the last
\* flush; SplitParts has flushed.  A single part gets the archive's name.
Close ==
  /\ pc = "close" /\ todo = <<>>
  /\ \/ /\ ~Splits \/ out > 1
        /\ pc' = "ok" /\ UNCHANGED <<todo, queue, disk, lost, held, whole, out>>
     \/ /\ cmd.kind = "create"
        /\ pc' = "ok" /\ LoseTail /\ lost' = TRUE /\ UNCHANGED <<todo, queue, out>>
     \/ /\ Splits /\ out = 1
        /\ pc' = "ok" /\ out' = 0
        /\ disk' = (0 :> disk[1]) @@ Restrict(disk, DOMAIN disk \ {1})
        /\ held' = [held EXCEPT ![0] = held[1]] /\ whole' = [whole EXCEPT ![0] = whole[1]]
        /\ UNCHANGED <<todo, queue, lost>>
     \/ /\ Splits /\ out = 1
        /\ Fail /\ UNCHANGED <<disk, lost, held, whole, out>>
  /\ mixed' = (mixed /\ ~(Splits /\ pc' = "ok"))
  /\ UNCHANGED <<work, pos, spawning, taken, rvars, readers>>

\* A write fails, or the process is killed: append leaves what the write has
\* reached, a BufWriter holds back as much as it likes.
Stopped(how) ==
  /\ pc' = how /\ todo' = <<>> /\ queue' = <<>>
  /\ \/ UNCHANGED <<disk, held, whole>>
     \/ Buffered /\ LoseTail
     \/ /\ ~Buffered /\ todo # <<>>
        /\ disk' \in Written(<<>>)
        /\ whole' = [whole EXCEPT ![Chain(out)] = FALSE] /\ UNCHANGED held
  /\ UNCHANGED <<work, out, pos, lost, mixed, spawning, taken, rvars, readers>>
WriteFails == pc \in {"drain", "close"} /\ todo # <<>> /\ Stopped("error")
Killed == pc \in {"drain", "close"} /\ Stopped("killed")

-----------------------------------------------------------------------------
(* The archive is read when no command runs: collect_split_archives.       *)

Stops == {"ok", "error", "killed"}
LastPart == Max({k \in 1..MaxParts : \A j \in 2..k : j \in DOMAIN disk})
Read(n) ==
  /\ pc \in Stops /\ rpc = "idle" /\ files = <<>> /\ n \in DOMAIN disk
  /\ asked' = n
  /\ files' = [k \in 1..LastPart |-> IF k = 1 THEN disk[n] ELSE disk[k]]
  /\ UNCHANGED <<pc, cmd, results, before, spawning, writing, taken, queue, rvars,
                 concatenated, rpc, opened, rest, number, next_archive, buf, items>>
ReadOn == R!ReadNext /\ files # <<>>
          /\ UNCHANGED <<pc, work, spawning, writing, taken, queue, rvars>>

Init ==
  /\ \E l \in Layouts :
       /\ disk = l.disk /\ held = l.held /\ whole = l.whole
       /\ R!Idle(<<>>, l.concatenated)
  /\ pc = "idle" /\ cmd = [kind |-> "none"] /\ results = <<>> /\ before = <<>>
  /\ asked = 0 /\ spawned = 0 /\ jobs = {} /\ sent = <<>>
  /\ todo = <<>> /\ out = 0 /\ pos = 0 /\ lost = FALSE /\ mixed = FALSE
  /\ taken = 0 /\ queue = <<>> /\ ReorderInit(<<>>)

Next ==
  \/ \E c \in Commands, rs \in Results : Start(c, rs)
  \/ Begin \/ Spawn \/ ScopeEnds \/ Open \/ WriteChunk \/ RollOver
  \/ \E i \in 1..Len(results) : CreateEntry(i)
  \/ Iterate \/ TakeResult \/ AddEntry \/ Finalize \/ Close \/ WriteFails \/ Killed
  \/ \E n \in {0, 1} : Read(n)
  \/ ReadOn
Spec == Init /\ [][Next]_vars

-----------------------------------------------------------------------------
(* Properties                                                              *)

\* The entries of an item: of a normal entry one, of a solid block many.
EntriesOf(item) ==
  LET content == SelectSeq(item, LAMBDA t : t.ty \in {"FEND", "SDAT"})
  IN [k \in DOMAIN content |-> content[k].e]
Contents == FlattenSeq([k \in DOMAIN items |-> EntriesOf(items[k])])

\* What reads as an archive without an error is one that a command has
\* finished, with every entry it was to hold, in order: neither a failure nor
\* a kill in any place leaves something that passes for a complete archive.
\* (Parts left over from an older archive behind the new ones may, see mixed.)
OkIsWhole == rpc = "ok" /\ ~mixed => whole[asked] /\ Contents = held[asked]

\* When the last command succeeded, what it wrote can be read to the end;
\* provided that the operating system took the last bytes.
SuccessIsReadable ==
  rpc = "error" /\ pc = "ok" /\ ~lost => ~whole[asked] /\ asked # Chain(out)

\* append writes over the end marker of the archive, but never over an entry:
\* whatever goes wrong, reading returns the entries that were there first.
OldEntriesSurvive ==
  rpc = "error" /\ cmd.kind = "append" => IsPrefix(held[asked], Contents)

\* "archive is not complete until finalize succeeds" (write.rs): when create
\* says ok, its archive is complete.
CreatedIsComplete == cmd.kind = "create" /\ pc = "ok" /\ asked = 0 => rpc # "error"

\* --no-overwrite of split, "Do not overwrite files": what was there stays.
SplitKeepsFiles ==
  pc \in Stops /\ cmd.kind = "split" /\ ~cmd.overwrite
    => \A n \in DOMAIN before : disk[n] = before[n]
=============================================================================
