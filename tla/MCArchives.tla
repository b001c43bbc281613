----------------------------- MODULE MCArchives -----------------------------
(* The layers that write archives, each by itself: the sink that cuts an    *)
(* archive into parts and the reader of what it leaves; create, append and  *)
(* split; and the commands that rewrite an archive.  One of them moves in   *)
(* each behaviour; they share the variables where they can.                 *)
EXTENDS SplitRoundTrip, RewriteArchive, SmallArchives

CONSTANT Unused

\* Entries of small chunks over part sizes that cut them everywhere.
MCInputs ==
  {[ty |-> "FHED", len |-> 3], [ty |-> "FEND", len |-> 0],
   [ty |-> "AUX", len |-> 15],
   [ty |-> "FDAT", len |-> 0], [ty |-> "FDAT", len |-> 16]}

VARIABLES layer, disk, spawned, jobs, sent, todo, place, position, held, whole, lost, mixed, asked,
          waiting, next, buffer, exhausted, yielded
more == <<disk, spawned, jobs, sent, todo, place, position, held, whole, lost, mixed, asked,
          waiting, next, buffer, exhausted, yielded>>
allvars == <<layer, vars, rvars, wvars, more>>

C == INSTANCE CreateAppend WITH
       Layouts <- SmallLayouts, Commands <- SmallCommands, Results <- SmallResults, MaxParts <- 3,
       cmd <- ret, results <- max_part_bytes, before <- remaining, taken <- parts,
       pc <- pending, queue <- accepted, out <- place, pos <- position, source <- waiting

\* Where the variables of a layer stand while another moves.
PartsRest == pc = "new" /\ out = <<>> /\ written = <<>>
RewriteRest ==
  /\ archive = <<>> /\ first = <<>> /\ op = Unused /\ step = [c \in Commands |-> "failed"]
  /\ source = Unused /\ at = Unused /\ inner = Unused /\ staged = Unused /\ matched = Unused
MoreRest ==
  /\ disk = Unused /\ spawned = Unused /\ jobs = Unused /\ sent = Unused /\ todo = Unused
  /\ place = Unused /\ position = Unused /\ held = Unused /\ whole = Unused /\ lost = Unused
  /\ mixed = Unused /\ asked = Unused /\ waiting = Unused /\ next = Unused /\ buffer = Unused
  /\ exhausted = Unused /\ yielded = Unused

LayersInit ==
  \/ layer = "parts" /\ RTInit /\ MoreRest /\ RewriteRest
  \/ layer = "create" /\ C!Init /\ PartsRest /\ RewriteRest
  \/ /\ layer = "rewrite" /\ RewriteInit /\ PartsRest /\ MoreRest /\ R!Idle(<<>>, FALSE)
     /\ ret = Unused /\ max_part_bytes = Unused /\ remaining = Unused /\ parts = Unused
     /\ pending = Unused /\ accepted = Unused
Parts == layer = "parts" /\ RTNext /\ UNCHANGED <<layer, more, wvars>>
Create == layer = "create" /\ C!Next /\ UNCHANGED <<layer, pc, out, written, wvars>>
Rewrite == layer = "rewrite" /\ RewriteNext /\ UNCHANGED <<layer, vars, rvars, more>>
LayersSpec == LayersInit /\ [][Parts \/ Create \/ Rewrite]_allvars
----------------------------------------------------------------------------
\* PartsBounded and PartsInOrder are those of SplitParts.

\* ArchiveReader behind SplitParts: whatever happens to the files, no item but
\* an entry comes out, success means all of them, and a whole archive is read.
OnlyEntriesAreRead == layer = "parts" => ItemsAreEntries
ReadIffWhole == layer = "parts" => OkIsComplete /\ WholeIsRead

\* CreateAppend: what passes for an archive is one that a command has finished,
\* what a command has finished can be read, and append harms no old entry.
WholeIffFinished == layer = "create" => C!OkIsWhole /\ C!SuccessIsReadable
OldEntriesSurvive == layer = "create" => C!OldEntriesSurvive

\* CommitIsTransform and EntriesStay are those of RewriteArchive.
=============================================================================
