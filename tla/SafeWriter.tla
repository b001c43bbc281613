----------------------------- MODULE SafeWriter -----------------------------
(***************************************************************************)
(* SafeWriter of cli/src/command/core/safe_writer.rs, under StagedArchive  *)
(* of staged_archive.rs and the rewriting commands: a new version of a     *)
(* file is written beside it and takes its place at the end.  Several      *)
(* processes do so at once, others touch the destination, any of them may  *)
(* be killed, and the machine may lose power.                              *)
(*                                                                         *)
(* External: the file system.  Its names point to files; a directory       *)
(* operation is atomic at once and durable some time later, in order; data *)
(* is durable after a sync.  Permissions are not modelled.                 *)
(***************************************************************************)
EXTENDS Naturals, FiniteSets

CONSTANTS
  Writers,     \* each writes one version of the destination
  Temps,       \* the random names a temporary file may get
  Old, Other   \* what is at the destination at first, what others put there
ASSUME VersionsAssumption ==
  /\ Old \notin Writers /\ Other \notin Writers \cup {Old}
  /\ {"none", "dir", "tree"} \cap Writers = {} /\ "none" \notin Temps

VARIABLES
  dest,      \* under the destination: "none", "dir", "tree" (with something in
             \* it) or the file of Old, Other or a writer
  temps,     \* the temporary names in use and whose file is under each
  durable,   \* dest and temps as they are after a loss of power
  blackout,  \* power was lost; this happens once at most
  written,   \* how much of each writer's file there is
  synced,    \* writers whose file is durable
  overwrite, \* may the writer replace what is there?
  pc, temp   \* where each writer is, and its temp_path

fsvars == <<dest, temps, durable, blackout, written, synced>>
vars == <<fsvars, overwrite, pc, temp>>

Files == Writers \cup {Old, Other}
Running == {"new", "write", "sync", "prepare", "rename", "link", "unlink", "drop"}
\* "leaked": failed, and the temporary file could not be removed; "dead": killed
PCs == Running \cup {"done", "failed", "leaked", "dead"}

Goto(w, s) == pc' = [pc EXCEPT ![w] = s]
Unnamed(t) == temps' = [temps EXCEPT ![t] = "none"]

-----------------------------------------------------------------------------
(* A writer.                                                               *)

\* SafeWriter::new tries names until it creates one (create_new); the number
\* of tries is bounded.
Free_Any(t) == TRUE   \* mutant: create without create_new
Free(t) == temps[t] = "none"
New(w) ==
  /\ pc[w] = "new"
  /\ \/ \E t \in Temps :
          /\ Free(t)
          /\ temps' = [temps EXCEPT ![t] = w]
          /\ temp' = [temp EXCEPT ![w] = t]
          /\ Goto(w, "write")
     \/ Goto(w, "failed") /\ UNCHANGED <<temps, temp>>
  /\ UNCHANGED <<dest, durable, blackout, written, synced, overwrite>>

\* The command writes its data piece by piece and may fail in the middle.
Write(w) ==
  /\ pc[w] = "write"
  /\ \/ written[w] = "nothing" /\ written' = [written EXCEPT ![w] = "part"] /\ UNCHANGED pc
     \/ written[w] = "part" /\ written' = [written EXCEPT ![w] = "whole"] /\ Goto(w, "sync")
     \/ Goto(w, "drop") /\ UNCHANGED written
  /\ UNCHANGED <<dest, temps, durable, blackout, synced, overwrite, temp>>

\* persist: sync_all comes before the file gets its name.
SyncedAt_Never(w) == synced         \* mutant
SyncedAt(w) == synced \cup {w}
Sync(w) ==
  /\ pc[w] = "sync"
  /\ \/ synced' = SyncedAt(w) /\ Goto(w, IF overwrite[w] THEN "prepare" ELSE "link")
     \/ Goto(w, "drop") /\ UNCHANGED synced
  /\ UNCHANGED <<dest, temps, durable, blackout, written, overwrite, temp>>

\* prepare_destination: an empty directory makes room.
Prepare(w) ==
  /\ pc[w] = "prepare"
  /\ \/ dest = "dir" /\ dest' = "none" /\ Goto(w, "rename")
     \/ dest = "tree" /\ Goto(w, "drop") /\ UNCHANGED dest
     \/ dest \notin {"dir", "tree"} /\ Goto(w, "rename") /\ UNCHANGED dest
  /\ UNCHANGED <<temps, durable, blackout, written, synced, overwrite, temp>>

\* The temporary name is given up only after it has gone.
FailsWith_Taken(w) == [temp EXCEPT ![w] = "none"]   \* mutant
FailsWith(w) == temp
Rename(w) ==
  /\ pc[w] = "rename"
  /\ \/ /\ dest \notin {"dir", "tree"}
        /\ dest' = temps[temp[w]] /\ Unnamed(temp[w])
        /\ temp' = [temp EXCEPT ![w] = "none"] /\ Goto(w, "done")
     \/ temp' = FailsWith(w) /\ Goto(w, "drop") /\ UNCHANGED <<dest, temps>>
  /\ UNCHANGED <<durable, blackout, written, synced, overwrite>>

\* rename_no_overwrite: the link is refused if anything is there.
Refuses_Directories == dest \in {"dir", "tree"}   \* mutant: a rename instead
Refuses == dest # "none"
Link(w) ==
  /\ pc[w] = "link"
  /\ \/ ~Refuses /\ dest' = temps[temp[w]] /\ Goto(w, "unlink")
     \/ Goto(w, "drop") /\ UNCHANGED dest
  /\ UNCHANGED <<temps, durable, blackout, written, synced, overwrite, temp>>

\* The new file is there, but if its other name cannot be removed persist
\* returns an error.
Unlink(w) ==
  /\ pc[w] = "unlink"
  /\ \/ /\ Unnamed(temp[w])
        /\ temp' = [temp EXCEPT ![w] = "none"] /\ Goto(w, "done")
     \/ Goto(w, "drop") /\ UNCHANGED <<temps, temp>>
  /\ UNCHANGED <<dest, durable, blackout, written, synced, overwrite>>

\* Drop without a successful persist; it may fail with a warning.
Drop(w) ==
  /\ pc[w] = "drop"
  /\ \/ temp[w] = "none" /\ Goto(w, "failed") /\ UNCHANGED temps
     \/ temp[w] # "none" /\ Goto(w, "failed") /\ Unnamed(temp[w])
     \/ temp[w] # "none" /\ Goto(w, "leaked") /\ UNCHANGED temps
  /\ UNCHANGED <<dest, durable, blackout, written, synced, overwrite, temp>>

-----------------------------------------------------------------------------
(* The world.                                                              *)

\* A process is killed: nothing is cleaned up.
Kill(w) ==
  /\ pc[w] \in Running
  /\ Goto(w, "dead")
  /\ UNCHANGED <<fsvars, overwrite, temp>>

\* Somebody else puts something in the destination's place, or takes it away.
SomebodyElse ==
  /\ dest' \in {"none", "dir", "tree", Other}
  /\ UNCHANGED <<temps, durable, blackout, written, synced, overwrite, pc, temp>>

Journal ==
  /\ durable' = [dest |-> dest, temps |-> temps]
  /\ UNCHANGED <<dest, temps, blackout, written, synced, overwrite, pc, temp>>

\* All processes die, the names are those that were durable, and of a file
\* that was not synced part may be missing.
PowerLoss ==
  /\ ~blackout /\ blackout' = TRUE
  /\ dest' = durable.dest /\ temps' = durable.temps
  /\ written' = [w \in Writers |->
                   IF w \in synced \/ written[w] = "nothing" THEN written[w] ELSE "part"]
  /\ pc' = [w \in Writers |-> IF pc[w] \in Running \ {"new"} THEN "dead" ELSE pc[w]]
  /\ UNCHANGED <<durable, synced, overwrite, temp>>

Init ==
  /\ dest \in {Old, "none", "dir", "tree"}
  /\ temps = [t \in Temps |-> "none"] /\ durable = [dest |-> dest, temps |-> temps]
  /\ blackout = FALSE
  /\ written = [w \in Writers |-> "nothing"] /\ synced = {}
  /\ overwrite \in [Writers -> BOOLEAN]
  /\ pc = [w \in Writers |-> "new"] /\ temp = [w \in Writers |-> "none"]

Step(w) == \/ New(w) \/ Write(w) \/ Sync(w) \/ Prepare(w) \/ Rename(w)
           \/ Link(w) \/ Unlink(w) \/ Drop(w)
Next == (\E w \in Writers : Step(w) \/ Kill(w)) \/ SomebodyElse \/ Journal \/ PowerLoss
Spec == Init /\ [][Next]_vars

-----------------------------------------------------------------------------
(* Properties                                                              *)

\* Types; and each writer at work has its own temporary file under its
\* temp_path, also when random names collide.
TypeOK ==
  /\ dest \in Files \cup {"none", "dir", "tree"}
  /\ temps \in [Temps -> Writers \cup {"none"}]
  /\ durable \in [dest : Files \cup {"none", "dir", "tree"},
                  temps : [Temps -> Writers \cup {"none"}]]
  /\ written \in [Writers -> {"nothing", "part", "whole"}] /\ synced \subseteq Writers
  /\ overwrite \in [Writers -> BOOLEAN]
  /\ pc \in [Writers -> PCs] /\ temp \in [Writers -> Temps \cup {"none"}]
  /\ blackout \in BOOLEAN
  /\ \A w \in Writers : pc[w] \in Running \ {"new", "drop"} =>
       temp[w] # "none" /\ temps[temp[w]] = w

\* Whoever looks at the destination, at any time and also after a loss of
\* power, finds an old version or a whole new one, never a part of one.
DestinationWhole == dest \in Writers => written[dest] = "whole"

\* Without permission to overwrite a writer replaces nothing, whenever the
\* destination has come into being.
NothingReplaced ==
  [][dest' \in Writers /\ dest' # dest /\ ~overwrite[dest'] /\ blackout' = blackout
       => dest = "none"]_vars

\* A command that has ended leaves no temporary file, unless it was killed or
\* the file system refused to remove it (or power was lost).
TempsRemoved ==
  ~blackout => \A t \in Temps, w \in Writers :
                 temps[t] = w => pc[w] \notin {"done", "failed"}
=============================================================================
