--------------------------- MODULE RewriteArchive ---------------------------
(***************************************************************************)
(* The commands that rewrite an archive entry by entry: chmod, chown, acl, *)
(* xattr, strip, migrate and delete (cli/src/command).                     *)
(* execute_archive_transform reads the archive, passes each entry through  *)
(* the command's transform, writes the outcome to a staged file, checks    *)
(* that every pattern found something, and puts the staged file in the     *)
(* place of the archive.  Several commands may run on one archive.         *)
(*                                                                         *)
(* An archive is a sequence of items: a normal entry, or a solid block of  *)
(* entries that one cipher may protect.  A pattern is the set of the names *)
(* it matches.  What persist does is one action here and SafeWriter        *)
(* elsewhere; the chunks of an entry are those of EntryChunks.  Modelled is *)
(* the rewrite in place; with --output the destination is another path.    *)
(***************************************************************************)
EXTENDS Naturals, FiniteSets, SequencesExt

CONSTANTS
  Commands,   \* the processes
  Archives,   \* the archives they may find
  Ops,        \* the command lines they may be given
  Passwords   \* what these encrypt and decrypt with

\* An entry has a name, an id (which file it was made of), and metadata.
\* Without a cipher, the key of an item is "none".
Ciphers == {"none", "ctr", "cbc", "gcm"}
Keys == Passwords \cup {"none"}
Entry == [name : STRING, id : Nat, meta : Nat]
Items == [solid : BOOLEAN, enc : Ciphers, key : Keys, entries : Seq(Entry)]

\* A normal item is one entry.
IsArchive(a) ==
  /\ a \in Seq(Items)
  /\ \A k \in DOMAIN a : ~a[k].solid => Len(a[k].entries) = 1
  /\ \A j, k \in DOMAIN a : \A x \in DOMAIN a[j].entries, y \in DOMAIN a[k].entries :
       a[j].entries[x].id = a[k].entries[y].id => j = k /\ x = y
CommandLines ==
  [kind : {"set", "delete"}, meta : Nat, named : SUBSET STRING, patterns : Seq(SUBSET STRING),
   exclude : SUBSET STRING, keep_solid : BOOLEAN, password : Keys]
ASSUME RewriteAssumption == (\A a \in Archives : IsArchive(a)) /\ Ops \subseteq CommandLines

Block(enc, key, es) == [solid |-> TRUE, enc |-> enc, key |-> key, entries |-> es]
NormalItem(e) == [solid |-> FALSE, enc |-> "none", key |-> "none", entries |-> <<e>>]

VARIABLES
  archive,   \* what is at the path of the archive
  op,        \* each command's line
  step,      \* where each command is: "open", "item", "block", "commit", and
             \* in the end "done", "failed" or "panicked"
  source,    \* the archive as the command opened it
  at,        \* the item it reads
  inner,     \* the entries still to come of the solid block it reads
  staged,    \* what it has written to the staged file
  matched,   \* the patterns that matched something
  first      \* history: the archive before any command

wvars == <<archive, op, step, source, at, inner, staged, matched, first>>

RewriteInit ==
  /\ archive \in Archives /\ first = archive
  /\ op \in [Commands -> Ops]
  /\ step = [c \in Commands |-> "open"]
  /\ source = [c \in Commands |-> <<>>]
  /\ at = [c \in Commands |-> 1]
  /\ inner = [c \in Commands |-> <<>>]
  /\ staged = [c \in Commands |-> <<>>]
  /\ matched = [c \in Commands |-> {}]

Goto(c, s) == step' = [step EXCEPT ![c] = s]

\* The files are mapped when the command starts.  Another command replaces
\* the archive by a rename, which leaves these bytes alone.
Open(c) ==
  /\ step[c] = "open"
  /\ source' = [source EXCEPT ![c] = archive]
  /\ Goto(c, "item")
  /\ UNCHANGED <<archive, op, at, inner, staged, matched, first>>

----------------------------------------------------------------------------
\* GlobPatterns::matches_any also takes down which patterns have matched.
MatchedBy(o, e) == {k \in DOMAIN o.patterns : e.name \in o.patterns[k]}
\* strip without patterns and migrate select every entry, the restoring forms
\* of acl and xattr those that a dump names; neither has patterns to check.
Selected(o, e) == e.name \in o.named \/ MatchedBy(o, e) # {}

\* The transform of a command: what becomes of an entry, none or one.
Transform_DropsRest(o, e) ==   \* mutant
  IF Selected(o, e) /\ o.kind = "set" THEN <<[e EXCEPT !.meta = o.meta]>> ELSE <<>>
Transform(o, e) ==
  IF ~Selected(o, e) THEN <<e>>
  ELSE IF o.kind = "set" THEN <<[e EXCEPT !.meta = o.meta]>>
  ELSE IF e.name \in o.exclude THEN <<e>> ELSE <<>>

Item(c) == source[c][at[c]]
More(c) == step[c] = "item" /\ at[c] <= Len(source[c])

ReadNormal(c) ==
  /\ More(c) /\ ~Item(c).solid
  /\ LET e == Item(c).entries[1]
     IN /\ staged' = [staged EXCEPT ![c] =
              @ \o [k \in DOMAIN Transform(op[c], e) |->
                      [Item(c) EXCEPT !.entries = <<Transform(op[c], e)[k]>>]]]
        /\ matched' = [matched EXCEPT ![c] = @ \cup MatchedBy(op[c], e)]
  /\ at' = [at EXCEPT ![c] = @ + 1]
  /\ UNCHANGED <<archive, op, step, source, inner, first>>

\* What SolidEntry::entries makes of a block.  A wrong key shows at once in an
\* authenticated stream.  In another one it yields rubbish, which is an error
\* unless it looks like the start of a chunk that the stream is too short for:
\* then the iterator ends (read_next_normal_entry_from_stream).
Decrypted(item, password) ==
  IF item.enc = "none" \/ password = item.key THEN {[ok |-> TRUE, entries |-> item.entries]}
  ELSE {[ok |-> FALSE, entries |-> <<>>]}
       \cup IF password # "none" /\ item.enc = "ctr" THEN {[ok |-> TRUE, entries |-> <<>>]} ELSE {}

\* WriteOptions::build panics when there is a cipher but no password, before
\* the block is read.
Panics(c) == op[c].keep_solid /\ Item(c).enc # "none" /\ op[c].password = "none"

\* TransformStrategyKeepSolid opens a block like the one it reads.
SameProtection_Plain(item, password) == Block("none", "none", <<>>)   \* mutant
SameProtection(item, password) ==
  Block(item.enc, IF item.enc = "none" THEN "none" ELSE password, <<>>)

OpenBlock(c) ==
  /\ More(c) /\ Item(c).solid /\ ~Panics(c)
  /\ \E d \in Decrypted(Item(c), op[c].password) :
       /\ d.ok
       /\ inner' = [inner EXCEPT ![c] = d.entries]
  /\ staged' = [staged EXCEPT ![c] =
       IF op[c].keep_solid THEN Append(@, SameProtection(Item(c), op[c].password)) ELSE @]
  /\ Goto(c, "block")
  /\ UNCHANGED <<archive, op, source, at, matched, first>>

OpenBlockFails(c) ==
  /\ More(c) /\ Item(c).solid /\ ~Panics(c)
  /\ \E d \in Decrypted(Item(c), op[c].password) : ~d.ok
  /\ Goto(c, "failed")
  /\ UNCHANGED <<archive, op, source, at, inner, staged, matched, first>>

OpenBlockPanics(c) ==
  /\ More(c) /\ Item(c).solid /\ Panics(c)
  /\ Goto(c, "panicked")
  /\ UNCHANGED <<archive, op, source, at, inner, staged, matched, first>>

\* One entry of the block, into the open block or as an item of its own.
ReadInner(c) ==
  /\ step[c] = "block" /\ inner[c] # <<>>
  /\ LET e == inner[c][1]
         new == Transform(op[c], e)
         s == staged[c]
     IN /\ staged' = [staged EXCEPT ![c] =
              IF op[c].keep_solid
              THEN [s EXCEPT ![Len(s)].entries = @ \o new]
              ELSE s \o [k \in DOMAIN new |-> NormalItem(new[k])]]
        /\ matched' = [matched EXCEPT ![c] = @ \cup MatchedBy(op[c], e)]
  /\ inner' = [inner EXCEPT ![c] = Tail(@)]
  /\ UNCHANGED <<archive, op, step, source, at, first>>

CloseBlock(c) ==
  /\ step[c] = "block" /\ inner[c] = <<>>
  /\ at' = [at EXCEPT ![c] = @ + 1]
  /\ Goto(c, "item")
  /\ UNCHANGED <<archive, op, source, inner, staged, matched, first>>

\* ensure_all_matched, once the staged archive is finalized and the source
\* closed.  Nothing is committed when a pattern found nothing.
AllMatched_Unchecked(c) == TRUE   \* mutant
AllMatched(c) == matched[c] = DOMAIN op[c].patterns
Check(c) ==
  /\ step[c] = "item" /\ at[c] > Len(source[c])
  /\ Goto(c, IF AllMatched(c) THEN "commit" ELSE "failed")
  /\ UNCHANGED <<archive, op, source, at, inner, staged, matched, first>>

Commit(c) ==
  /\ step[c] = "commit"
  /\ archive' = staged[c]
  /\ Goto(c, "done")
  /\ UNCHANGED <<op, source, at, inner, staged, matched, first>>

\* Any read, write or system call on the way may fail, persist included.
Fails(c) ==
  /\ step[c] \in {"open", "item", "block", "commit"}
  /\ Goto(c, "failed")
  /\ UNCHANGED <<archive, op, source, at, inner, staged, matched, first>>

RewriteNext == \E c \in Commands :
  \/ Open(c) \/ ReadNormal(c) \/ OpenBlock(c) \/ OpenBlockFails(c) \/ OpenBlockPanics(c)
  \/ ReadInner(c) \/ CloseBlock(c) \/ Check(c) \/ Commit(c) \/ Fails(c)

RewriteSpec == RewriteInit /\ [][RewriteNext]_wvars

----------------------------------------------------------------------------
(* Properties                                                              *)

Entries(items) == FlattenSeq([k \in DOMAIN items |-> items[k].entries])
Ids(items) == {e.id : e \in ToSet(Entries(items))}
Garbled(item, o) ==
  item.solid /\ item.enc = "ctr" /\ o.password \notin {"none", item.key}
\* The entries that a command can read, and what is to become of one.
Readable(items, o) ==
  FlattenSeq([k \in DOMAIN items |-> IF Garbled(items[k], o) THEN <<>> ELSE items[k].entries])
Deletes(o, e) == o.kind = "delete" /\ Selected(o, e) /\ e.name \notin o.exclude
Outcome(o, e) ==
  IF Deletes(o, e) THEN <<>>
  ELSE <<[e EXCEPT !.meta = IF o.kind = "set" /\ Selected(o, e) THEN o.meta ELSE @]>>
Outcomes(o, es) == FlattenSeq([k \in DOMAIN es |-> Outcome(o, es[k])])

\* Whatever replaces the archive is what a successful command makes of a whole
\* archive that once was there: each readable entry in its place, changed if
\* selected and else as it was, gone only if deleted; and each pattern of the
\* command names one of them.  A command that fails or panics changes nothing.
CommitStep ==
  archive' # archive =>
    \E c \in Commands :
      LET old == Readable(source[c], op[c])
      IN /\ step[c] # "done" /\ step'[c] = "done"
         /\ Entries(archive') = Outcomes(op[c], old)
         /\ \A k \in DOMAIN op[c].patterns :
              \E e \in ToSet(old) : e.name \in op[c].patterns[k]
CommitIsTransform == [][CommitStep]_wvars

\* No entry of the archive is ever lost but by a delete command that names it;
\* or by a wrong password for a block whose cipher cannot tell.
NothingVanishes ==
  \A e \in ToSet(Entries(first)) :
    \/ e.id \in Ids(archive)
    \/ \E c \in Commands :
         /\ step[c] = "done"
         /\ Deletes(op[c], e) \/ \E k \in DOMAIN source[c] : Garbled(source[c][k], op[c])

\* Content that was encrypted stays so, and under the password it had, as long
\* as no command was told to unpack solid blocks.
StaysEncrypted ==
  (\A c \in Commands : step[c] = "done" => op[c].keep_solid) =>
    \A k \in DOMAIN first : first[k].enc # "none" =>
      \A j \in DOMAIN archive :
        Ids(<<first[k]>>) \cap Ids(<<archive[j]>>) # {} =>
          archive[j].enc = first[k].enc /\ archive[j].key = first[k].key
EntriesStay == NothingVanishes /\ StaysEncrypted

\* "Returns an error if the decryption or decompression reader cannot be
\* initialized, including ... a missing or incorrect password" (the entries of
\* a SolidEntry): the program does not panic.
NoPanic == \A c \in Commands : step[c] # "panicked"
=============================================================================
