# Formal models of Portable-Network-Archive

TLA+ modules about the parts of PNA where an interleaving, a failure in the
middle, a crash or a boundary decides whether an archive can still be read.
They are translated from the Rust sources (`lib/` is libpna, `cli/` the `pna`
command, `pna/` a convenience crate). `PROJECT.json` lists, for the
definitions that model code, the lines they stand for; a shorthand of a line or
two is covered by the definition that uses it.

To check one run: `tlc -config MCArchives.cfg MCArchives`; to check the proofs of
a module: `tlapm EntryLayersProofs.tla`.

## 1. The system

An archive is a signature and a sequence of chunks (length, type, data, CRC):
`AHED`, then entries (`FHED` … `FDAT`* … `FEND`, or solid blocks `SHED` …
`SDAT`* … `SEND` that hold a compressed stream of entries), then `AEND`. An
archive may be cut into parts; each part is framed by its own `AHED` with its
number, and all but the last end in `ANXT AEND`.

| Component | State | Operations | Interacts with |
|---|---|---|---|
| Multipart sink `SplitParts` (`lib/src/archive/split_parts.rs`) | current part, budget left, counter of parts | `new`, `write_chunk` (cuts stream chunks, rolls over), `finalize_archive` | `next_part` callback opens the files; `write_split_archive` of the CLI names them |
| Archive reader (`lib/src/archive/read.rs`, `read/slice.rs`) | chunks of a cut item, `next_archive` flag, part number | next item, next part from another or the same stream | loops of `core.rs` over the parts |
| Entries (`lib/src/entry.rs`, `entry/*`) | none; parse and write chunks | `parse_chunks`, `write_chunks_to`, builders | reader, writer |
| Cipher streams (`lib/src/cipher*`) | block buffers, GCM segment counter | `read`, `write`, finish | entries |
| Compression (`lib/src/compress*`) | library state | `read`, `write` | entries |
| Path locks (`cli/.../core/path_lock.rs`) | per path: next ticket, current ticket, condition variable | `register`, `wait_for_turn`, drop of ticket or guard | extraction |
| Extraction (`cli/src/command/extract.rs`) | entries put off, queue of jobs, result channel, the file system | reader thread, jobs on rayon's FIFO scope | path locks, safe writer, reader |
| Result reordering (`cli/.../core/iter.rs`) | expected index, buffer | `next` | create, append, update |
| Update (`cli/src/command/update.rs`) | files to match, staged archive, jobs, result channel | match entries, spawn jobs, add results | reader, reordering, staged archive |
| Create, append (`create.rs`, `append.rs`) | the archive written in place, jobs | spawn, drain, add entry | reordering, multipart sink |
| Rewrites (`delete`, `strip`, `chmod`, `chown`, `acl`, `xattr`, `migrate`, `sort`, `concat`) | staged archive | transform each entry, commit | reader, staged archive |
| Safe writer, staged archive (`safe_writer.rs`, `staged_archive.rs`) | temporary file and its name | `new`, write, `persist`/`commit`, drop | file system, other processes |
| Collection of files (`core.rs`, `fs/file_id.rs`, `time_filter.rs`) | seen inodes | walk, filter | create, append, update |
| Names and patterns (`core/path.rs`, `re/*`, `utils/globs.rs`, `lib/src/entry/name.rs`) | which patterns matched | edit, match | all commands |
| Read-only commands (`list`, `diff`, `verify`, `chunk`) | none | print | reader |
| Command line (`cli.rs`, `old_style.rs`, `bsdtar.rs`) | none | parse arguments | all commands |

Hard behaviours, in the order of what they cost when they go wrong:

* **Cut points** of the multipart sink: an exact fit, one byte missing, a part
  with room for framing only, a counter at its limit, a write that fails in
  the middle of a roll-over.
* **Incomplete input** of the reader: a part missing, misnamed, joined with
  another or cut short must not pass for a whole archive.
* **Parallel extraction**: jobs for one path in archive order, blocking jobs on
  a bounded pool, failures while others run, directories made by the reader.
* **Publication**: what stands under the destination after a kill, a loss of
  power, a lost race, a failing system call.
* **Rewriting**: what the parser does not know, or a transform skips, is gone
  from the archive; a block is encrypted anew.
* **Update**: files change while they are matched and read, results arrive out
  of order, names occur twice in the archive.
* **Order of file system calls** when an entry is extracted: what is in its way
  goes first, attributes hold back or undo each other, directories come last.
* **Two readings of one thing**: a flag handed on by hand through several
  structs, a pattern that decides at a directory and below it, a name that is
  cleaned, stripped, transformed and cleaned again, a value that is quoted and
  unquoted, a time that is cut, shown and compared.

`PROJECT.json` lists each of these hazards at its line.

## 2. The modules

| Module | Models | Composes |
|---|---|---|
| `SplitParts` | the multipart sink | |
| `ArchiveReader` | reading items across parts | |
| `SplitRoundTrip` | sink, part files on their way, reader | `SplitParts`, `ArchiveReader` |
| `PathLocks` | the ticket locks | |
| `ParallelExtract` | extraction by a reader and workers, one call at a time | `PathLocks` |
| `ReorderByIndex` | the reordering iterator | |
| `ReorderResults` | the iterator fed with any results in any order | `ReorderByIndex` |
| `UpdateArchive` | `pna update` while files change | `ReorderByIndex` |
| `CreateAppend` | `pna create`, `append`, `split`, and the archive read back | `ReorderByIndex`, `ArchiveReader` |
| `RewriteArchive` | the rewriting commands over entries and blocks | |
| `SafeWriter` | writers, other programs, kills, power | |
| `FileCollection`, `SmallFileSystems` | the walk over the operands of create, append and update; three file systems for it | |
| `EntryChunks` | an entry parsed from chunks and written again; the entries of a solid block | |
| `GcmStream`, `CbcStream` | the two encrypting streams that keep a state | |
| `EntryStreams` | options, builders, data and readers of an entry, key cache, renaming | |
| `CommandOptions`, `ArchiveCommands`, `CommandLine` | the flags of all commands and the option records they become; a command line typed flag by flag | `CommandLine` is the two others |
| `FileAttributes` | the attributes of one file through create and extract | `CommandOptions` |
| `DateTimes` | times on the command line | |
| `PathMatch` | bsdtar's patterns | |
| `PathNames` | the editor of entry names and link targets | |
| `Transformers` | `-s` and `--transform` | |
| `ExtractTree` | extraction into a tree, entry by entry: filters, what is in the way, deferred links and directories, `--fast-read` | |
| `ListEntries` | the listing, its filters and formats | |
| `EntryEdits` | what chmod, chown, acl, xattr, strip, migrate and sort make of entries; dumps and their restoration | |
| `VerifyArchive`, `DiffArchive` | the two commands whose exit status is their answer | |
| `MC*`, `SmallArchives` | instances for TLC | |
| `*Proofs` | theorems and proofs about the module named before `Proofs`; `SplitPartsProofs` is about `SplitRoundTrip` too, `StreamProofs` about `GcmStream` and `CbcStream`, `EntryLayersProofs` about `SafeWriter` and `EntryChunks`, `ParallelExtractProofs` about `PathLocks` too | |
| `Induction` | what several proofs use: a least element, induction for sets of numbers, and what `FlattenSeq` makes of a sequence | |

An MC module with layers holds several of these as instances over shared
variables; `layer` says which one moves, so each is checked completely and by
itself.

### SplitParts

State: `max_part_bytes`, `remaining`, `parts` as in the struct, and the part
files `out` with their exact sizes. A chunk is its type and length; `written`
lists the fragments. `pc` says which write comes next, since each of them may
fail and leave nothing, or all but the last byte, behind (`WriteFails`), a flush may
fail after its marker (`FlushFails`), and `next_part` or the framing of a new
part may fail (`OpenFails`). As the documentation of the type demands, a sink
that failed is not used again.

`PutChunk` is the part of `put_chunk` that decides; `WriteValue`, `CutStream`,
`SkipPart`, `StreamRejected` are the turns of `put_stream`; `RollOverflow`,
`RollAnxt`, `RollAend`, `RollOpen` are `roll_over` in the order of its calls.

### ArchiveReader and SplitRoundTrip

A file is a sequence of tokens. One action per match arm of `next_raw_item`;
`NextPart`, `Finish`, `NextArchive` are the loop of
`run_across_archive_readers`. `buf` survives a part boundary as in
`read_header_with_buffer`.

`SplitRoundTrip` writes entries through `SplitParts`, perhaps failing, and then
delivers the files that are there: all of them, only the first ones, one under
the name of another, all joined in one stream, the archive twice in one stream,
or the last one truncated anywhere.

### PathLocks

One action per critical section. `Condvar::wait` is the pair *asleep* (mutex
released) and *woken*; `WakeUp` is the spurious wake-up that the standard
library allows. A ticket that is dropped unused waits in `advance_seq`, so that
drop has sleeping states too.

### ParallelExtract

`EXTENDS PathLocks`: registering, waiting for the turn and dropping the guard
are its actions, taken inside the extraction's. The file system has a node
under each path; every call on it is a step: the look at the path
(`Check`), the removals (`Unlink`), `file_create` (`Create`), the copy
(`Write`), the temporary file, `prepare_destination` and rename of
`--safe-writes`. The reader registers and spawns files, makes directories
itself without a ticket (two looks and a creation, each a step), and puts links
off. The scope ends when every job has; then the channel is read and the links
are extracted.

`OneByOne` is the reference: what the disk holds after the first `i` file
entries were extracted one after the other, a recursive function over the
archive. `Entries`, `Options`, `Nodes` give the inputs their types, so that the
proofs know no more of an archive than that.

External: rayon. Jobs of `spawn_fifo` start first in, first out; a pool thread
that is inside the scope's closure takes jobs only once it waits for the scope.

### ReorderByIndex

The loop of `next()` one turn at a time. `ReorderResults` gives it any sequence of
results with distinct indices, in any order, and may leave indices out.

### UpdateArchive

`EXTENDS ReorderByIndex`. A file's content is the time of its last change, so
content and recorded time can be compared. Times are ticks, some to a second;
`IsOlder` is `cmp_at_stored_precision`, which goes by the second when the stored
time has no fraction, `IsNewer` adds the policy of `--missing-time`, and `Stored` is
what `--keep-timestamp`, `--mtime` and `--clamp-mtime` make of the file's time.
`Start` collects the files with
their metadata, `ReadEntry` is the closure that meets each archive entry,
`EndOfEntries` spawns what no entry matched, `ReadContent` and `Send` are a job
(content first, then the metadata collected at the start), `Join` is the end of
the scope, `Add` adds what the iterator yields, `Commit` replaces the archive.
`Change` lets files change between any two steps. Commands follow one another,
so archives with several entries of one name arise as they do in practice.

### CreateAppend

`EXTENDS ReorderByIndex` and instantiates `ArchiveReader`. `Start` and `Begin`
are the command up to the jobs: create's check that the archive does not exist,
append's search for its end (`Scanned` is one turn of the loop of
`open_archive_then_seek_to_end`, or of `open_multipart_for_append`). `Spawn`,
`CreateEntry`, `ScopeEnds` are `spawn_entry_results`, `Iterate`, `TakeResult`,
`AddEntry` are `drain_entry_results`, `WriteChunk` and `RollOver` the writer,
`Finalize` and `Close` the end, with the rename of a single part. What a
`BufWriter` holds back may be missing on the disk after a failure or a kill,
and after create's success, since its last flush is not looked at (`lost`).
append writes to the file itself, over what is there: `Written`. When nothing
runs any more, `Read` hands the files to the reader.

### FileCollection

`fs` is a file system that does not change: objects with kind, device, times,
number of links, and the names below a directory. walkdir is external:
`Upcoming` is its next entry, any name of the directory listed last; `Pushes`
says when it opens a directory, which happens before the loop sees it, and
`SkipCurrentDir` is `skip_current_dir`, which gives up the listing opened last.
`Prune`, `Store`, `StoreBroken` and `Fail` are what a turn of the loop of
`collect_items_with_state` comes to; `seen` is the `HardlinkResolver`, which all
operands share, `ig` the `Ignore`, which each has anew. `Incomplete` is
`incomplete_links`, and `Entries` what `create_entry` makes of the items with
`--strip-components`. Patterns are the sets of paths they match. What a file
is, and under which paths it is met, is the same for create, append and update;
what they do with the items is in `CreateAppend` and `UpdateArchive`.

### EntryChunks

A chunk is its type and its decoded body. `Collect` is one turn of the loop of
`parse_chunks`, of both kinds of entry, and `CollectAll` the loop; `FillFromLegacy`
and `TimeOf` are what follows the loop; `WriteEntry` is `write_chunks_to`. A time is
a whole number of nanoseconds, of which a second has two, and whole seconds are cut
towards zero as the `time` crate cuts them. `PutChunk` writes any stream;
`TakeChunk` and `EndOfStream` are the iterator over what a solid block holds.

### GcmStream

`WriteTurn` is one turn of the loop of `write`, `Flush` is `flush_segment`,
`FinishStream` `finish`. `Deliver` is what may happen to the bytes: all arrive,
or a stretch is missing, a segment doubled or exchanged with the next, a byte
changed or added; a writer that failed has left any first part. On the other
side `ReadBuffered`, `ReadEnd` and `ReadRefill` are `read` up to `refill`,
`FillSegment` one read of the source, `SourceFails` its error, `TakeSegment` the
byte read ahead and the rest of `refill`. A sealed byte is the nonce, the data
it was sealed with and its place, so the cipher opens what was sealed together
and nothing else. A writer that failed is not used again, as by its callers.

### CbcStream

`PutBytes` is `write`, `FinishBlocks` the padding. `BeginRead` is `read` before
its loop, `ReadTurn` one turn of it, with the block held back, the batch, the
padding and what is kept for the next call. The chain opens a block right only
in its turn. The stream may arrive cut short at any byte; a block of data that
then looks like the last may or may not end like padding.

### RewriteArchive

`Open`, `ReadNormal`, `OpenBlock`, `ReadInner`, `CloseBlock`, `Check` and
`Commit` are `execute_archive_transform` from the mapping of the files to the
rename, with `TransformStrategyUnSolid` and `KeepSolid` told apart by
`keep_solid`; every step may fail (`Fails`). `Transform` is the command: it
changes, keeps or drops an entry. `Decrypted` is what a password makes of a
block: authenticated ciphers refuse a wrong one, CTR yields rubbish, which is
an error or reads as empty. Two commands may run at a time; the one that
started first keeps reading the file that the other replaces.

### SafeWriter

A destination, temporary names, and what of both would survive a loss of
power: directory operations become durable in order at some later time
(`Journal`), data once synced. `New`, `Write`, `Sync`, `Prepare`, `Rename`,
`Link`, `Unlink`, `Drop` are the calls of `new`, `write`, `persist`,
`rename_no_overwrite` and `Drop`, each of which may fail; `Kill`,
`SomebodyElse` and `PowerLoss` may happen between any two of them.

### EntryStreams

A byte that a library puts out is the byte that went in together with what it takes
to get it back: key, nonce, header, method. `builder` and `options` are
`WriteOptionsBuilder` and `WriteOptions`, with the panics of `build`; `work` is an
entry builder or a streaming writer; `SetOption`, `Build`, `Write`, `Finish`,
`try_with_name` and `Reopen` are the calls a program may make, in any order.
`ReadEntry` is a reader with a password and its cache of derived keys, whose
capacity is a constant.

### CommandOptions, ArchiveCommands, CommandLine

`Arguments` and `ArchiveArguments` give for each command the flags of its struct,
its groups and requirements; `Options` and `ArchiveOptions` are the bodies of
`create_archive`, `run_create_archive` (bsdtar) and the others up to the records
they fill. `Type` adds a flag, with the overrides that clap applies, and
`Submit` runs the command. A flag with a value has one value.

### FileAttributes

`Made` and `Used` are the option records of create and extract, computed from
`CommandOptions` for every accepted family of flags. `step` goes through
`restore_timestamps` and `restore_metadata` call by call: times, owner, mode,
extended attributes, ACL, flags; the host may not know a name, cut an id, clear the
set-id bit or refuse.

### DateTimes, PathMatch, PathNames, Transformers

Algorithms over bounded inputs, a step each: parse, convert and show a time;
match a pattern as inclusion, exclusion and exactly; edit a name, store it and
edit it again on extraction; parse one or two rules and apply them. Characters
are there because these conversions are what the properties are about. Regular
expressions are abstract. The recursion is that of the code.

External: `parse_datetime`, which gets a text that is neither seconds nor an
RFC 3339 time. Its grammar is not in the repository and shows no form for a region in
brackets, which is how a time with a zone is displayed; so `Parse` may read such a
text or refuse it, and the properties hold either way.

### ExtractTree

A disk is inodes under paths of two levels, with modes that hold back an
ordinary user and links that calls follow or not. `ReadEntry` is one turn of the
loop of `run_extract_archive_reader` with everything it calls, in the order of
the code: filters, the security skips, `prepare_destination`,
`ensure_directory_components`, creation, attributes; `ExtractLink` and
`RestoreDirectories` are what follows the loop.

### ListEntries

`ReadItem` is a turn of the loop of `run_list_archive`, with and without
`--fast-read`, over entries and solid blocks; `Finish` is `print_formatted_entries`
with all formats, of which is kept what each shows of a row, not how wide.

### EntryEdits

`archive` is the entries, their ACL chunks in order and the bytes of attribute
names and values, because dumps quote them. One action per command, each a
function on entries: `Chmod`, `Chown`, `SetAcl`, `SetXattr`, `Strip`, `Migrate`,
`Sort`. `GetAcl` and `GetXattr` write a dump, `Restore` reads it into the archive as
it is then, after edits in between.

### VerifyArchive and DiffArchive

`Entry`, `Damaged`, `NextPart`, `End` and `BreaksOff` are what one call of
`next_raw_item` may come to and what the closure of `verify_archive` makes of
it. `Compare` is `compare_entry` with everything below it; `Finish` the choice of
the exit status. Without authentication a wrong password may decode to
anything, also to an empty block.

## 3. What is checked

| Run | Bounds | Shows |
|---|---|---|
| `archives` (`MCArchives`) | *parts*: part sizes 63 (refused), 64 (room for an empty chunk), 65, 70, 79; chunks of 0, 3, 15, 16 bytes, up to five; counter up to 5. *create*: eight kinds of earlier archive, each command, up to three items, of which one may fail. *rewrite*: two commands out of nineteen command lines on three archives | every branch of the sink, exact fits, every failure, the counter running full, and every delivery of what is left; every failure and kill of create, append and split, then reading; every password, strategy, failure and interleaving of rewrites |
| `concurrency` (`MCConcurrency`) | three files on two paths with all strategies, two workers, or one on or off the reader's thread; files, a directory and a link with two workers; three tickets on two paths; up to five results with indices 0, 1, 2, 4, 5 | every interleaving, call by call; three waiters on one path; every order of arrival and gap |
| `entry_layers` (`MCEntryLayers`) | three file systems of seven or eight objects with 44, 40 and 16 sets of options; streams of up to five of fourteen chunks; seven bytes in segments of two, a counter up to 2; thirteen bytes in blocks of three, batches of two; two writers, two temporary names | every order of the walk over links, loops, mounts, ignore rules and overlapping operands; every order of chunks, legacy, foreign and invalid ones; every damage to four segments; every pattern of writes and reads; every race of two writers |
| `update` (`UpdateArchive`) | two names, four instants, three to a second; times not stored (and taken for the epoch), given or clamped; two updates or more | every change before, between and during them, within a second and across one |
| `commands` (`MCCommandLayers`) | twelve layers, below | |

The layers of `commands`:

| Layer | Bounds |
|---|---|
| options | every flag of every command alone, and up to four flags of each of six families |
| attributes | the option records of every accepted combination of owner and time flags; five files, five entries of other programs; two hosts that share some accounts |
| times | two ticks to a second; every text around the epoch and the limits |
| patterns | all patterns of up to three of thirteen characters, names of one and two characters and seven awkward ones |
| names | up to four of nine pieces: `..`, `.`, slashes, a drive, `\\?\` and `UNC\` among them |
| transforms | two rules of five expressions, four replacements, seven sets of flags |
| tree | archives of up to two of nine entries, or three of six, over four disks, under 64 sets of options |
| streams | two passwords, every method, chunk sizes 2 and 9, three bytes, a cache of one key |
| listing | up to three of five entries, solid blocks that open or do not, all formats |
| edits | three entries, one with an empty owner's name; five lists of attributes, four of ACL chunks; one edit, then a dump, an edit and its restoration |
| verify | nine chunks in one part or eleven in two, of which any may be damaged; two entries or blocks out of every kind of decoding, three passwords |
| diff | one of seven entries, or two of three, with 26 states of three paths and seven choices of fields, on Unix and elsewhere |

The other runs are the counterexamples below.

The properties are stated and commented in the modules. The central ones:

* `PartsBounded`, `PartsInOrder`: the parts are within their size and hold the
  chunks in order; the framing closes each part; rolling over makes progress.
* `OnlyEntriesAreRead`, `ReadIffWhole`: whatever is delivered, an item that comes
  out is one of the entries, byte for byte; success means all of them; and a
  whole archive is read without an error.
* `MutualExclusion`, `RegistrationOrder`, `TicketsPass`, `AllInOrder`: one guard per
  path, in order; results in the order of their indices.
* `SameAsSequential`: a path that only files go to ends as it does when they are
  extracted one by one in archive order (`OneByOne`); `NothingHalfWritten`,
  `ExtractTerminates`. `NewestStays`: under `--keep-newer-files` such a path ends
  with the newest of its entries; one without a time goes over whatever is there
  and counts as just made. It says nothing of a path that a directory
  entry goes to as well: directories are made without a ticket, and TLC finds
  that an older file may then be the one that stays.
* `CollectsExactly`, `LinksHandled`: what is collected is what the operands select
  by a definition without the walk; a hard link entry names an earlier entry
  with its file's data; `--check-links` warns exactly when a link is missing, as
  long as nothing is met twice.
* `UpToDate`: after an update the last entry of each file that was asked for and
  left alone has the file's content, unless an entry is `Spared`: its stored time is
  a whole second and the change came within it, or it was given a later time with
  `--mtime`, or it has none and `--missing-time` takes it for new enough. And no
  entry claims a time later than its content, except at the wish of `--mtime`.
  `PrunesWhatIsGone`: `--sync` leaves no entry of a file that is gone; the entries
  an update does not concern stay as they are and in their order; without `--sync`
  it only adds, in the order of the files. `CommandEnds`.
* `WholeIffFinished`, `OldEntriesSurvive`: what reads without an error is
  complete; success can be read; append harms nothing.
* `RewriteKeeps`: parsing what was written gives the entry back, from whatever
  chunks it was first read, in any order; a solid block ends at an entry.
* `ReadsTheOriginal`: what a decrypting reader hands out is the beginning of
  what was encrypted, and all of it when it says so, whatever happened to
  authenticated segments, or when CBC blocks arrive whole; what arrives intact
  is read to its end.
* `CommitIsTransform`, `EntriesStay`: what replaces an archive is one command's
  transform of all its entries.
* `DestinationWhole`, `NothingReplaced`, `TempsRemoved`.
* `FlagsAct`: every accepted flag changes what the command runs with, unless it
  restates a default, and commands that share a flag make the same of it, but for
  two that make a file's name mean another file in `tar` update (below).
* `AttributesReturn`, `NothingUnasked`: attributes come back as far as both
  commands were asked to keep them; a step of the restoration changes nothing
  that was not asked for.
* `TimesKept`, `PatternsCover`, `NamesSafe`, `PlacedTextStays`: an instant survives
  parsing and display, and what is displayed is read back as it was, save that a
  text with a region in brackets may be refused; a pattern that matches a path
  covers what is below it; no name leads out of the directory, is another when
  stored and read again, or parts a hard link from its target; replaced text is not
  replaced again.
* `AsArchived`, `ExistingStays`, `FastReadFindsAll`: after a successful extraction,
  over directories only, of an archive in which no name is a directory's and
  something else's (`Plain`), the entry of a path that is extracted last
  (`LastOfName`) is what is there, with its content or target; with its time, if it
  is asked for, whatever its kind; and with its mode unless it is a symbolic link,
  which has none. A hard link is the file that it names, and a file that hard links
  are made to later has the time and mode of one of their entries (`LinkedLater`).
  What the strategy protects stays; fast read finds what a full pass would.
* `EntriesReadBack`: an entry, however built, reopened or renamed, reads back for
  those who have its password and for nobody else.
* `ListingTrue`: a listing has a row for exactly what was asked, and each format
  shows what the rows say.
* `EditsTrue`: a command changes the entries and the facets it is about; a dump
  restored after other edits brings back what it was made of; access rules grant
  no more and no less after conversion to another platform's than the coarser of
  the two can say.
* `ChecksTell`: verify succeeds only over whole entries (or, as its help says,
  those it had to skip), and damage of one entry hides no other; diff answers 0,
  1 or 2 as the files agree, differ or cannot be compared.

**Why the bounds are enough.** Sizes: the decisions of the sink compare a
chunk's size with the rest and the budget; the chosen lengths lie on, just
under and just over each threshold, and two roll-overs within one chunk happen.
Locks and jobs: what can go wrong between jobs of one path needs two of them
and a third that is woken or overtaken; a blocked pool needs as many waiting
jobs as workers. Update: a stale match needs a change before and a change
during one command, after an earlier command has left an entry. Safe writer:
every conflict is between two writers, or a writer and one other program. Flags:
what one flag does to another is written down in pairs (conflicts, requirements,
overrides), so that four flags of one family meet every such pair. Trees: what
is in an entry's way is the path itself, its parent, or a link for either, and
three entries are a directory, something in it and something that replaces one
of the two. Verification: an entry is damaged at its head, in the middle or at
its end, beside a good one on each side.

**Fairness.** `PathLocks` assumes that a thread that holds a ticket goes on to
use or drop it when it can: threads run, and a job's closure always does one or
the other. Spurious wake-ups get no fairness. `ParallelExtract` assumes weak
fairness of the reader and of each pool thread: the operating system schedules
threads. A reading error need never happen. `UpdateArchive` assumes that a
command that was started goes on with *some* step of it; changes of files need
not happen. `ReorderByIndex` is a loop
that its caller drives to the end. The other models state no
liveness.

**Disagreements between code and documentation** (runs that are expected to
find a violation):

1. `LastEntryWins` (`MCLastEntryWins`): a link entry that a file entry of the
   same path follows is extracted last, because links are put off
   (`extract.rs:775`); `overwrite_order.rs:8` says the last entry wins.
2. `CreatedIsComplete` (`MCCreateUnflushed`): create drops its `BufWriter` after
   `finalize`, which does not flush; when the disk is full, it succeeds and
   leaves a truncated archive.
3. `SplitKeepsFiles` (`MCSplitReplaces`): without `--overwrite`, `split` replaces
   an existing archive when a single part is enough, by the rename at
   `core.rs:1844`.
4. `NoPanic` (`MCRewritePanics`): without a password, a rewriting command panics
   at an encrypted solid block that it is to keep, since `WriteOptions::build`
   is called before the block is read; the documentation of `entries`
   (`entry.rs:586`) and the other strategy have an error there.
5. `WarnsOfMissingLinks` (`MCCheckLinks`): the resolver counts how often a file is
   met; with `--follow-links`, or operands that overlap, the same link is counted
   twice and stands in for a missing one, and `--check-links` stays silent.
6. `NoRecursiveHolds` (`MCNoRecursive`): `tar -r -n` walks into directories.
7. `OverwritesOnlyIfAllowed` (`MCNoOverwrite`): without `--overwrite`, a file that
   stands where a parent directory has to be is removed.

Further ones were met in the same models. They have definitions of their own or
are excepted where a property says so, and no run:

* `InstantIsText` (`DateTimes`; `datetime.rs:36`, `:87` against the comment at `:28`):
  a time before the epoch with a fraction is a second off. A civil time with a
  space and an offset behind it loses the offset.
* `FirstMatchesOnly` (`ExtractTree`; `extract.rs:1113`, `cli-reference.md:1523`):
  fast read takes later matches of a pattern too, until all are satisfied.
* `FilesKeepTheirModes`: the mode of a directory entry is put off and may be
  applied to a file that took the path. `SkippedTouchesNothing`: an unsafe link
  is skipped only after what stood there was removed. `--unlink` removes a file
  behind a symbolic link before the link (`extract.rs:1238`, `:1243`).
* `NumericOwnerRestores`: an entry with a name only and `--numeric-owner`.
  `chown --numeric-owner` says "no name resolution", and without it the id is
  looked up (`chown.rs:181`).
* `NumberedLikeGlobal` (`Transformers`): a numbered GNU rule puts `$0` in literally.
* Deflate reads a negative level as 9 (`compress/deflate.rs:97`), zstd cuts a level
  to 32 bits (`zstandard.rs:50`), and the reopened lowest deflate level becomes
  zstd's default.
* Chunk order decides in ACL dumps: entries of one name have their lists merged;
  a list that is empty cannot be restored; a name with `=` or a line end comes
  back as another. Names of entries with a line end are not in the run's bounds;
  neither are the rights to delete children and to change owners, which only
  some platforms have, among those that `RightsSurvive` compares.

Limits that the properties except, since no document promises otherwise:

* `FlagsAct` (`ThanFlags`): create, append and extract look up the files of
  `--newer-mtime-than` and its like before they change to the directory of `-C`, `tar`
  update after it (`bsdtar.rs:1504`). No text says which is meant; each command is
  modelled as it is, and the property excepts update with both flags.
* `VerifyTells`: damaged entries beside each other are one failure, as the
  comment at `verify.rs:68` says; a failure inside a solid block leaves the rest
  of the block uncounted; a wrong password over a CBC or CTR block may see it
  empty and be content (`Decoded`).
* `DiffTells`: a hard link is compared by opening both files, and ends the command
  with 2 when one cannot be opened; size, content, symlink and hardlink asked for
  other kinds of entry are silently not compared; a hard link whose target is gone
  is reported as missing itself; a file where a directory should be ends the command
  with 2.
* `AsArchived`: under `--keep-newer-files` and its like, a directory entry behind
  its children may be skipped or refused; a hard link entry to its own path
  destroys the file.
* `EditsKeepTheRest`: an owner's name that is empty may become none, by `chmod` too;
  a numeric mode clears the special bits; strip always drops
  the kind of a link's target; sort rewrites blocks as single entries; an ACL
  that cannot be parsed is dropped by `acl set`.

* `WholeIffFinished` (`mixed`): when `--overwrite` of parts stops half way, new first
  parts and old later ones may read as one archive, since only their numbers
  tie parts together.
* `EntriesStay` (`Garbled`): a wrong password for a CTR block may make it
  read as empty, and the rewrite then commits an empty block.
* `UpToDate` speaks of the last entry of a name only: update compares a file
  with the first one, so that an unchanged file is added again by every later
  update; for the same reason `--sync` replaces only the first of two entries.
  A file changed within the whole second that its entry stores is not updated,
  as the tests at `update.rs:793` ask; nor is one whose entry `--mtime` has dated
  later. Policies of `--missing-time` other than an assumed time, and keeping the
  time as it is, are in the model and in the theorems, but not in the run: up to
  the clamp's limit, `--clamp-mtime` keeps the time as it is.
* `CollectsExactly` (`MountLeftOut`): under `--one-file-system`, leaving out a
  directory of another file system gives up the rest of the directory around it.
* `CollectsExactly`, `LinksHandled` (`TimesOfLinks`): under `--follow-links`, a hard
  link that was met through a symbolic link is filtered by the times of the
  latter, and may be stored when its first path is not. A link that cannot be
  followed is collected whatever the patterns say; the properties say so.
* `Entries`: when `--strip-components` leaves nothing of the first path of a file,
  its later links are skipped too, and its data is not archived.
* `RewriteKeeps`: a stream that is torn inside the first chunk of an entry
  reads as if it ended there.

Not checked, since no caller sends duplicates: of two items with one index both
are yielded when it is the expected one (`iter.rs:90`), whereas the comment at
`iter.rs:17` says the earlier is overwritten.

## 4. What is proved

| Module | Theorem | For every |
|---|---|---|
| `SplitPartsProofs` | `TypeCorrect`, `PartsStayBounded`, `PartsKeepOrder` | set of part sizes and chunks, number of chunks, size of the counter |
| `SplitPartsProofs` (of `SplitRoundTrip`) | `ReadsFirstEntries`, `ReadsWholeArchives` | the same, failure of the writer, and delivery of the part files |
| `ParallelExtractProofs` (of `PathLocks`) | `LockTypes`, `GuardsExclude`, `GuardsInOrder` | set of jobs and of paths |
| `ParallelExtractProofs` | `ExtractsInOrder`, `ExtractsWhole`, `KeepsTheNewest` | archive of files, directories and links, set of options, disk, pool of threads |
| `ReorderResultsProofs` | `ResultsInOrder` | sequence of results, set of indices with or without gaps, order of arrival |
| `EntryLayersProofs` (of `SafeWriter`) | `WriterTypes`, `AlwaysWhole`, `NoTempsLeft`, `NeverReplaced` | set of writers, of temporary names and of versions |
| `EntryLayersProofs` (of `EntryChunks`) | `EntriesReturn`, `RewritesKeep` | set of chunks, stream of any length, nanoseconds in a second |
| `UpdateArchiveProofs` | `UpdatesAreUpToDate`, `UpdatesKeepTheRest` | set of files, archive, option, way of storing and of comparing times, ticks in a second, order of the jobs, change of files meanwhile, number of commands |
| `RewriteArchiveProofs` | `RewritesKeepEntries`, `RewritesAreTransforms` | set of archives, of command lines and of passwords, number of commands at work on one archive |
| `StreamProofs` | `SegmentsReadBack`, `BlocksReturned`, `OriginalsRead` | size of segment, tag, block and batch, length of the data, sizes of writes and reads, size of the counter |

The assumptions on constants are the `ASSUME`s of the modules and nothing else:
`MaxPartBytesAssumption`, `InputsAssumption`, `U32MaxAssumption`,
`MaxChunksAssumption` (`SplitParts`), `PathsAssumption` (there is a path),
`JobsAssumption` and `InputsAssumption` (`ParallelExtract`: jobs are positive
numbers, inputs have their types, and what is on the disk before is whole),
`VersionsAssumption` (`SafeWriter`: versions and names differ), `NamesAssumption` and
`OptionsAssumption` and `TimesAssumption` (`UpdateArchive`: files are numbered, options
have their types, a second has ticks and times given are none of them 0),
`RewriteAssumption` (archives and command lines have their types, a normal item is
one entry, and no two entries are of one file),
`NanosAssumption` and `AlphabetAssumption` (`EntryChunks`: a second has more than one
nanosecond, and a chunk of seconds that can be decoded holds an integer),
`GcmAssumption` and
`CbcAssumption` (sizes are positive). TLC evaluates them in the runs.

**SplitParts.** `PartsBounded` alone is not inductive: a write is safe only
because `remaining` is what is left of the budget. `BudgetInv` says so: while a
part is open, its size plus `remaining` is the header plus the budget, so that
two markers always fit; after `ANXT` one does; a chunk about to be written
whole has been compared with `remaining`, or with the budget when a fresh part
is about to be opened. `SizeInv` is its conjunction with the types and the
bound. From it also follows that `remaining` never goes below zero.
`OrderInv`, inductive relative to `SizeInv`, gives `PartsInOrder`: `PendingInv` says
where in the chunk at work the pending data begins, namely behind the last
fragment written; `FragmentsInv` that each fragment continues the one before it
or begins the next chunk; `PartsInv` that the parts left are numbered, chained
and not empty. The last needs that a part is left only once it holds a
fragment, for which the budget has to be compared with what is left.

**SplitRoundTrip.** `RTInv` is about the sink, the files and the reader, and the
theorems are about the composition that the run checks. `SinkInv` adds to the above
that only a complete archive gets its closing marker (`ClosedInv`) and that no
fragment goes beyond its chunk (`WithinInv`). `Delivered` says what a file is when it
is read: the start of its part, or all of another one, unless all parts are in
one stream, perhaps twice. The reader then `Stands` in one part, behind so many
of its tokens, and what is left of its stream is the rest of that part and, in
one stream, what is behind it. What it has `Got` is the fragments up to there, in
order: those up to the end of some entry have become items, and those behind it,
none of which ends an entry, are in `buf`, across a part boundary too. A part
under a wrong name is refused because the numbers of parts are their places
(`OrderInv`); a part that is missing or cut short, because the reader goes on to
another part after `ANXT` only, and ends after a closing marker only, which by
`ClosedInv` there is none of unless the archive is complete. What was got is a
sequence of fragments and what the theorem speaks of is entries: that the first
fragments hold exactly the first chunks, whenever the last of them ends its
chunk, is an induction over the fragments (`ContentPrefix`, `ContentClosed`). TLC had
checked `RTInv` before it was proved.

**PathLocks.** The inductive invariant `TicketInv` adds to the types: two
registered jobs of one path have different tickets, each lower than `next_seq`;
a job is through (`gone`) exactly when `current_seq` has passed its ticket; a
guard is held only at `current_seq`. Exclusion and order follow.

**ParallelExtract.** `ExtractInv` has, beside the types, eight parts. `TicketInv` is
the one of the locks, whose actions are taken inside those of the extraction.
`RegisteredInv`: the jobs registered are the file entries read, and tickets of one
path follow archive order. `PlaceInv`: a job that is not through waits in the queue
or runs, in one place only. `ReaderInv`: where the reader is says what it has read.
From these, a job that works on a path is behind all earlier jobs of it and before
all later ones. So `StageInv` can say, for each of the steps of a job, what its path
holds then: what `OneByOne` had left there, changed as far as the job has come.
`RestInv` says that a path nobody works on holds what `OneByOne` gives after the
jobs that are through, and `ReportInv` that what has been reported tells which of
them went well; `WholeInv` that nothing half-written is left but under a job at
work. `SameAsSequential` is `RestInv` at the end. `ThroughUpTo` bridges the gap
between "through" and a position in the archive: the entries in between go to other
paths, and `OneByOne` leaves the path alone over them, by induction.
`KeepsTheNewest` needs a second induction: the time of what `OneByOne` leaves goes
back under that option only at an entry without a time, behind which one starts
anew (`CoveredBy`). TLC had checked `ExtractInv` on an instance of 209 000
states before it was proved.

**ReorderResults.** `OrderInv` says that each result taken from the channel is
yielded or kept, that what is kept has an index not below the one expected, and
that until the channel is empty everything below the expected index has been
yielded. The last is what a gap would break in the middle: only when the
channel is empty may the iterator go on with the lowest index it keeps.

**SafeWriter.** `Inv` adds that a writer at work owns its temporary file, that
it publishes only what is whole and synced, and that whatever writer's file
stands under the destination, or would after a loss of power, is whole and
synced. This is where the order of `sync_all` before the rename is needed.
`NamesInv` says that, as long as the power has not failed, every temporary name
belongs to a writer at work; `PermittedInv` that only a writer that may
overwrite ever reaches the rename, the others using a hard link.

**EntryChunks.** Nearly all of it is about operators, for chunks in any order and
number. What the parser has collected is followed through the chunks that
`WriteEntry` puts down: `Takes` says from which state of the loop to which a
stretch of chunks goes, and such stretches compose (`TakesBoth`); each kind of
field has its lemma, those with any number of chunks by induction over the
sequence. What has been stored at the end are the fields `Singles`; that they give
back the facets and the times (`StoredReturns`) needs that the nanoseconds written
are never negative, which `ToSecondsNanos` sees to before 1970 (`TimesReturn`), and
that an old `fPRM` has become chunks of its own. So `EntriesReturn`: what parses is
the same entry when it is written and parsed again. For the order of chunks,
`Alike` states differ in the order of foreign chunks only: two chunks of
different types that are no end lead to such states from one (`ChunksCommute`),
and each further chunk keeps them so (`AlikeKept`). The iterator has the one
invariant that goes over steps, `Iterating`: it has handed out as many entries as
it has met ends, and is between entries exactly behind one. `RewritesKeep` puts
the three together for the run's composition.

**UpdateArchive.** `UpdateInv` follows each file asked for: as long as it is left
alone, it is a target, or a job has it, or the job's result is on its way
through channel and iterator, or an entry with its content is staged
(`ProgressInv`). A file has one job and a job one index (`PlacesDiffer`: indices are
the places of the files, an argument about cardinalities), so that no result
replaces another in the iterator (`Separate`), and none is lost (`ReorderEffect`).
That the last entry of the name is the one with this content needs the order of
entries: the contents of one name never go back (`Ordered`), since what a job
reads is as new as all that the archive has (`Timely`, `Above`). The recorded time is
that of the collection, before the content is read: `asked[n] <= content`, and
what is stored of it is no later but for `--mtime` (`Honest`). A file that was matched
and not updated either has its content in the archive or an entry that is
`Spared`: the comparison goes wrong only within a whole second, because seconds
grow with times (`SecondsGrow`), and what spares it spares it as long as the file is
left alone (`SameSpared`).
`KeepInv` adds that what is staged and not concerned corresponds, in order, to
what was read and is not concerned (`RestInv`). What is concerned grows when files
change, so the correspondence is restricted at each change. `InTime` says that no
result waits for an index that has passed, which gives the order of what is
added. TLC finds both invariants to hold on an instance with 1 170 000 states.

**RewriteArchive.** `RewriteInv` has, beside the types, four parts. `WorkInv`
follows each command by itself: there is a sequence of entries it has `seen`
which, with those left of its block, are the readable entries of the items
begun; the staged file holds exactly their outcomes, and `matched` exactly the
patterns that name one of them. So at the commit the staged file is the
transform of all that could be read (`AllRead`), which is `CommitIsTransform`.
`KnownInv`: every entry that is in the archive, or in one that a command has
opened and not finished with, was made of the file of an entry of the first
archive and has its name; hence what one command deletes after another has
rewritten the archive is still named by it. `StayInv`: each entry of the first
archive is lost to a finished command, or is in the archive and also in every
archive that a command at work has opened. The last part is why two commands at
a time are no danger: the one that commits last has opened an archive that held
the entry. `AlikeInv` says the same of ciphers and passwords, and needs that a
block that is kept is opened with the cipher of the one read, whose password
must have been right if anything came out of it. An entry passes at most once
through `Transform` in each command, which the lemmas on `Writes` say for items of
their own and for the open block. TLC had checked `RewriteInv` on 164 000 states.

**GcmStream.** `GcmInv`. On the writer's side (`WriterInv`) what is sealed so far is
the data in segments, each under the number of its place; every byte of it is
`Genuine`: made of the data from its segment's beginning on, and, when its nonce
says final, only after the data was complete. `WireInv`: whatever happens on the
way, the bytes that arrive are genuine or damaged, so nothing opens but what the
writer sealed. `HandedInv`: what the reader has opened is the data up to the
segment of its counter, or all of it once a final segment opened; here it
matters that the counter is part of the nonce, and that the final flag is.
`AlignedInv`: in a stream that was complete and arrived whole, what is read but
not opened stands where the segment of the counter begins, so that the last
segment is told by the byte that does not follow and no segment is refused.

**CbcStream.** `CbcInv`. `WrittenInv`: the blocks are the data in order, and the last
holds at least one byte of padding, so that no block but the last ends like
padding as long as the stream is whole. `ReadBytes`: what was handed out, what
lies in the caller's buffer and what is left for the next call follow one
another without a gap, and the rest is less than a block. `ReadPlace`: before
the end they reach exactly as far as the chain has opened blocks, the block held
back is the next, and the source has been read up to its end. A turn opens
whole blocks, so the flattened result is again a stretch of the data
(`FlattenChain`, by induction over the blocks). A stream cut short may lose data
but gives no byte that is not data: a block cut off is refused, and stripping
at most shortens a block of data.

`OriginalsRead` puts both into the composition that the run checks.

Induction over numbers is in reach of the prover as long as it is about a set
(`Induction`, from the theorem that every set of numbers has a least element);
that is how the proofs reach the recursive functions `OneByOne` and the fold
behind `FlattenSeq`. `RECURSIVE` operators are not.

Only model-checked: all liveness and fairness (`TicketsPass`, `ExtractTerminates`,
`CommandEnds`), which the proof system does not reach; the composition of create and
append with the reader; the collection of files, and the command layers, whose
algorithms are `RECURSIVE` operators or have no state that lasts.

## 5. What is not modelled

Bytes of data and CRC (a chunk that cannot be read is where the tokens stop, or
is not intact); the ciphers, hashes and compressors themselves; regular
expressions, the parsing of arguments by clap, of relative times by
`parse_datetime`, ignore files beyond which paths they match; the text of
messages; the asynchronous and memory-mapped twins of the reader, whose control
is the same; archives as operands (`@archive`), standard input and output as
archives; files that change during the walk (they do in `UpdateArchive`);
`concat`, the listing of chunks, the rewriting of old-style tar arguments,
completion and the other auxiliary commands; Windows, except for the names and
the access rules that its archives hold; the convenience crate `pna` beyond
`open_for_append`. The components and the reasons are listed in `PROJECT.json`.

## 6. Plan

Done: the archive layers (`SplitParts`, `ArchiveReader`, `SplitRoundTrip`,
`CreateAppend`, `RewriteArchive`, `SafeWriter`), the concurrent ones (`PathLocks`,
`ParallelExtract`, `ReorderByIndex`, `UpdateArchive`), the entries (`EntryChunks`,
`GcmStream`, `CbcStream`, `EntryStreams`, `FileCollection`), the commands' own logic
(the twelve layers above), and the theorems of section 4: every safety property
of the sink and of reading back what it has left, of the locks, the parallel
extraction, the reordering, the update, the safe writer, the entries' chunks, the
rewriting commands and the encrypting streams.

Next, in this order:

* An abstract lock (a FIFO queue per path) that `PathLocks` implements, by TLC
  and by proof.
* `DiffArchive` and `VerifyArchive` as theorems: both keep a count in step with a
  set, which is an invariant of a few lines.
* `@archive` operands and `concat`, which share `read_archive_source`.

Modules that share no state are layers of one run, so that a run is a question
about a part of the system and not about a module.
