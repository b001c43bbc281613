----------------------------- MODULE SplitParts -----------------------------
(***************************************************************************)
(* The multipart sink of libpna, lib/src/archive/split_parts.rs: chunks go *)
(* in one at a time, and come out in a sequence of self-framed part files  *)
(* of at most max_part_bytes each.                                         *)
(*                                                                         *)
(* The byte sizes of the framing are the real ones; the data of a chunk is *)
(* abstracted to its length, and a piece of it to the interval it covers.  *)
(* Every write to a part, and every call of the next_part callback, is a   *)
(* step that may fail: the sink must then be discarded (pc = "failed").    *)
(***************************************************************************)
EXTENDS Integers, Sequences

CONSTANTS
  MaxPartBytes,  \* the values of max_part_bytes a caller passes
  Inputs,        \* the chunks a caller writes: records [ty, len]
  U32Max,        \* the largest u32, the bound of the part counter
  MaxChunks      \* bound: how many chunks a behaviour writes

StreamTypes == {"FDAT", "SDAT"}   \* ChunkType::is_stream
ChunkTypes == StreamTypes \cup {"FHED", "FEND", "SHED", "SEND", "AUX"}

ASSUME MaxPartBytesAssumption == MaxPartBytes \subseteq Nat
ASSUME InputsAssumption == Inputs \subseteq [ty: ChunkTypes, len: Nat]
ASSUME U32MaxAssumption == U32Max \in Nat \ {0}
ASSUME MaxChunksAssumption == MaxChunks \in Nat

MIN_CHUNK_BYTES_SIZE == 12                  \* length, type and CRC
PART_HEADER_BYTES == 8 + MIN_CHUNK_BYTES_SIZE + 8
Overhead_OneMarker == PART_HEADER_BYTES + MIN_CHUNK_BYTES_SIZE   \* mutant
SPLIT_ARCHIVE_OVERHEAD_BYTES == PART_HEADER_BYTES + 2 * MIN_CHUNK_BYTES_SIZE
MIN_SPLIT_PART_BYTES == SPLIT_ARCHIVE_OVERHEAD_BYTES + MIN_CHUNK_BYTES_SIZE

VARIABLES
  pc,            \* where the sink is: see Steps
  ret,           \* what put_chunk does once roll_over returns
  max_part_bytes,
  remaining,     \* bytes the current part can still take
  parts,         \* the u32 counter of opened parts
  out,           \* the part files: number, size, closing marker, torn tail
  written,       \* every fragment written, in write order, with its part
  pending,       \* what is left of the chunk being put
  accepted       \* history: the chunks passed to write_chunk so far

vars == <<pc, ret, max_part_bytes, remaining, parts, out, written, pending,
          accepted>>

chunk_budget == max_part_bytes - SPLIT_ARCHIVE_OVERHEAD_BYTES
BytesLen(c) == c.len + MIN_CHUNK_BYTES_SIZE
IsStream(c) == accepted[c.id].ty \in StreamTypes

\* The writer of the most recently opened part.
current == Len(out)

\* How a part ends: no marker yet, ANXT only, ANXT then AEND, AEND only.
Endings == {"open", "anxt", "next", "last"}
EmptyPart(n) == [number |-> n, size |-> PART_HEADER_BYTES, end |-> "open",
                 torn |-> FALSE]
TornHeader(n) == [number |-> n, size |-> PART_HEADER_BYTES - 1, end |-> "open",
                  torn |-> TRUE]

\* n more bytes reach the current part, which then ends in e.
Grow(n, e, torn) ==
  out' = [out EXCEPT ![current] = [number |-> out[current].number,
                                   size |-> out[current].size + n,
                                   end |-> e, torn |-> torn]]
GrowOpen(n) == Grow(n, out[current].end, FALSE)
GrowMarker(e) == Grow(MIN_CHUNK_BYTES_SIZE, e, FALSE)

Steps == {"new", "idle", "value", "stream", "anxt", "aend", "open", "done",
          "failed"}
Nothing == [id |-> 0, off |-> 0, len |-> 0]

-----------------------------------------------------------------------------
Init ==
  /\ pc = "new" /\ ret = "value"
  /\ max_part_bytes \in MaxPartBytes
  /\ remaining = 0 /\ parts = 0
  /\ out = <<>> /\ written = <<>> /\ pending = Nothing /\ accepted = <<>>

Fail == pc' = "failed" /\ UNCHANGED <<ret, max_part_bytes, remaining, parts,
                                      written, pending, accepted>>

\* A part that is too small to hold a chunk is rejected before any is opened.
NewRejected ==
  /\ pc = "new"
  /\ max_part_bytes < MIN_SPLIT_PART_BYTES
  /\ Fail /\ UNCHANGED out

New ==
  /\ pc = "new"
  /\ max_part_bytes >= MIN_SPLIT_PART_BYTES
  /\ out' = <<EmptyPart(0)>>
  /\ parts' = 1
  /\ remaining' = chunk_budget
  /\ pc' = "idle"
  /\ UNCHANGED <<ret, max_part_bytes, written, pending, accepted>>

\* Opening a part fails in next_part, before there is a file, or while its
\* framing is written.
OpenFails(n) ==
  \/ Fail /\ UNCHANGED out
  \/ Fail /\ out' = Append(out, TornHeader(n))

NewFails ==
  /\ pc = "new"
  /\ max_part_bytes >= MIN_SPLIT_PART_BYTES
  /\ OpenFails(0)

\* No part can hold the chunk.
TooLarge_Unchecked(c) == FALSE   \* mutant
TooLarge(c) == BytesLen(c) > chunk_budget

\* put_chunk: what is decided before anything is written.
PutChunk(c) ==
  LET chunk == [id |-> Len(accepted) + 1, off |-> 0, len |-> c.len]
      fits == BytesLen(c) <= remaining
      stream == c.ty \in StreamTypes
  IN /\ pc = "idle" /\ Len(accepted) < MaxChunks
     /\ accepted' = Append(accepted, c)
     /\ pending' = chunk
     /\ \/ fits /\ pc' = "value" /\ UNCHANGED ret
        \/ /\ ~fits /\ ~stream
           /\ TooLarge(c)
           /\ pc' = "failed" /\ UNCHANGED ret
        \/ /\ ~fits
           /\ ~TooLarge(c)
           /\ ~stream \/ remaining <= MIN_CHUNK_BYTES_SIZE
           /\ pc' = "anxt" /\ ret' = "value"
        \/ /\ ~fits /\ stream
           /\ TooLarge(c) \/ remaining > MIN_CHUNK_BYTES_SIZE
           /\ pc' = "stream" /\ UNCHANGED ret
     /\ UNCHANGED <<max_part_bytes, remaining, parts, out, written>>

\* The data that is left once its first n bytes are written.
Rest_NotAdvanced(n) == pending   \* mutant
Rest(n) == [id |-> pending.id, off |-> pending.off + n, len |-> pending.len - n]

\* write_chunk_value for the first n bytes of the pending data.
WriteFragment(n) ==
  LET size == n + MIN_CHUNK_BYTES_SIZE
  IN /\ GrowOpen(size)
     /\ written' = Append(written, [part |-> current, id |-> pending.id,
                                    off |-> pending.off, len |-> n])
     /\ remaining' = remaining - size
     /\ pending' = Rest(n)

\* The chunk, or the last fragment of a stream chunk, is written whole.
WriteValue ==
  /\ \/ pc = "value"
     \/ pc = "stream" /\ BytesLen(pending) <= remaining
  /\ WriteFragment(pending.len)
  /\ pc' = "idle"
  /\ UNCHANGED <<ret, max_part_bytes, parts, accepted>>

\* put_stream cuts the data where the part is full, then rolls over.
CutLen == remaining - MIN_CHUNK_BYTES_SIZE
CanCut_AtLimit == remaining >= MIN_CHUNK_BYTES_SIZE   \* mutant
CanCut == remaining > MIN_CHUNK_BYTES_SIZE

CutStream ==
  /\ pc = "stream" /\ BytesLen(pending) > remaining
  /\ CanCut
  /\ WriteFragment(CutLen)
  /\ pc' = "anxt" /\ ret' = "stream"
  /\ UNCHANGED <<max_part_bytes, parts, accepted>>

\* No room for one byte of data: rolls over, or gives up when a fresh part
\* would not have any either.
SkipPart ==
  /\ pc = "stream" /\ BytesLen(pending) > remaining
  /\ ~CanCut
  /\ chunk_budget > MIN_CHUNK_BYTES_SIZE
  /\ pc' = "anxt" /\ ret' = "stream"
  /\ UNCHANGED <<max_part_bytes, remaining, parts, out, written, pending,
                 accepted>>

StreamRejected ==
  /\ pc = "stream" /\ BytesLen(pending) > remaining
  /\ ~CanCut
  /\ chunk_budget <= MIN_CHUNK_BYTES_SIZE
  /\ Fail /\ UNCHANGED out

\* roll_over: checked_add on the counter comes before the part is touched, and
\* the counter doubles as the number of the part it opens.
CounterFull_Unchecked == FALSE   \* mutant
CounterFull == parts = U32Max
NextNumber_AfterIncrement == parts + 1   \* mutant
NextNumber == parts

RollOverflow ==
  /\ pc = "anxt" /\ CounterFull
  /\ Fail /\ UNCHANGED out

RollAnxt ==
  /\ pc = "anxt" /\ ~CounterFull
  /\ GrowMarker("anxt")
  /\ pc' = "aend"
  /\ UNCHANGED <<ret, max_part_bytes, remaining, parts, written, pending,
                 accepted>>

RollAend ==
  /\ pc = "aend"
  /\ GrowMarker("next")
  /\ pc' = "open"
  /\ UNCHANGED <<ret, max_part_bytes, remaining, parts, written, pending,
                 accepted>>

RollOpen ==
  /\ pc = "open"
  /\ out' = Append(out, EmptyPart(NextNumber))
  /\ parts' = parts + 1
  /\ remaining' = chunk_budget
  /\ pc' = ret
  /\ UNCHANGED <<ret, max_part_bytes, written, pending, accepted>>

RollOpenFails == pc = "open" /\ OpenFails(NextNumber)

\* finalize_archive writes the closing AEND of the last part.
Finalize ==
  /\ pc = "idle"
  /\ GrowMarker("last")
  /\ pc' = "done"
  /\ UNCHANGED <<ret, max_part_bytes, remaining, parts, written, pending,
                 accepted>>

\* The chunk that the next write of this state puts in the current part.
NextWriteBytes ==
  IF pc \notin {"value", "stream"} THEN MIN_CHUNK_BYTES_SIZE
  ELSE IF BytesLen(pending) <= remaining THEN BytesLen(pending) ELSE remaining

\* A write fails and leaves nothing, or all but the last byte, of its chunk.
WriteFails ==
  /\ \/ pc \in {"value", "aend", "idle"}
     \/ pc = "anxt" /\ ~CounterFull
     \/ pc = "stream" /\ (BytesLen(pending) <= remaining \/ CanCut)
  /\ \E t \in {0, NextWriteBytes - 1} : Grow(t, out[current].end, t > 0)
  /\ Fail

\* The flush after an AEND fails although the marker reached the file.
FlushFails ==
  /\ pc \in {"aend", "idle"}
  /\ GrowMarker(IF pc = "aend" THEN "next" ELSE "last")
  /\ Fail

PutStep == \/ WriteValue \/ CutStream \/ SkipPart \/ StreamRejected
           \/ RollOverflow \/ RollAnxt \/ RollAend \/ RollOpen
Faults == NewFails \/ RollOpenFails \/ WriteFails \/ FlushFails
Next == \/ NewRejected \/ New
        \/ \E c \in Inputs : PutChunk(c)
        \/ PutStep \/ Finalize \/ Faults

Spec == Init /\ [][Next]_vars

-----------------------------------------------------------------------------
(* Properties                                                              *)

PartRecord == [number: Nat, size: Nat, end: Endings, torn: BOOLEAN]
Fragment == [part: Nat, id: Nat, off: Nat, len: Nat]
Piece == [id: Nat, off: Nat, len: Nat]

\* Types of the variables.
TypeOK ==
  /\ pc \in Steps /\ ret \in {"value", "stream"}
  /\ max_part_bytes \in MaxPartBytes
  /\ remaining \in Nat /\ parts \in 0..U32Max
  /\ out \in Seq(PartRecord)
  /\ written \in Seq(Fragment)
  /\ pending \in Piece
  /\ accepted \in Seq(Inputs)

\* No part file is ever longer than max_part_bytes, not even one a failing
\* write leaves behind: the reserve for the two markers is never eaten into.
PartsBounded == \A i \in DOMAIN out : out[i].size <= max_part_bytes

\* Where a fragment ends the chunk it belongs to.
EndsChunk(f) == f.off + f.len = accepted[f.id].len
\* Fragment g goes on exactly where fragment f stops.
Follows(f, g) ==
  \/ g.id = f.id /\ ~EndsChunk(f) /\ g.off = f.off + f.len
  \/ EndsChunk(f) /\ g.id = f.id + 1 /\ g.off = 0
FirstFragment(g) == g.id = 1 /\ g.off = 0
Goes(g) == IF written = <<>> THEN FirstFragment(g)
           ELSE Follows(written[Len(written)], g)

\* Concatenating the parts gives back the chunks passed in, in order: every
\* fragment starts where the one before it stops, and between two calls there
\* is nothing left to write.
NothingLostOrReordered ==
  /\ written # <<>> => FirstFragment(written[1])
  /\ \A k \in 2..Len(written) : Follows(written[k - 1], written[k])
  /\ \A j, k \in DOMAIN written : j <= k => written[j].part <= written[k].part
  /\ pc \in {"idle", "done"} =>
       IF written = <<>> THEN accepted = <<>>
       ELSE /\ written[Len(written)].id = Len(accepted)
            /\ EndsChunk(written[Len(written)])

\* Only file and solid data is cut (readers join no other chunk), and a cut
\* never yields a chunk without data.
OnlyStreamsCut ==
  \A k \in DOMAIN written :
    LET f == written[k]
    IN f.len < accepted[f.id].len => IsStream(f) /\ f.len > 0

\* Rolling over makes progress: a part that is closed for a next one holds
\* at least one fragment, so no sequence of empty parts is produced.
NoEmptyPart ==
  \A i \in DOMAIN out :
    out[i].end \in {"anxt", "next"} => \E k \in DOMAIN written : written[k].part = i

\* Parts are numbered 0, 1, 2, ... ; each but the last is closed by ANXT and
\* AEND, and only a finished sink closes the last one by AEND alone.  Nothing
\* but streams is cut between them, and none of them is empty.
PartsChained ==
  /\ \A i \in DOMAIN out : out[i].number = i - 1
  /\ \A i \in 1..(Len(out) - 1) : out[i].end = "next" /\ ~out[i].torn
  /\ pc = "done" => out[Len(out)].end = "last" /\ ~out[Len(out)].torn
  /\ OnlyStreamsCut /\ NoEmptyPart

\* Concatenating the parts gives back the chunks, in order, and the parts form
\* a chain.
PartsInOrder == NothingLostOrReordered /\ PartsChained
=============================================================================
