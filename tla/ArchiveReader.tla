---------------------------- MODULE ArchiveReader ----------------------------
(***************************************************************************)
(* Reading the entries of an archive that may be cut in parts:             *)
(* Archive::next_raw_item and read_next_archive of lib/src/archive/read.rs *)
(* under the loop that drives them, run_across_archive_readers of          *)
(* cli/src/command/core.rs.                                                *)
(*                                                                         *)
(* A file is a sequence of tokens: the header of an archive, [ty, number], *)
(* or a chunk, a record with at least a ty.  Where the tokens stop, the    *)
(* next read fails: the file ends there, or its next chunk is cut short.   *)
(***************************************************************************)
EXTENDS Naturals, Sequences

VARIABLES
  files,        \* the readers the provider hands out, first to last
  concatenated, \* allow_concatenated_archives of the caller
  rpc,          \* "idle", "items", "end", "ok" or "error"
  opened,       \* how many of them it has handed out
  rest,         \* the tokens that are left of the current reader
  number,       \* header.archive_number of the current part
  next_archive, \* whether ANXT was seen in the current part
  buf,          \* chunks of the item being read, kept across a part boundary
  items         \* history: the raw items returned, in order

rvars == <<files, concatenated, rpc, opened, rest, number, next_archive, buf,
           items>>

Idle(fs, c) ==
  /\ files = fs /\ concatenated = c /\ rpc = "idle" /\ opened = 0 /\ rest = <<>>
  /\ number = 0 /\ next_archive = FALSE /\ buf = <<>> /\ items = <<>>

Starts(s) == s # <<>> /\ s[1].ty = "AHED"   \* read_header succeeds on s

Error == rpc' = "error" /\ UNCHANGED <<files, concatenated, opened, rest, number,
                                       next_archive, buf, items>>

\* read_header_with_buffer on stream s: a new Archive that keeps chunks b.
EnterPart(s, b) ==
  /\ rpc' = "items"
  /\ rest' = Tail(s) /\ number' = s[1].number
  /\ next_archive' = FALSE /\ buf' = b
  /\ UNCHANGED <<files, concatenated, items>>

OpenFirst ==
  /\ rpc = "idle" /\ files # <<>>
  /\ IF Starts(files[1]) THEN EnterPart(files[1], <<>>) /\ opened' = 1
                         ELSE Error

-----------------------------------------------------------------------------
(* next_raw_item, one chunk at a time.                                     *)

ReadFails == rpc = "items" /\ rest = <<>> /\ Error

ReadsA(types) == rpc = "items" /\ rest # <<>> /\ rest[1].ty \in types
Advance == rest' = Tail(rest)
ItemEnds == {"FEND", "SEND"}

ReadItemEnd ==
  /\ ReadsA(ItemEnds)
  /\ items' = Append(items, Append(buf, rest[1]))
  /\ buf' = <<>>
  /\ Advance /\ UNCHANGED <<files, concatenated, rpc, opened, number, next_archive>>

ReadAnxt ==
  /\ ReadsA({"ANXT"})
  /\ next_archive' = TRUE
  /\ Advance /\ UNCHANGED <<files, concatenated, rpc, opened, number, buf, items>>

Kept(b) == b

\* The item that AEND interrupts stays in buf.
ReadAend ==
  /\ ReadsA({"AEND"})
  /\ buf' = Kept(buf)
  /\ rpc' = "end"
  /\ Advance /\ UNCHANGED <<files, concatenated, opened, number, next_archive, items>>

ReadOther ==
  /\ rpc = "items" /\ rest # <<>>
  /\ rest[1].ty \notin ItemEnds \cup {"ANXT", "AEND"}
  /\ buf' = Append(buf, rest[1])
  /\ Advance /\ UNCHANGED <<files, concatenated, rpc, opened, number, next_archive, items>>

-----------------------------------------------------------------------------
(* What follows a part that was read to its end.                           *)

\* verify_next_archive_number
IsNext_Unchecked(s) == TRUE   \* mutant
IsNext(s) == s[1].number = number + 1

HasNextArchive_Never == FALSE   \* mutant
HasNextArchive == next_archive

\* How many readers the provider has handed out once the next part is entered.
Opened_Always(provided) == opened + 1   \* mutant
Opened(provided) == IF provided THEN opened + 1 ELSE opened

\* The next part comes from the provider, or follows in the same stream.
NextPart ==
  LET provided == opened < Len(files)
      s == IF provided THEN files[opened + 1] ELSE rest
  IN /\ rpc = "end" /\ HasNextArchive
     /\ \/ /\ Starts(s) /\ IsNext(s)
           /\ EnterPart(s, buf)
           /\ opened' = Opened(provided)
        \/ ~(Starts(s) /\ IsNext(s)) /\ Error

\* The reader stops at the end of an archive that no other one follows.
StopsHere == ~concatenated \/ rest = <<>>

Finish ==
  /\ rpc = "end" /\ ~HasNextArchive
  /\ StopsHere
  /\ rpc' = "ok"
  /\ UNCHANGED <<files, concatenated, opened, rest, number, next_archive, buf, items>>

\* Another archive follows in the same stream; anything else there is an error.
NextArchive ==
  /\ rpc = "end" /\ ~HasNextArchive
  /\ ~StopsHere
  /\ IF Starts(rest) THEN EnterPart(rest, <<>>) /\ UNCHANGED opened ELSE Error

ReadNext == \/ OpenFirst \/ ReadFails \/ ReadItemEnd \/ ReadAnxt \/ ReadAend
            \/ ReadOther \/ NextPart \/ Finish \/ NextArchive
=============================================================================
