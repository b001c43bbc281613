--------------------------- MODULE SplitRoundTrip ---------------------------
(***************************************************************************)
(* An archive is written in parts (SplitParts) and read back               *)
(* (ArchiveReader).  The writer may fail on the way; the part files may be *)
(* joined, cut short, or not all there when they are read.                 *)
(*                                                                         *)
(* External to the code: how the user hands the part files over.           *)
(***************************************************************************)
EXTENDS SplitParts, SequencesExt

VARIABLES files, concatenated, rpc, opened, rest, number, next_archive, buf, items

R == INSTANCE ArchiveReader
rvars == <<files, concatenated, rpc, opened, rest, number, next_archive, buf,
           items>>

\* The fragments as they stand in the part files.
Framed == [k \in DOMAIN written |->
             [ty |-> accepted[written[k].id].ty, id |-> written[k].id,
              off |-> written[k].off, len |-> written[k].len]]
\* How many of them are in the parts before the i-th: written holds the
\* fragments of a part next to one another.
FragmentsBefore(i) == Cardinality({k \in DOMAIN written : written[k].part < i})
\* The markers that close a part, by how it ends.
Markers == [open |-> <<>>,
            anxt |-> <<[ty |-> "ANXT"]>>,
            next |-> <<[ty |-> "ANXT"], [ty |-> "AEND"]>>,
            last |-> <<[ty |-> "AEND"]>>]

\* The tokens of the i-th part file.
PartFile(i) ==
  IF out[i].size < PART_HEADER_BYTES THEN <<>>
  ELSE <<[ty |-> "AHED", number |-> out[i].number]>>
       \o SubSeq(Framed, FragmentsBefore(i) + 1, FragmentsBefore(i + 1))
       \o Markers[out[i].end]
PartFiles == [i \in DOMAIN out |-> PartFile(i)]

\* collect_split_archives stops at the first part that does not exist.
Missing(fs) == {SubSeq(fs, 1, k) : k \in 1..Len(fs)}
\* One part stands under the name of another; the first is the one named.
Misnamed(fs) == {[fs EXCEPT ![i] = fs[j]] : i, j \in 2..Len(fs)}
\* All the parts in one stream.
Joined(fs) == {<<FlattenSeq(fs)>>}
\* A complete archive twice in one stream.
Doubled(fs) == <<FlattenSeq(fs \o fs)>>
\* The file written last lost its tail.
CutShort(fs) == {[fs EXCEPT ![Len(fs)] = SubSeq(@, 1, k)] : k \in 0..Len(Last(fs))}
Deliveries(fs) == IF fs = <<>> THEN {}
                  ELSE Missing(fs) \cup Misnamed(fs) \cup Joined(fs) \cup CutShort(fs)
                       \cup {Doubled(f) : f \in {g \in {fs} : pc = "done"}}

-----------------------------------------------------------------------------
\* Archive::add_entry writes an entry as a header, other chunks, and an end;
\* an archive is finalized after its last entry.
Opens(c) == c.ty \in {"FHED", "SHED"}
Closes(c) == c.ty \in {"FEND", "SEND"}
BetweenEntries(s) == IF s = <<>> THEN TRUE ELSE Closes(Last(s))
AddEntries ==
  /\ accepted' # accepted => (BetweenEntries(accepted) <=> Opens(Last(accepted')))
  /\ pc = "idle" /\ accepted' = accepted => BetweenEntries(accepted)

RTInit == Init /\ R!Idle(<<>>, FALSE)

Write == rpc = "idle" /\ files = <<>> /\ Next /\ AddEntries /\ UNCHANGED rvars

Deliver ==
  /\ pc \in {"done", "failed"} /\ files = <<>>
  /\ files' \in Deliveries(PartFiles)
  /\ concatenated' \in BOOLEAN
  /\ UNCHANGED <<vars, rpc, opened, rest, number, next_archive, buf, items>>

Read == R!ReadNext /\ UNCHANGED vars

RTNext == Write \/ Deliver \/ Read
RTSpec == RTInit /\ [][RTNext]_<<vars, rvars>>

-----------------------------------------------------------------------------
(* Properties                                                              *)

\* What a sequence of fragments holds: the start of each chunk and its bytes.
Content(s) == FlattenSeq([k \in DOMAIN s |->
  (IF s[k].off = 0 THEN <<<<s[k].id, "start">>>> ELSE <<>>)
  \o [b \in 1..s[k].len |-> <<s[k].id, s[k].off + b>>]])

\* The chunks of the first n entries of the archive.
EntryEnds == {i \in DOMAIN accepted : Closes(accepted[i])}
OfFirst(n) ==
  [i \in {c \in DOMAIN accepted : Cardinality({j \in EntryEnds : j < c}) < n} |->
     [id |-> i, off |-> 0, len |-> accepted[i].len]]
\* How many entries the files hold: a doubled archive is read twice only by
\* a caller that allows concatenated archives.
Twice == concatenated /\ pc = "done" /\ files = Doubled(PartFiles)
Written == Cardinality(EntryEnds)
Expected == IF Twice THEN 2 * Written ELSE Written

\* Whatever happened to the writer and to the files, the items returned are,
\* byte for byte, the first entries of the archive, each cut at its own end.
ItemsAreEntries ==
  LET n == Len(items)
  IN /\ n <= Expected
     /\ Content(FlattenSeq(items)) = Content(OfFirst(n) \o OfFirst(n - Written))
     /\ \A k \in DOMAIN items :
          {c \in DOMAIN items[k] : Closes(items[k][c])} = {Len(items[k])}

\* A reader that ends without an error has returned every entry, and nothing
\* is left over of one: a failed writer or a missing, misnamed or truncated
\* part never passes for a complete archive.
OkIsComplete == rpc = "ok" => Len(items) = Expected /\ buf = <<>>

\* An archive that was finalized and delivered whole, as files joined in one
\* stream or doubled, is read without an error.
WholeIsRead ==
  rpc = "error" => ~(pc = "done" /\ files \in {PartFiles, Doubled(PartFiles)} \cup Joined(PartFiles))
=============================================================================
