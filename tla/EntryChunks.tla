---------------------------- MODULE EntryChunks ----------------------------
(***************************************************************************)
(* The chunks of an entry (lib/src/entry.rs).  parse_chunks makes an entry *)
(* of the chunks between its header and its end; write_chunks_to puts it   *)
(* back.  Every command that rewrites an archive passes each entry through *)
(* both, whoever wrote it first and in whatever order its chunks came, so  *)
(* what parsing forgets is gone for good.  An iterator cuts the plain      *)
(* stream inside a solid entry into entries.                               *)
(*                                                                         *)
(* A chunk has a type, a value (the body, decoded) and whether the body    *)
(* can be decoded.  An optional value is a sequence of at most one value.  *)
(* The action PutChunk is whoever wrote the stream: the writers of this    *)
(* crate, older ones and other programs.                                   *)
(***************************************************************************)
EXTENDS Integers, SequencesExt

CONSTANTS
  Alphabet,   \* the chunks a stream is made of
  MaxChunks,  \* bound on the length of a stream
  NANOS       \* nanoseconds in a second
ASSUME NanosAssumption == NANOS \in Nat \ {0, 1}

Some(v) == <<v>>
None == <<>>
OrElse(o, d) == IF o = None THEN d ELSE o[1]

\* The facets a chunk fPRM of old archives stands for, and those it does not.
PosixFacets == {"fUId", "fGId", "fONm", "fGNm", "fMOd"}
Facets == PosixFacets \cup {"fOSi", "fGSi", "fLTP", "fSIZ"}
SecondsOf == [created |-> "cTIM", modified |-> "mTIM", accessed |-> "aTIM"]
NanosOf == [created |-> "cTNS", modified |-> "mTNS", accessed |-> "aTNS"]
Times == DOMAIN SecondsOf
Single == Facets \cup Range(SecondsOf) \cup Range(NanosOf) \cup {"fPRM"}

\* The body of a chunk of seconds that can be decoded is an integer.
ASSUME AlphabetAssumption ==
  \A c \in Alphabet :
    /\ c.ok \in BOOLEAN
    /\ c.ty \in Range(SecondsOf) /\ c.ok => c.val \in Int

LinkTargetTypes == 0..2
DataOf(kind) == IF kind = "solid" THEN "SDAT" ELSE "FDAT"
EndOf(kind) == IF kind = "solid" THEN "SEND" ELSE "FEND"
\* The critical chunks besides those the parser of a kind knows by name.
Critical == {"FHED", "SHED", "FDAT", "SDAT", "FEND", "SEND", "PHSF", "ZZZZ"}

Chunk(ty, v) == [ty |-> ty, val |-> v, ok |-> TRUE]

----------------------------------------------------------------------------
\* Time, as from_seconds_nanos and to_seconds_nanos of a Duration: the whole
\* seconds of a Duration are cut towards zero, the nanoseconds have its sign.
\* That both saturate at the ends of i64 is left out.
FromSecondsNanos(s, n) == s * NANOS + n
WholeSeconds(d) == IF d < 0 THEN -((-d) \div NANOS) ELSE d \div NANOS
SubsecNanos(d) == d - WholeSeconds(d) * NANOS
ToSecondsNanos_Signed(d) == <<WholeSeconds(d), SubsecNanos(d)>>   \* mutant
ToSecondsNanos(d) ==
  IF SubsecNanos(d) < 0
  THEN <<WholeSeconds(d) - 1, SubsecNanos(d) + NANOS>>
  ELSE <<WholeSeconds(d), SubsecNanos(d)>>

----------------------------------------------------------------------------
\* Parsing.  What the loop of parse_chunks has collected so far.
Collected0 ==
  [phsf |-> None, extra |-> <<>>, data |-> <<>>, xattrs |-> <<>>,
   single |-> [f \in Single |-> None], failed |-> FALSE, ended |-> FALSE]

\* A chunk that only the parser of normal entries knows.
Known(kind, ty) == kind = "normal" /\ (ty \in Single \/ ty = "xATR")
Decodes(c) == c.ok /\ (c.ty \in Range(NanosOf) => c.val \in 0..(NANOS - 1))
\* Chunks that are an error, and those that are kept as they are.
Rejects(kind, c) ==
  \/ c.ty = "PHSF" /\ ~c.ok
  \/ Known(kind, c.ty) /\ ~Decodes(c)
  \/ c.ty \in Critical \ {EndOf(kind), DataOf(kind), "PHSF"}
Foreign(kind, ty) ==
  ~Known(kind, ty) /\ ty \notin {EndOf(kind), DataOf(kind), "PHSF"} \cup Critical

\* A kind of link target that is not known is as good as none.
Decoded(c) == IF c.ty = "fLTP" /\ c.val \notin LinkTargetTypes THEN None ELSE Some(c.val)
Note_LegacyAtOnce(p, c) ==   \* mutant: fPRM fills the facets seen so far
  IF c.ty = "fPRM" /\ \A f \in PosixFacets : p.single[f] = None
  THEN [p EXCEPT !.single = [f \in Single |-> IF f \in PosixFacets THEN Some(c.val) ELSE @[f]]]
  ELSE [p EXCEPT !.single[c.ty] = Decoded(c)]
Note(p, c) == [p EXCEPT !.single[c.ty] = Decoded(c)]

Collect(kind, p, c) ==
  IF p.failed \/ p.ended THEN p
  ELSE CASE c.ty = EndOf(kind) -> [p EXCEPT !.ended = TRUE]
         [] c.ty = DataOf(kind) -> [p EXCEPT !.data = Append(@, c.val)]
         [] c.ty = "PHSF" /\ c.ok -> [p EXCEPT !.phsf = Some(c.val)]
         [] Known(kind, c.ty) /\ Decodes(c) /\ c.ty = "xATR" ->
              [p EXCEPT !.xattrs = Append(@, c.val)]
         [] Known(kind, c.ty) /\ Decodes(c) /\ c.ty # "xATR" -> Note(p, c)
         [] Foreign(kind, c.ty) -> [p EXCEPT !.extra = Append(@, c)]
         [] Rejects(kind, c) -> [p EXCEPT !.failed = TRUE]

CollectAll(kind, s) ==
  LET collected[n \in 0..Len(s)] ==
        IF n = 0 THEN Collected0 ELSE Collect(kind, collected[n - 1], s[n])
  IN collected[Len(s)]

\* A chunk fPRM counts only when no POSIX facet has a chunk of its own.
FillFromLegacy(single) ==
  IF \A f \in PosixFacets : single[f] = None
  THEN [f \in Facets |-> IF f \in PosixFacets THEN single["fPRM"] ELSE single[f]]
  ELSE [f \in Facets |-> single[f]]

TimeOf(single, t) ==
  IF single[SecondsOf[t]] = None THEN None
  ELSE Some(FromSecondsNanos(single[SecondsOf[t]][1], OrElse(single[NanosOf[t]], 0)))

Invalid == [kind |-> "invalid"]

\* NormalEntry::parse_chunks and SolidEntry::parse_chunks.
ParseAs(kind, head, chunks) ==
  LET p == CollectAll(kind, chunks)
  IN IF ~head.ok \/ p.failed \/ ~p.ended THEN Invalid
     ELSE IF kind = "solid"
     THEN [kind |-> "solid", header |-> head.val, phsf |-> p.phsf,
           extra |-> p.extra, data |-> p.data]
     ELSE [kind |-> "normal", header |-> head.val, phsf |-> p.phsf,
           extra |-> p.extra, data |-> p.data, xattrs |-> p.xattrs,
           facets |-> FillFromLegacy(p.single),
           times |-> [t \in Times |-> TimeOf(p.single, t)]]

\* ReadEntry::try_from: the first chunk tells the kind.
Parse(chunks) ==
  IF chunks = <<>> THEN Invalid
  ELSE CASE Head(chunks).ty = "FHED" -> ParseAs("normal", Head(chunks), Tail(chunks))
         [] Head(chunks).ty = "SHED" -> ParseAs("solid", Head(chunks), Tail(chunks))
         [] OTHER -> Invalid

----------------------------------------------------------------------------
\* Writing.
Optional(ty, o) == IF o = None THEN <<>> ELSE <<Chunk(ty, o[1])>>
TimeChunks(e, t) ==
  IF e.times[t] = None THEN <<>>
  ELSE LET sn == ToSecondsNanos(e.times[t][1])
       IN <<Chunk(SecondsOf[t], sn[1])>>
            \o IF sn[2] = 0 THEN <<>> ELSE <<Chunk(NanosOf[t], sn[2])>>
FacetChunk(e, f) == Optional(f, e.facets[f])
EachAs(ty, vals) == [k \in DOMAIN vals |-> Chunk(ty, vals[k])]
MetadataChunks(e) ==
  TimeChunks(e, "created") \o TimeChunks(e, "modified") \o TimeChunks(e, "accessed")
    \o FacetChunk(e, "fUId") \o FacetChunk(e, "fGId") \o FacetChunk(e, "fONm")
    \o FacetChunk(e, "fGNm") \o FacetChunk(e, "fOSi") \o FacetChunk(e, "fGSi")
    \o FacetChunk(e, "fMOd") \o FacetChunk(e, "fLTP")
    \o EachAs("xATR", e.xattrs)

WriteEntry(e) ==
  <<Chunk(IF e.kind = "solid" THEN "SHED" ELSE "FHED", e.header)>>
    \o e.extra
    \o (IF e.kind = "solid" THEN <<>>
        ELSE FacetChunk(e, "fSIZ") \o MetadataChunks(e))
    \o Optional("PHSF", e.phsf)
    \o EachAs(DataOf(e.kind), e.data)
    \o <<Chunk(EndOf(e.kind), 0)>>

----------------------------------------------------------------------------
VARIABLES
  stream,   \* the chunks written so far
  pos,      \* the chunks read so far
  chunks,   \* those of the entry being read
  read,     \* the entries handed out
  state     \* "put", "read", "ended" (the iterator said None), "failed"

evars == <<stream, pos, chunks, read, state>>

EntryInit ==
  /\ stream = <<>> /\ pos = 0
  /\ chunks = <<>> /\ read = <<>> /\ state = "put"

PutChunk ==
  /\ state = "put" /\ Len(stream) < MaxChunks
  /\ \E c \in Alphabet : stream' = Append(stream, c)
  /\ UNCHANGED <<pos, chunks, read, state>>

Close ==
  /\ state = "put"
  /\ state' = "read"
  /\ UNCHANGED <<stream, pos, chunks, read>>

\* read_next_normal_entry_from_stream: up to FEND, then parse_chunks.
TakeChunk ==
  /\ state = "read" /\ pos < Len(stream)
  /\ pos' = pos + 1
  /\ LET c == stream[pos + 1]
         all == Append(chunks, c)
         e == IF all[1].ty = "FHED" THEN Parse(all) ELSE Invalid
     IN IF c.ty # "FEND"
        THEN chunks' = all /\ UNCHANGED <<read, state>>
        ELSE /\ chunks' = <<>>
             /\ IF e = Invalid THEN state' = "failed" /\ UNCHANGED read
                               ELSE read' = Append(read, e) /\ UNCHANGED state
  /\ UNCHANGED stream

\* UnexpectedEof, where the stream ends after a chunk or is torn inside one: the
\* two look the same, and a stream torn in an entry's first chunk ends quietly.
EndsQuietly_Always == TRUE                \* mutant
EndsQuietly == chunks = <<>>
EndOfStream ==
  /\ state = "read" /\ pos = Len(stream)
  /\ state' = IF EndsQuietly THEN "ended" ELSE "failed"
  /\ UNCHANGED <<stream, pos, chunks, read>>

EntryNext == PutChunk \/ Close \/ TakeChunk \/ EndOfStream
=============================================================================
