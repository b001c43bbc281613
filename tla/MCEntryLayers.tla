---------------------------- MODULE MCEntryLayers ----------------------------
(* The layers between files and an archive that share no state, each by     *)
(* itself: the collection of the files; the chunks of an entry, parsed and  *)
(* written again; the two ciphers that keep a state; and the file a command *)
(* writes.  One of the five moves in each behaviour.                        *)
EXTENDS EntryChunks, GcmStream, CbcStream, SmallFileSystems, SafeWriter

CONSTANTS Nowhere, MaxDepth

SomeChunks ==
  {Chunk("FHED", 0), Chunk("FEND", 0), Chunk("FDAT", 1), Chunk("PHSF", 7),
   Chunk("mTIM", -1), Chunk("mTNS", 1), Chunk("mTNS", 2), Chunk("fPRM", 3), Chunk("fUId", 4),
   Chunk("fLTP", 1), Chunk("myTy", 6)}
SolidChunks ==
  {Chunk("SHED", 0), Chunk("SEND", 0), Chunk("SDAT", 1)}
MCAlphabet == SomeChunks \cup SolidChunks

VARIABLES layer   \* the one that moves
VARIABLES fs, options, operands, at, fpc, stack, ig, seen, collected
fvars == <<fs, options, operands, at, fpc, stack, ig, seen, collected>>
allvars == <<layer, fvars, evars, gvars, bvars, vars>>

F == INSTANCE FileCollection WITH Cases <- SmallCases, out <- collected, pc <- fpc

LayersInit ==
  /\ layer \in {"files", "chunks", "gcm", "cbc", "writer"}
  /\ IF layer = "files" THEN F!Init
     ELSE /\ fs = {} /\ options = {} /\ operands = {} /\ at = 0 /\ fpc = "none"
          /\ stack = {} /\ ig = {} /\ seen = {} /\ collected = {}
  /\ EntryInit /\ GcmInit /\ CbcInit /\ Init
  /\ layer # "writer" => dest = Old /\ overwrite = [w \in Writers |-> TRUE]
Collection == layer = "files" /\ F!Next /\ UNCHANGED <<layer, evars, gvars, bvars, vars>>
Entries == layer = "chunks" /\ EntryNext /\ UNCHANGED <<layer, fvars, gvars, bvars, vars>>
Segments == layer = "gcm" /\ GcmNext /\ UNCHANGED <<layer, fvars, evars, bvars, vars>>
BlockChain == layer = "cbc" /\ CbcNext /\ UNCHANGED <<layer, fvars, evars, gvars, vars>>
Writing == layer = "writer" /\ Next /\ UNCHANGED <<layer, fvars, evars, gvars, bvars>>
LayersSpec == LayersInit
              /\ [][Collection \/ Entries \/ Segments \/ BlockChain \/ Writing]_allvars
----------------------------------------------------------------------------
Swapped(s, i) == [s EXCEPT ![i] = s[i + 1], ![i + 1] = s[i]]

\* "chunk order within an entry isn't guaranteed" (parse_chunks): two
\* neighbours of different types may change places without changing the entry,
\* the order of the unknown ones apart.
OrderFree ==
  state = "read" /\ pos = 0 =>
    LET e == Parse(stream)
        Content(x) == IF x = Invalid THEN x ELSE [x EXCEPT !.extra = ToSet(@)]
        Inner == {i \in 2..(Len(stream) - 2) :
                    /\ stream[i].ty # stream[i + 1].ty
                    /\ {"FEND", "SEND"} \cap {stream[i].ty, stream[i + 1].ty} = {}}
    IN e # Invalid => \A i \in Inner : Content(Parse(Swapped(stream, i))) = Content(e)

\* What a rewriting command reads and writes back is read again as the same
\* entry: header, password hash, data, times before 1970 with a fraction, owner
\* facets taken from an old fPRM chunk, and the chunks of other programs.  The
\* iterator over a solid entry ends only where an entry has ended, and has then
\* handed out every one that the stream holds.  And the order of chunks is free.
RewriteKeeps ==
  /\ OrderFree
  /\ state = "read" /\ pos = 0 =>
       LET e == Parse(stream) IN e # Invalid => Parse(WriteEntry(e)) = e
  /\ state = "ended" =>
       /\ stream # <<>> => Last(stream).ty = "FEND"
       /\ Len(read) = Cardinality({k \in DOMAIN stream : stream[k].ty = "FEND"})

\* FileCollection: a walk collects exactly what its operands select; hard links
\* refer to what holds their data, and --check-links warns when it has to.
CollectsExactly == layer = "files" => F!CollectsExactly
LinksHandled == layer = "files" => F!LinksResolve /\ F!WarnsExactly

\* --check-links: "Warn if not all links to each file are archived".
WarnsOfMissingLinks == layer = "files" => F!WarnsOfMissingLinks

\* GcmStream and CbcStream: nothing but the original is ever read, and what arrives
\* whole is read to its end.
ReadsTheOriginal == OnlyTheOriginal /\ IntactIsRead /\ BlocksReadBack
=============================================================================
