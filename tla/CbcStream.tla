----------------------------- MODULE CbcStream -----------------------------
(***************************************************************************)
(* The stream of chained blocks that encrypts the data of an entry without *)
(* authentication (lib/src/cipher/block).  The writer keeps the bytes that *)
(* do not fill a block and pads the last one, which holds at least one     *)
(* byte of padding.  The reader fetches blocks in batches and holds the    *)
(* last one back, still encrypted, until it knows whether more follow:     *)
(* only the last block of all is stripped of padding.                      *)
(*                                                                         *)
(* The k-th byte of the data is the number k, a byte of padding is 0.  The *)
(* chain of the cipher opens the k-th block only as the k-th.  The stream  *)
(* arrives whole or cut short, which this cipher cannot tell for certain.  *)
(***************************************************************************)
EXTENDS Naturals, SequencesExt

CONSTANTS
  BlockSize,
  Batch,        \* DECRYPT_BATCH_BLOCKS
  MaxBytes,     \* bound on the data
  BlockReads    \* the buffer sizes of the reader's caller
ASSUME CbcAssumption ==
  /\ BlockSize \in Nat \ {0} /\ Batch \in Nat \ {0} /\ MaxBytes \in Nat
  /\ BlockReads \subseteq Nat \ {0}

VARIABLES
  put,         \* how many bytes the writer has taken
  pending,     \* those that do not fill a block
  blocks,      \* the blocks written, before encryption
  phase,       \* "write", "finished", "open", "failed", "broken" by its source
  arrived,     \* how many bytes the reader's source holds
  fetched,     \* how many it has given
  held,        \* the block held back
  opened,      \* how many blocks the chain has opened
  spill,       \* remaining: opened, but for the next call
  eof,
  wanted,      \* what the call at work still has room for; 0 when none is
  page,        \* what it has written to the caller's buffer
  got,         \* the bytes handed out
  told         \* the caller has been told that the data ends

bwritervars == <<put, pending, blocks>>
breadervars == <<fetched, held, opened, spill, eof, wanted, page, got, told>>
bvars == <<bwritervars, phase, arrived, breadervars>>

Garbage == 99
Shorter(a, b) == IF a < b THEN a ELSE b
Bytes(from, to) == [k \in 1..(to - from) |-> from + k]
Padding(n) == [k \in 1..n |-> 0]
Blocks(s) ==
  [k \in 1..(Len(s) \div BlockSize) |->
     SubSeq(s, (k - 1) * BlockSize + 1, k * BlockSize)]

CbcInit ==
  /\ put = 0 /\ pending = <<>> /\ blocks = <<>> /\ phase = "write"
  /\ arrived = 0 /\ fetched = 0 /\ held = 0 /\ opened = 0
  /\ spill = <<>> /\ eof = FALSE /\ wanted = 0 /\ page = <<>>
  /\ got = <<>> /\ told = FALSE

\* write: the blocks that are full now, and the rest kept.
PutBytes ==
  /\ phase = "write"
  /\ \E n \in 1..(MaxBytes - put) :
       LET all == pending \o Bytes(put, put + n)
           full == BlockSize * (Len(all) \div BlockSize)
       IN /\ put' = put + n
          /\ blocks' = blocks \o Blocks(all)
          /\ pending' = SubSeq(all, full + 1, Len(all))
  /\ UNCHANGED <<phase, arrived, breadervars>>

\* encrypt_write_with_padding, even when nothing is pending.
FinishBlocks ==
  /\ phase = "write"
  /\ blocks' = Append(blocks, pending \o Padding(BlockSize - Len(pending)))
  /\ pending' = <<>> /\ phase' = "finished"
  /\ UNCHANGED <<put, arrived, breadervars>>

\* What arrives, all of it or a first part; new reads the first block.
OpenReader ==
  /\ phase = "finished"
  /\ arrived' \in 0..(Len(blocks) * BlockSize)
  /\ IF arrived' < BlockSize
     THEN phase' = "failed" /\ UNCHANGED <<fetched, held>>
     ELSE phase' = "open" /\ fetched' = BlockSize /\ held' = 1
  /\ UNCHANGED <<bwritervars, opened, spill, eof, wanted, page, got, told>>

\* The end of a call.
Answer(data) ==
  /\ got' = got \o data
  /\ told' = (data = <<>>)
  /\ page' = <<>> /\ wanted' = 0
Fail(why) ==
  /\ phase' = why /\ page' = <<>> /\ wanted' = 0
  /\ UNCHANGED <<got, told>>

\* read: what remains of the last call goes first.
BeginRead ==
  /\ phase = "open" /\ wanted = 0 /\ ~told
  /\ \E n \in BlockReads :
       LET l == Shorter(Len(spill), n)
           first == SubSeq(spill, 1, l)
       IN /\ spill' = SubSeq(spill, l + 1, Len(spill))
          /\ IF l = n \/ eof
             THEN Answer(first)
             ELSE wanted' = n - l /\ page' = first /\ UNCHANGED <<got, told>>
  /\ UNCHANGED <<bwritervars, phase, arrived, fetched, held, opened, eof>>

\* One turn of the loop of read.
SpaceBlocks_OneMore == (wanted + BlockSize - 1) \div BlockSize + 1   \* mutant
SpaceBlocks == (wanted + BlockSize - 1) \div BlockSize
Cap == Shorter(SpaceBlocks, Batch) * BlockSize
Filled == Shorter(Cap, arrived - fetched)
Fresh == Filled \div BlockSize
AtEof == Filled < Cap
\* The block held and the fresh ones, and those of them opened now.
FirstFresh == fetched \div BlockSize
Staged == <<held>> \o [k \in 1..Fresh |-> FirstFresh + k]
Decrypted == IF AtEof THEN Staged ELSE SubSeq(Staged, 1, Fresh)
Opened(k) ==
  IF Decrypted[k] = opened + k THEN blocks[Decrypted[k]]
                               ELSE [i \in 1..BlockSize |-> Garbage]
\* How many bytes of the last block are data.  A block of data may happen to
\* end like padding; if not, it is refused.
Unpadded(b) ==
  {n \in 0..(BlockSize - 1) :
     0 \in Range(b) => \A k \in 1..BlockSize : b[k] = 0 <=> k > n}
Refusable(b) == 0 \notin Range(b)

Turn(plain) ==
  LET emit == Shorter(Len(plain), wanted)
      whole == page \o SubSeq(plain, 1, emit)
  IN /\ spill' = SubSeq(plain, emit + 1, Len(plain))
     /\ eof' = AtEof
     /\ opened' = opened + Len(Decrypted)
     /\ held' = IF AtEof THEN held ELSE Last(Staged)
     /\ IF emit = wanted \/ AtEof
        THEN Answer(whole)
        ELSE /\ page' = whole /\ wanted' = wanted - emit
             /\ UNCHANGED <<got, told>>

ReadTurn ==
  /\ phase = "open" /\ wanted > 0
  /\ fetched' = fetched + Filled
  /\ LET plain == FlattenSeq([k \in DOMAIN Decrypted |-> Opened(k)])
         last == Opened(Len(Decrypted))
         Refuse == Fail("failed") /\ UNCHANGED <<held, opened, spill, eof>>
     IN IF Filled % BlockSize # 0 THEN Refuse
        ELSE IF ~AtEof THEN Turn(plain) /\ UNCHANGED phase
        ELSE \/ \E n \in Unpadded(last) :
                  /\ Turn(SubSeq(plain, 1, Len(plain) - BlockSize + n))
                  /\ UNCHANGED phase
             \/ Refusable(last) /\ Refuse
  /\ UNCHANGED <<bwritervars, arrived>>

\* read_to_fill reports the error of the source, whatever it had read before.
SourceBreaks ==
  /\ phase = "open" /\ wanted > 0
  /\ Fail("broken")
  /\ UNCHANGED <<bwritervars, arrived, fetched, held, opened, spill, eof>>

CbcNext ==
  \/ PutBytes \/ FinishBlocks \/ OpenReader
  \/ BeginRead \/ ReadTurn \/ SourceBreaks

----------------------------------------------------------------------------
(* Properties                                                              *)

\* Whatever the sizes of the writes and the reads, the reader hands out the
\* beginning of the data, all of it before it says that the data ends, and
\* fails on nothing but its source.  A stream cut short still gives no byte
\* that is not data.  What is left for the next call fits the buffer of one
\* block ("spill is < one block").
BlocksReadBack ==
  /\ got = Bytes(0, Len(got)) /\ Len(got) <= put
  /\ Len(spill) < BlockSize
  /\ arrived = Len(blocks) * BlockSize /\ phase # "write" =>
       /\ phase # "failed"
       /\ told => Len(got) = put
=============================================================================
