----------------------------- MODULE GcmStream -----------------------------
(***************************************************************************)
(* The stream of authenticated segments that encrypts the data of an entry *)
(* (lib/src/cipher/gcm.rs).  GcmEncryptWriter seals full segments while    *)
(* more data follows, and the last one, full or not, when it is finished.  *)
(* GcmDecryptReader reads one byte ahead to know the last segment, and     *)
(* opens each under its number and whether it is the last.                 *)
(*                                                                         *)
(* The k-th byte of the data is the number k.  A sealed byte is the nonce, *)
(* the data of its segment and its place in it; the cipher opens exactly   *)
(* the bytes that were sealed together, under their nonce.  The nonce's    *)
(* prefix and the key, which header and password fix, are one stream's.    *)
(* What is damaged on the way, or never written, is up to Deliver.         *)
(***************************************************************************)
EXTENDS Naturals, SequencesExt

CONSTANTS
  SegmentSize, TagLen,
  U32Max,     \* the largest counter
  MaxData,    \* bound on the data
  ReadSizes   \* the buffer sizes of the reader's caller
ASSUME GcmAssumption ==
  /\ SegmentSize \in Nat \ {0} /\ TagLen \in Nat \ {0}
  /\ U32Max \in Nat /\ MaxData \in Nat /\ ReadSizes \subseteq Nat \ {0}

VARIABLES
  fed,        \* how many bytes of data the writer has taken
  rest,       \* how many are left of the write at work
  buf, counter, sealed,          \* the writer's buffer and counter; its output
  wstate,     \* "open", "finished", "failed", "delivered"
  complete,   \* history: the writer had finished
  intact,     \* history: the stream arrived as it was written
  wire,       \* what the reader's source holds
  drawn,      \* how many bytes of it have been read
  asked,      \* the size of the read at work; 0 when none is
  segment, rcounter, lookahead, plain, taken, done,   \* the reader's
  fuse,       \* why the reader stopped, or "none"
  out,        \* the bytes handed out
  ended       \* the caller was told that the data ends

writervars == <<fed, rest, buf, counter, sealed, wstate, complete>>
readervars == <<asked, segment, rcounter, lookahead, plain, taken, done, fuse,
                out, ended>>
gvars == <<writervars, intact, wire, drawn, readervars>>

Positions(from, to) == [k \in 1..(to - from) |-> from + k]
Least(a, b) == IF a < b THEN a ELSE b

GcmInit ==
  /\ fed = 0 /\ rest = 0 /\ buf = <<>> /\ counter = 0 /\ sealed = <<>>
  /\ wstate = "open" /\ complete = FALSE
  /\ intact = TRUE /\ wire = <<>> /\ drawn = 0
  /\ asked = 0 /\ segment = <<>> /\ rcounter = 0 /\ lookahead = <<>>
  /\ plain = <<>> /\ taken = 0 /\ done = FALSE /\ fuse = "none"
  /\ out = <<>> /\ ended = FALSE

\* segment_nonce; encrypt_inout_detached; decrypt_in_place.
Nonce_WithoutFinal(i, final) == <<i, FALSE>>   \* mutant
Nonce(i, final) == <<i, final>>
Sealed(i, final, data) ==
  [k \in 1..(Len(data) + TagLen) |->
     [nonce |-> Nonce(i, final), data |-> data, at |-> k]]
Damaged == [nonce |-> <<0, FALSE>>, data |-> <<>>, at |-> 0]
Opens(i, final, bytes) == bytes = Sealed(i, final, bytes[1].data)

\* checked_add on the u32 counters of both sides.
CounterFull(i) == i = U32Max

----------------------------------------------------------------------------
(* The writer                                                              *)

WriteCall ==
  /\ wstate = "open" /\ rest = 0
  /\ \E n \in 1..(MaxData - fed) : rest' = n
  /\ UNCHANGED <<fed, buf, counter, sealed, wstate, complete, intact, wire,
                 drawn, readervars>>

\* flush_segment.  A write that fails leaves some first part of the segment.
\* The counter is increased after the segment is out, the last one too.
Flush(data, final) ==
  LET s == Sealed(counter, final, data)
  IN \/ /\ \E n \in 0..Len(s) : sealed' = sealed \o SubSeq(s, 1, n)
        /\ wstate' = "failed" /\ UNCHANGED <<counter, complete>>
     \/ /\ sealed' = sealed \o s
        /\ IF CounterFull(counter)
           THEN wstate' = "failed" /\ UNCHANGED <<counter, complete>>
           ELSE /\ counter' = counter + 1
                /\ complete' = final
                /\ wstate' = IF final THEN "finished" ELSE "open"

\* One turn of the loop of write.  A full buffer waits for a byte that follows.
WriteTurn ==
  /\ wstate = "open" /\ rest > 0
  /\ LET take == Least(SegmentSize - Len(buf), rest)
         filled == buf \o Positions(fed, fed + take)
     IN /\ fed' = fed + take
        /\ rest' = rest - take
        /\ IF Len(filled) = SegmentSize /\ rest' > 0
           THEN buf' = <<>> /\ Flush(filled, FALSE)
           ELSE /\ buf' = filled
                /\ UNCHANGED <<counter, sealed, wstate, complete>>
  /\ UNCHANGED <<intact, wire, drawn, readervars>>

FinishStream ==
  /\ wstate = "open" /\ rest = 0
  /\ Flush(buf, TRUE) /\ buf' = <<>>
  /\ UNCHANGED <<fed, rest, intact, wire, drawn, readervars>>

\* What the reader gets: all of it, or with a stretch missing, doubled or
\* exchanged with the next, a byte changed, or one too many.
Deliveries(s) ==
  LET Cut(i, j) == SubSeq(s, i, j)
      n == Len(s)
      Whole == {SegmentSize + TagLen} \cap 1..(n \div 2)
  IN UNION {
       {Cut(1, r[1] - 1) \o Cut(r[2] + 1, n) : r \in (1..n) \X (1..n)},
       {Cut(1, 2 * k) \o Cut(k + 1, n) : k \in Whole},
       {Cut(k + 1, 2 * k) \o Cut(1, k) \o Cut(2 * k + 1, n) :
          k \in Whole},
       {[s EXCEPT ![i] = Damaged] : i \in 1..n},
       {Append(s, Damaged)}}

Deliver ==
  /\ wstate \in {"finished", "failed"}
  /\ wstate' = "delivered"
  /\ \/ wire' = sealed /\ intact' = TRUE
     \/ wire' \in Deliveries(sealed) \ {sealed} /\ intact' = FALSE
  /\ UNCHANGED <<fed, rest, buf, counter, sealed, complete, drawn, readervars>>

----------------------------------------------------------------------------
(* The reader                                                              *)

Hand(data, from, n) == out' = out \o SubSeq(data, from + 1, from + n)

\* read, with a buffer that holds something.  After a failure it only repeats
\* the failure; at the end it says so again.
ReadBuffered ==
  /\ wstate = "delivered" /\ asked = 0 /\ fuse = "none" /\ taken < Len(plain)
  /\ \E m \in ReadSizes :
       LET n == Least(Len(plain) - taken, m)
       IN Hand(plain, taken, n) /\ taken' = taken + n
  /\ UNCHANGED <<writervars, intact, wire, drawn, asked, segment, rcounter,
                 lookahead, plain, done, fuse, ended>>

ReadEnd ==
  /\ wstate = "delivered" /\ asked = 0 /\ fuse = "none" /\ taken = Len(plain)
  /\ done /\ ~ended
  /\ ended' = TRUE
  /\ UNCHANGED <<writervars, intact, wire, drawn, asked, segment, rcounter,
                 lookahead, plain, taken, done, fuse, out>>

\* refill takes the buffer and read_segment begins with the byte read ahead.
Carried_Lost == <<>>   \* mutant
Carried == lookahead
ReadRefill ==
  /\ wstate = "delivered" /\ asked = 0 /\ fuse = "none" /\ taken = Len(plain)
  /\ ~done
  /\ asked' \in ReadSizes
  /\ plain' = <<>> /\ taken' = 0
  /\ segment' = Carried /\ lookahead' = <<>>
  /\ UNCHANGED <<writervars, intact, wire, drawn, rcounter, done, fuse, out,
                 ended>>

\* One read of the source gives any number of bytes.
Limit == SegmentSize + TagLen
FillSegment ==
  /\ asked > 0 /\ Len(segment) < Limit
  /\ \E n \in 1..Least(Len(wire) - drawn, Limit - Len(segment)) :
       /\ segment' = segment \o SubSeq(wire, drawn + 1, drawn + n)
       /\ drawn' = drawn + n
  /\ UNCHANGED <<writervars, intact, wire, asked, rcounter, lookahead, plain,
                 taken, done, fuse, out, ended>>

SourceFails ==
  /\ asked > 0
  /\ fuse' = "source" /\ asked' = 0 /\ segment' = <<>>
  /\ UNCHANGED <<writervars, intact, wire, drawn, rcounter, lookahead, plain,
                 taken, done, out, ended>>

\* The byte ahead, if there is one, and what refill makes of the segment.
Verdict(final) ==
  IF ~final /\ Len(segment) < Limit THEN "malformed"
  ELSE IF Len(segment) < TagLen
  THEN IF rcounter = 0 THEN "malformed" ELSE "truncation"
  ELSE IF ~Opens(rcounter, final, segment) THEN "authentication"
  ELSE IF ~final /\ CounterFull(rcounter) THEN "malformed"
  ELSE "none"

TakeSegment ==
  LET final == drawn = Len(wire)
      data == IF Verdict(final) = "none" THEN segment[1].data ELSE <<>>
      n == Least(Len(data), asked)
  IN /\ asked > 0 /\ (Len(segment) = Limit \/ final)
     /\ lookahead' = IF final THEN <<>> ELSE <<wire[drawn + 1]>>
     /\ drawn' = IF final THEN drawn ELSE drawn + 1
     /\ fuse' = Verdict(final)
     /\ done' = (fuse' = "none" /\ final)
     /\ rcounter' = IF fuse' = "none" /\ ~final THEN rcounter + 1 ELSE rcounter
     /\ plain' = data /\ taken' = n /\ Hand(data, 0, n)
     /\ ended' = (fuse' = "none" /\ data = <<>>)
     /\ segment' = <<>> /\ asked' = 0
     /\ UNCHANGED <<writervars, intact, wire>>

GcmNext ==
  \/ WriteCall \/ WriteTurn \/ FinishStream \/ Deliver
  \/ ReadBuffered \/ ReadEnd \/ ReadRefill
  \/ FillSegment \/ SourceFails \/ TakeSegment

----------------------------------------------------------------------------
(* Properties                                                              *)

\* Whatever happened to the stream, and wherever the writer had stopped, what
\* the reader hands out is the beginning of the data; and it says that the data
\* ends only when it has handed out all of it.
OnlyTheOriginal ==
  /\ out = Positions(0, Len(out)) /\ Len(out) <= fed
  /\ ended => Len(out) = fed /\ rest = 0

\* A stream that was finished and arrives intact is read to its end, unless its
\* source fails.
IntactIsRead == complete /\ intact => fuse \in {"none", "source"}
=============================================================================
