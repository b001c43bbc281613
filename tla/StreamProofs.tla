---------------------------- MODULE StreamProofs -----------------------------
(***************************************************************************)
(* The two ciphers that keep a state give back what they were given: the    *)
(* bytes handed out are the beginning of the data, whatever the sizes of    *)
(* the writes and of the reads and whatever arrives, and a stream that      *)
(* arrives whole is read to its end.                                        *)
(*                                                                          *)
(* GcmInv: every byte of a segment that the writer has sealed is Genuine,   *)
(* that is, made under a number that stands for one place in the data and,  *)
(* when final, only once the data is complete; what arrives and what the    *)
(* reader holds is drawn from these bytes; what it has opened is the        *)
(* beginning of the data up to the segment it is at; and as long as nothing *)
(* was damaged it stands in the stream where the segment of its counter     *)
(* begins.                                                                  *)
(*                                                                          *)
(* CbcInv: the blocks written hold the data in order and only the last one  *)
(* ends like padding; what the reader has handed out, what lies in the      *)
(* caller's buffer and what is left for the next call are one stretch of    *)
(* the data, which ends where the chain of the cipher stands; the block it  *)
(* holds back is the next one of the chain.                                 *)
(***************************************************************************)
EXTENDS MCEntryLayers, SequenceTheorems, Induction

-----------------------------------------------------------------------------
(* The authenticated stream of segments: GcmStream                         *)

Begin(i) == i * SegmentSize
SealedAt(i) == i * Limit

SealedByte(i, final, data, k) == [nonce |-> <<i, final>>, data |-> data, at |-> k]
Byte == [nonce : Nat \X BOOLEAN, data : Seq(Nat), at : Nat]

\* A byte that the writer has sealed, when it had taken f bytes, had r of the
\* write at work before it and was in state w, and not one that was damaged.
Genuine(x, f, r, w) ==
  \E i \in Nat :
    \/ /\ x.nonce = <<i, FALSE>> /\ x.at # 0
       /\ Begin(i + 1) <= f /\ x.data = Positions(Begin(i), Begin(i + 1))
    \/ /\ x.nonce = <<i, TRUE>> /\ x.at # 0
       /\ Begin(i) <= f /\ x.data = Positions(Begin(i), f)
       /\ w # "open" /\ r = 0
AllGenuine(s, f, r, w) == \A p \in DOMAIN s : s[p].at = 0 \/ Genuine(s[p], f, r, w)

FullSegments(s, n) ==
  \A i \in 0..(n - 1), k \in 1..Limit :
    s[SealedAt(i) + k] = SealedByte(i, FALSE, Positions(Begin(i), Begin(i + 1)), k)
LastSegment(s, n, f) ==
  \A k \in 1..(f - Begin(n) + TagLen) :
    s[SealedAt(n) + k] = SealedByte(n, TRUE, Positions(Begin(n), f), k)
WholeStream(s, n, f) ==
  /\ n \in 0..(U32Max - 1)
  /\ Begin(n) <= f /\ f <= Begin(n) + SegmentSize
  /\ Len(s) = SealedAt(n) + (f - Begin(n)) + TagLen
  /\ FullSegments(s, n) /\ LastSegment(s, n, f)

WriterTypes ==
  /\ fed \in Nat /\ rest \in Nat /\ buf \in Seq(Nat) /\ counter \in 0..U32Max
  /\ sealed \in Seq(Byte) /\ complete \in BOOLEAN
  /\ wstate \in {"open", "finished", "failed", "delivered"}
OpenInv ==
  wstate = "open" =>
    /\ ~complete
    /\ fed = Begin(counter) + Len(buf) /\ Len(buf) <= SegmentSize
    /\ buf = Positions(Begin(counter), fed)
    /\ Len(sealed) = SealedAt(counter) /\ FullSegments(sealed, counter)
SealedInv ==
  /\ \A p \in DOMAIN sealed : Genuine(sealed[p], fed, rest, wstate)
  /\ complete => WholeStream(sealed, counter - 1, fed)
WriterInv == WriterTypes /\ OpenInv /\ SealedInv

Undelivered ==
  /\ intact = TRUE /\ wire = <<>> /\ drawn = 0
  /\ asked = 0 /\ segment = <<>> /\ rcounter = 0 /\ lookahead = <<>>
  /\ plain = <<>> /\ taken = 0 /\ done = FALSE /\ fuse = "none"
  /\ out = <<>> /\ ended = FALSE

\* What is made of bytes of s, or of damaged ones.
DrawnFrom(w, s) ==
  /\ w \in Seq(Byte)
  /\ \A p \in DOMAIN w : w[p].at = 0 \/ \E q \in DOMAIN s : w[p] = s[q]
WireInv ==
  /\ wstate # "delivered" => Undelivered
  /\ wire \in Seq(Byte) /\ intact \in BOOLEAN /\ drawn \in 0..Len(wire)
  /\ AllGenuine(wire, fed, rest, wstate)
  /\ DrawnFrom(segment, wire) /\ DrawnFrom(lookahead, wire)
  /\ wstate = "delivered" /\ intact => wire = sealed

\* How much of the data has been opened.
OpenedBytes == IF done THEN fed ELSE Begin(rcounter)
HandedTypes ==
  /\ out \in Seq(Nat) /\ plain \in Seq(Nat) /\ taken \in 0..Len(plain)
  /\ rcounter \in Nat /\ asked \in Nat /\ done \in BOOLEAN /\ ended \in BOOLEAN
HandedData ==
  /\ OpenedBytes <= fed /\ Len(out) + Len(plain) - taken = OpenedBytes
  /\ \A k \in DOMAIN out : out[k] = k
  /\ \A k \in DOMAIN plain : plain[k] = OpenedBytes - Len(plain) + k
HandedPhase ==
  /\ done => rest = 0
  /\ ended => done /\ taken = Len(plain)
  /\ asked > 0 => wstate = "delivered" /\ ~done /\ fuse = "none" /\ plain = <<>>
HandedInv == HandedTypes /\ HandedData /\ HandedPhase

\* The bytes of the source from where a segment begins that are read already.
Ahead == IF asked > 0 THEN segment ELSE lookahead
AlignedInv ==
  wstate = "delivered" /\ complete /\ intact =>
    /\ fuse \in {"none", "source"}
    /\ fuse = "none" /\ ~done =>
         /\ rcounter <= counter - 1
         /\ Len(Ahead) <= Limit /\ (asked = 0 => Len(Ahead) <= 1)
         /\ drawn = SealedAt(rcounter) + Len(Ahead)
         /\ \A k \in DOMAIN Ahead : Ahead[k] = wire[SealedAt(rcounter) + k]
ReaderInv == WireInv /\ HandedInv /\ AlignedInv
GcmInv == WriterInv /\ ReaderInv

-----------------------------------------------------------------------------
LEMMA Multiples ==
  /\ Limit \in Nat /\ Limit >= 1 /\ Limit >= SegmentSize + 1
  /\ Begin(0) = 0 /\ SealedAt(0) = 0
  /\ \A i \in Nat : /\ Begin(i) \in Nat /\ SealedAt(i) \in Nat
                    /\ Begin(i + 1) = Begin(i) + SegmentSize
                    /\ SealedAt(i + 1) = SealedAt(i) + Limit
<1>1. SegmentSize \in Nat \ {0} /\ TagLen \in Nat \ {0}
  BY GcmAssumption
<1>2. Limit \in Nat /\ Limit >= 1 /\ Limit >= SegmentSize + 1
  BY <1>1 DEF Limit
<1> QED
  BY <1>1, <1>2 DEF Begin, SealedAt

LEMMA LaterSegments ==
  \A i, n \in Nat : i < n => SealedAt(i) + Limit <= SealedAt(n)
<1> SUFFICES ASSUME NEW i \in Nat, NEW n \in Nat, i < n
             PROVE  SealedAt(i) + Limit <= SealedAt(n)
  OBVIOUS
<1>1. Limit \in Nat
  BY Multiples
<1>2. PICK m \in Nat : n = i + 1 + m
  <2>1. n - i - 1 \in Nat /\ n = i + 1 + (n - i - 1)
    OBVIOUS
  <2> QED
    BY <2>1
<1>3. SealedAt(n) = i * Limit + Limit + m * Limit /\ m * Limit >= 0
  BY <1>1, <1>2 DEF SealedAt
<1> QED
  BY <1>1, <1>3 DEF SealedAt

LEMMA PositionsFacts ==
  ASSUME NEW from \in Nat, NEW to \in Nat, from <= to
  PROVE  /\ Positions(from, to) \in Seq(Nat)
         /\ Len(Positions(from, to)) = to - from
         /\ \A k \in 1..(to - from) : Positions(from, to)[k] = from + k
  BY DEF Positions

LEMMA SealedFacts ==
  ASSUME NEW i \in Nat, NEW final \in BOOLEAN, NEW data \in Seq(Nat)
  PROVE  /\ Sealed(i, final, data) \in Seq(Byte)
         /\ Len(Sealed(i, final, data)) = Len(data) + TagLen
         /\ \A k \in 1..(Len(data) + TagLen) :
              Sealed(i, final, data)[k] = SealedByte(i, final, data, k)
<1> DEFINE n == Len(data) + TagLen
<1>1. n \in Nat
  BY GcmAssumption
<1>2. \A k \in 1..n : SealedByte(i, final, data, k) \in Byte
  BY DEF SealedByte, Byte
<1>3. Sealed(i, final, data) = [k \in 1..n |-> SealedByte(i, final, data, k)]
  BY DEF Sealed, Nonce, SealedByte
<1> HIDE DEF n
<1>4. Sealed(i, final, data) \in Seq(Byte) /\ Len(Sealed(i, final, data)) = n
  BY <1>1, <1>2, <1>3
<1>5. \A k \in 1..n : Sealed(i, final, data)[k] = SealedByte(i, final, data, k)
  BY <1>3
<1> QED
  BY <1>4, <1>5 DEF n

LEMMA FieldsOfByte ==
  \A i, final, data, k : /\ SealedByte(i, final, data, k).nonce = <<i, final>>
                         /\ SealedByte(i, final, data, k).data = data
                         /\ SealedByte(i, final, data, k).at = k
  BY DEF SealedByte

\* What sealing a segment does, whether the write of it fails or not.
LEMMA FlushEffect ==
  ASSUME WriterTypes, NEW data \in Seq(Nat), NEW final \in BOOLEAN, Flush(data, final)
  PROVE  /\ sealed' \in Seq(Byte) /\ counter' \in 0..U32Max /\ complete' \in BOOLEAN
         /\ wstate' \in {"open", "finished", "failed"}
         /\ \A p \in DOMAIN sealed' :
              \/ p \in DOMAIN sealed /\ sealed'[p] = sealed[p]
              \/ \E k \in Nat \ {0} : sealed'[p] = SealedByte(counter, final, data, k)
         /\ wstate' = "failed" => complete' = complete
         /\ wstate' # "failed" =>
              /\ complete' = final /\ wstate' = IF final THEN "finished" ELSE "open"
              /\ counter' = counter + 1
              /\ Len(sealed') = Len(sealed) + Len(data) + TagLen
              /\ \A p \in DOMAIN sealed : sealed'[p] = sealed[p]
              /\ \A k \in 1..(Len(data) + TagLen) :
                   sealed'[Len(sealed) + k] = SealedByte(counter, final, data, k)
<1> DEFINE s == Sealed(counter, final, data)
<1>1. counter \in Nat /\ counter \in 0..U32Max /\ U32Max \in Nat /\ sealed \in Seq(Byte)
      /\ complete \in BOOLEAN /\ TagLen \in Nat
  BY GcmAssumption DEF WriterTypes
<1>2. /\ s \in Seq(Byte) /\ Len(s) = Len(data) + TagLen
      /\ \A k \in 1..(Len(data) + TagLen) : s[k] = SealedByte(counter, final, data, k)
  BY <1>1, SealedFacts
<1>3. \/ /\ \E n \in 0..Len(s) : sealed' = sealed \o SubSeq(s, 1, n)
         /\ wstate' = "failed" /\ UNCHANGED <<counter, complete>>
      \/ /\ sealed' = sealed \o s
         /\ wstate' = "failed" /\ UNCHANGED <<counter, complete>>
      \/ /\ sealed' = sealed \o s /\ ~CounterFull(counter)
         /\ counter' = counter + 1 /\ complete' = final
         /\ wstate' = IF final THEN "finished" ELSE "open"
  BY SMTT(30) DEF Flush
<1> HIDE DEF s
<1>4. \E n \in 0..Len(s) : /\ sealed' = sealed \o SubSeq(s, 1, n)
                           /\ wstate' # "failed" => n = Len(s)
  <2>1. s = SubSeq(s, 1, Len(s)) /\ Len(s) \in 0..Len(s)
    BY <1>2
  <2> QED
    BY <1>3, <2>1
<1>5. PICK n \in 0..Len(s) : /\ sealed' = sealed \o SubSeq(s, 1, n)
                             /\ wstate' # "failed" => n = Len(s)
  BY <1>4
<1>6. /\ SubSeq(s, 1, n) \in Seq(Byte) /\ Len(SubSeq(s, 1, n)) = n
      /\ \A k \in 1..n : SubSeq(s, 1, n)[k] = s[k]
  BY <1>2, <1>5
<1>7. /\ sealed' \in Seq(Byte) /\ Len(sealed') = Len(sealed) + n
      /\ \A p \in DOMAIN sealed : sealed'[p] = sealed[p]
      /\ \A k \in 1..n : sealed'[Len(sealed) + k] = s[k]
  BY <1>1, <1>5, <1>6
<1>8. ASSUME NEW p \in DOMAIN sealed', p \notin DOMAIN sealed
      PROVE  \E k \in Nat \ {0} : sealed'[p] = SealedByte(counter, final, data, k)
  <2>1. p - Len(sealed) \in 1..n /\ p = Len(sealed) + (p - Len(sealed))
    BY <1>1, <1>7, <1>8
  <2>2. n <= Len(data) + TagLen
    BY <1>2, <1>5
  <2> QED
    BY <1>2, <1>7, <2>1, <2>2
<1>9. /\ counter' \in 0..U32Max /\ complete' \in BOOLEAN
      /\ wstate' \in {"open", "finished", "failed"}
  BY <1>1, <1>3 DEF CounterFull
<1>10. wstate' # "failed" =>
         /\ complete' = final /\ wstate' = IF final THEN "finished" ELSE "open"
         /\ counter' = counter + 1
  BY <1>3
<1>11. wstate' = "failed" => complete' = complete
  BY <1>3
<1>12. wstate' # "failed" =>
         /\ Len(sealed') = Len(sealed) + Len(data) + TagLen
         /\ \A k \in 1..(Len(data) + TagLen) :
              sealed'[Len(sealed) + k] = SealedByte(counter, final, data, k)
  <2> HAVE wstate' # "failed"
  <2>1. n = Len(data) + TagLen
    BY <1>2, <1>5
  <2>2. Len(sealed') = Len(sealed) + Len(data) + TagLen
    BY <1>1, <1>7, <2>1
  <2>3. ASSUME NEW k \in 1..(Len(data) + TagLen)
        PROVE  sealed'[Len(sealed) + k] = SealedByte(counter, final, data, k)
    BY <1>2, <1>7, <2>1
  <2> QED
    BY <2>2, <2>3
<1> QED
  BY <1>7, <1>8, <1>9, <1>10, <1>11, <1>12

\* What is genuine stays so when more data follows, as long as no last segment
\* has been sealed.
LEMMA GenuineStays ==
  ASSUME NEW x, NEW f \in Nat, NEW r, NEW w, Genuine(x, f, r, w),
         NEW g \in Nat, f <= g, NEW q, NEW v,
         (w # "open" /\ r = 0) => g = f /\ q = 0 /\ v # "open"
  PROVE  Genuine(x, g, q, v)
<1>1. PICK i \in Nat :
        \/ /\ x.nonce = <<i, FALSE>> /\ x.at # 0
           /\ Begin(i + 1) <= f /\ x.data = Positions(Begin(i), Begin(i + 1))
        \/ /\ x.nonce = <<i, TRUE>> /\ x.at # 0
           /\ Begin(i) <= f /\ x.data = Positions(Begin(i), f)
           /\ w # "open" /\ r = 0
  BY DEF Genuine
<1>2. i + 1 \in Nat /\ Begin(i + 1) \in Nat
  <2>1. i + 1 \in Nat
    OBVIOUS
  <2> QED
    BY <2>1, Multiples
<1>3. Begin(i + 1) <= f => Begin(i + 1) <= g
  BY <1>2
<1> QED
  BY <1>1, <1>3 DEF Genuine

LEMMA InitWriter == GcmInit => WriterInv
<1> SUFFICES ASSUME GcmInit PROVE WriterInv
  OBVIOUS
<1>0. /\ fed = 0 /\ rest = 0 /\ buf = <<>> /\ counter = 0 /\ sealed = <<>>
      /\ wstate = "open" /\ complete = FALSE
  BY DEF GcmInit
<1>1. WriterTypes
  <2>1. 0 \in 0..U32Max
    BY GcmAssumption
  <2>2. <<>> \in Seq(Nat) /\ <<>> \in Seq(Byte)
    OBVIOUS
  <2> QED
    BY <1>0, <2>1, <2>2 DEF WriterTypes
<1>2. Positions(0, 0) = <<>>
  BY DEF Positions
<1>3. OpenInv
  BY <1>0, <1>2, Multiples, GcmAssumption DEF OpenInv, FullSegments
<1>4. SealedInv
  BY <1>0 DEF SealedInv
<1> QED
  BY <1>1, <1>3, <1>4 DEF WriterInv

LEMMA WriterUnchanged ==
  ASSUME WriterInv, UNCHANGED writervars
  PROVE  WriterInv'
<1>1. UNCHANGED <<fed, rest, buf, counter, sealed, wstate, complete>>
  BY DEF writervars
<1> QED
  BY <1>1 DEF WriterInv, WriterTypes, OpenInv, SealedInv

LEMMA WriterCall ==
  ASSUME WriterInv, WriteCall
  PROVE  WriterInv'
<1>1. /\ wstate = "open" /\ rest = 0 /\ rest' \in Nat
      /\ UNCHANGED <<fed, buf, counter, sealed, wstate, complete>>
  BY DEF WriteCall
<1>2. WriterTypes /\ OpenInv /\ SealedInv
  BY DEF WriterInv
<1>3. WriterTypes'
  BY <1>1, <1>2 DEF WriterTypes
<1>4. OpenInv'
  BY <1>1, <1>2 DEF OpenInv
<1>5. \A p \in DOMAIN sealed : Genuine(sealed[p], fed, rest, wstate)
  BY <1>2 DEF SealedInv
<1>6. \A p \in DOMAIN sealed : Genuine(sealed[p], fed, rest', wstate)
  BY <1>1, <1>5 DEF Genuine
<1>7. SealedInv'
  BY <1>1, <1>2, <1>6 DEF SealedInv, OpenInv
<1> QED
  BY <1>3, <1>4, <1>7 DEF WriterInv

LEMMA WriterDelivers ==
  ASSUME WriterInv, Deliver
  PROVE  WriterInv'
<1>1. /\ wstate \in {"finished", "failed"} /\ wstate' = "delivered"
      /\ UNCHANGED <<fed, rest, buf, counter, sealed, complete>>
  BY DEF Deliver
<1>2. WriterTypes /\ OpenInv /\ SealedInv
  BY DEF WriterInv
<1>3. WriterTypes'
  BY <1>1, <1>2 DEF WriterTypes
<1>4. OpenInv'
  BY <1>1 DEF OpenInv
<1>5. \A p \in DOMAIN sealed : Genuine(sealed[p], fed, rest, wstate)
  BY <1>2 DEF SealedInv
<1>6. \A p \in DOMAIN sealed : Genuine(sealed[p], fed, rest, wstate')
  BY <1>1, <1>5 DEF Genuine
<1>7. SealedInv'
  BY <1>1, <1>2, <1>6 DEF SealedInv
<1> QED
  BY <1>3, <1>4, <1>7 DEF WriterInv

\* The segments written so far stay where they are.
LEMMA SegmentsStay ==
  ASSUME NEW n \in Nat, NEW s, NEW t, s \in Seq(Byte), SealedAt(n) <= Len(s), FullSegments(s, n),
         \A p \in DOMAIN s : t[p] = s[p]
  PROVE  FullSegments(t, n)
<1> SUFFICES ASSUME NEW i \in 0..(n - 1), NEW k \in 1..Limit
             PROVE  t[SealedAt(i) + k] =
                      SealedByte(i, FALSE, Positions(Begin(i), Begin(i + 1)), k)
  BY DEF FullSegments
<1>0. i \in Nat /\ i < n
  OBVIOUS
<1>1. Limit \in Nat /\ SealedAt(i) \in Nat /\ SealedAt(n) \in Nat
  BY <1>0, Multiples
<1>2. SealedAt(i) + Limit <= SealedAt(n)
  BY <1>0, LaterSegments
<1>3. SealedAt(i) + k \in DOMAIN s
  BY <1>0, <1>1, <1>2
<1>4. s[SealedAt(i) + k] = SealedByte(i, FALSE, Positions(Begin(i), Begin(i + 1)), k)
  BY DEF FullSegments
<1> QED
  BY <1>3, <1>4

LEMMA SegmentsGrow ==
  ASSUME NEW n \in Nat, NEW t, FullSegments(t, n),
         \A k \in 1..Limit : t[SealedAt(n) + k] =
           SealedByte(n, FALSE, Positions(Begin(n), Begin(n + 1)), k)
  PROVE  FullSegments(t, n + 1)
<1>1. ASSUME NEW i \in 0..n, NEW k \in 1..Limit
      PROVE  t[SealedAt(i) + k] = SealedByte(i, FALSE, Positions(Begin(i), Begin(i + 1)), k)
  <2>1. CASE i = n
    BY <2>1
  <2>2. CASE i # n
    <3>1. i \in 0..(n - 1)
      BY <2>2
    <3> QED
      BY <3>1 DEF FullSegments
  <2> QED
    BY <2>1, <2>2
<1>2. 0..((n + 1) - 1) = 0..n
  OBVIOUS
<1>3. \A i \in 0..((n + 1) - 1), k \in 1..Limit :
        t[SealedAt(i) + k] = SealedByte(i, FALSE, Positions(Begin(i), Begin(i + 1)), k)
  BY <1>1, <1>2
<1> QED
  BY <1>3 DEF FullSegments

LEMMA SealedFullGenuine ==
  ASSUME NEW i \in Nat, NEW data, NEW k \in Nat \ {0}, NEW f, NEW r, NEW w,
         Begin(i + 1) <= f, data = Positions(Begin(i), Begin(i + 1))
  PROVE  Genuine(SealedByte(i, FALSE, data, k), f, r, w)
<1> DEFINE x == SealedByte(i, FALSE, data, k)
<1>1. x.nonce = <<i, FALSE>> /\ x.data = data /\ x.at = k
  BY DEF SealedByte
<1>0. k # 0
  OBVIOUS
<1> HIDE DEF x
<1>2. Genuine(x, f, r, w)
  BY <1>0, <1>1 DEF Genuine
<1> QED
  BY <1>2 DEF x

LEMMA SealedLastGenuine ==
  ASSUME NEW i \in Nat, NEW data, NEW k \in Nat \ {0}, NEW f, NEW r, NEW w,
         Begin(i) <= f, data = Positions(Begin(i), f), w # "open", r = 0
  PROVE  Genuine(SealedByte(i, TRUE, data, k), f, r, w)
<1> DEFINE x == SealedByte(i, TRUE, data, k)
<1>1. x.nonce = <<i, TRUE>> /\ x.data = data /\ x.at = k
  BY DEF SealedByte
<1>0. k # 0
  OBVIOUS
<1> HIDE DEF x
<1>2. Genuine(x, f, r, w)
  BY <1>0, <1>1 DEF Genuine
<1> QED
  BY <1>2 DEF x

\* A segment is sealed that goes on where the last one ended.
LEMMA WriterSealsFull ==
  ASSUME WriterInv, wstate = "open", NEW data \in Seq(Nat), Flush(data, FALSE),
         buf' = <<>>, rest' \in Nat, fed' = Begin(counter) + SegmentSize,
         fed <= fed', Len(data) = SegmentSize,
         data = Positions(Begin(counter), fed')
  PROVE  WriterInv'
<1>1. WriterTypes /\ OpenInv /\ SealedInv
  BY DEF WriterInv
<1>2. /\ counter \in Nat /\ counter + 1 \in Nat /\ sealed \in Seq(Byte) /\ fed \in Nat
      /\ Begin(counter) \in Nat /\ SealedAt(counter) \in Nat
      /\ Begin(counter + 1) = Begin(counter) + SegmentSize
      /\ SealedAt(counter + 1) = SealedAt(counter) + Limit
  BY <1>1, Multiples DEF WriterTypes
<1>3. SegmentSize \in Nat /\ TagLen \in Nat /\ Limit = SegmentSize + TagLen
  BY GcmAssumption DEF Limit
<1>4. /\ ~complete /\ Len(sealed) = SealedAt(counter) /\ FullSegments(sealed, counter)
  BY <1>1 DEF OpenInv
<1>5. /\ sealed' \in Seq(Byte) /\ counter' \in 0..U32Max /\ complete' \in BOOLEAN
      /\ wstate' \in {"open", "finished", "failed"}
      /\ \A p \in DOMAIN sealed' :
           \/ p \in DOMAIN sealed /\ sealed'[p] = sealed[p]
           \/ \E k \in Nat \ {0} : sealed'[p] = SealedByte(counter, FALSE, data, k)
      /\ wstate' = "failed" => complete' = complete
  BY <1>1, FlushEffect
<1>6. wstate' # "failed" =>
           /\ complete' = FALSE /\ counter' = counter + 1
           /\ Len(sealed') = Len(sealed) + Len(data) + TagLen
           /\ \A p \in DOMAIN sealed : sealed'[p] = sealed[p]
           /\ \A k \in 1..(Len(data) + TagLen) :
                sealed'[Len(sealed) + k] = SealedByte(counter, FALSE, data, k)
  BY <1>1, FlushEffect
<1>7. fed' = Begin(counter + 1) /\ fed' \in Nat
  BY <1>2, <1>3
<1>8. WriterTypes'
  <2>1. <<>> \in Seq(Nat)
    OBVIOUS
  <2> QED
    BY <1>5, <1>7, <2>1 DEF WriterTypes
<1>9. ~complete'
  BY <1>4, <1>5, <1>6
<1>10. OpenInv'
  <2> SUFFICES ASSUME wstate' = "open" PROVE OpenInv'
    BY DEF OpenInv
  <2>1. /\ counter' = counter + 1
        /\ Len(sealed') = Len(sealed) + Len(data) + TagLen
        /\ \A p \in DOMAIN sealed : sealed'[p] = sealed[p]
        /\ \A k \in 1..(Len(data) + TagLen) :
                sealed'[Len(sealed) + k] = SealedByte(counter, FALSE, data, k)
    BY <1>6
  <2>2. Positions(fed', fed') = <<>> /\ Len(<<>>) = 0
    BY <1>7 DEF Positions
  <2>3. Len(sealed') = SealedAt(counter + 1)
    BY <1>2, <1>3, <1>4, <2>1
  <2>4. FullSegments(sealed', counter)
    <3>1. SealedAt(counter) <= Len(sealed)
      BY <1>2, <1>4
    <3> QED
      BY <1>2, <1>4, <2>1, <3>1, SegmentsStay
  <2>5. FullSegments(sealed', counter + 1)
    <3>1. ASSUME NEW k \in 1..Limit
          PROVE  sealed'[SealedAt(counter) + k] =
                   SealedByte(counter, FALSE, Positions(Begin(counter), Begin(counter + 1)), k)
      <4>1. k \in 1..(Len(data) + TagLen)
        BY <1>3
      <4>2. sealed'[Len(sealed) + k] = SealedByte(counter, FALSE, data, k)
        BY <2>1, <4>1
      <4> QED
        BY <1>4, <1>7, <4>2
    <3> QED
      BY <1>2, <2>4, <3>1, SegmentsGrow
  <2>6. FullSegments(sealed', counter')
    BY <2>1, <2>5
  <2>8. /\ fed' = Begin(counter') + Len(buf') /\ Len(buf') <= SegmentSize
        /\ buf' = Positions(Begin(counter'), fed')
        /\ Len(sealed') = SealedAt(counter')
    BY <1>3, <1>7, <2>1, <2>2, <2>3
  <2> QED
    BY <1>9, <2>6, <2>8 DEF OpenInv
<1>11. \A p \in DOMAIN sealed' : Genuine(sealed'[p], fed', rest', wstate')
  <2> SUFFICES ASSUME NEW p \in DOMAIN sealed'
               PROVE  Genuine(sealed'[p], fed', rest', wstate')
    OBVIOUS
  <2>1. CASE p \in DOMAIN sealed /\ sealed'[p] = sealed[p]
    <3>1. Genuine(sealed[p], fed, rest, wstate)
      BY <1>1, <2>1 DEF SealedInv
    <3> QED
      BY <1>2, <1>7, <2>1, <3>1, GenuineStays
  <2>2. CASE \E k \in Nat \ {0} : sealed'[p] = SealedByte(counter, FALSE, data, k)
    <3>1. PICK k \in Nat \ {0} : sealed'[p] = SealedByte(counter, FALSE, data, k)
      BY <2>2
    <3>2. Begin(counter + 1) <= fed' /\ data = Positions(Begin(counter), Begin(counter + 1))
      BY <1>2, <1>7
    <3> QED
      BY <1>2, <3>1, <3>2, SealedFullGenuine
  <2> QED
    BY <1>5, <2>1, <2>2
<1>12. SealedInv'
  BY <1>9, <1>11 DEF SealedInv
<1> QED
  BY <1>8, <1>10, <1>12 DEF WriterInv

\* The last segment is sealed.
LEMMA WriterSealsLast ==
  ASSUME WriterInv, wstate = "open", rest = 0, Flush(buf, TRUE), buf' = <<>>,
         UNCHANGED <<fed, rest>>
  PROVE  WriterInv'
<1>1. WriterTypes /\ OpenInv /\ SealedInv
  BY DEF WriterInv
<1>2. /\ counter \in Nat /\ sealed \in Seq(Byte) /\ fed \in Nat /\ buf \in Seq(Nat)
      /\ Begin(counter) \in Nat /\ SealedAt(counter) \in Nat
      /\ counter \in 0..U32Max /\ U32Max \in Nat
  <2>1. counter \in 0..U32Max /\ U32Max \in Nat /\ counter \in Nat
    BY <1>1, GcmAssumption DEF WriterTypes
  <2> QED
    BY <1>1, <2>1, Multiples DEF WriterTypes
<1>3. SegmentSize \in Nat /\ TagLen \in Nat
  BY GcmAssumption
<1>4. /\ ~complete /\ Len(sealed) = SealedAt(counter) /\ FullSegments(sealed, counter)
      /\ fed = Begin(counter) + Len(buf) /\ Len(buf) <= SegmentSize
      /\ buf = Positions(Begin(counter), fed)
  BY <1>1 DEF OpenInv
<1>5. /\ sealed' \in Seq(Byte) /\ counter' \in 0..U32Max /\ complete' \in BOOLEAN
      /\ wstate' \in {"open", "finished", "failed"}
      /\ \A p \in DOMAIN sealed' :
           \/ p \in DOMAIN sealed /\ sealed'[p] = sealed[p]
           \/ \E k \in Nat \ {0} : sealed'[p] = SealedByte(counter, TRUE, buf, k)
      /\ wstate' = "failed" => complete' = complete
  BY <1>1, <1>2, FlushEffect
<1>6. wstate' # "failed" =>
           /\ wstate' = "finished" /\ counter' = counter + 1
           /\ Len(sealed') = Len(sealed) + Len(buf) + TagLen
           /\ \A p \in DOMAIN sealed : sealed'[p] = sealed[p]
           /\ \A k \in 1..(Len(buf) + TagLen) :
                sealed'[Len(sealed) + k] = SealedByte(counter, TRUE, buf, k)
  BY <1>1, <1>2, FlushEffect
<1>7. WriterTypes'
  <2>1. <<>> \in Seq(Nat)
    OBVIOUS
  <2> QED
    BY <1>1, <1>5, <2>1 DEF WriterTypes
<1>8. wstate' # "open"
  BY <1>5, <1>6
<1>9. OpenInv'
  BY <1>8 DEF OpenInv
<1>10. \A p \in DOMAIN sealed' : Genuine(sealed'[p], fed', rest', wstate')
  <2> SUFFICES ASSUME NEW p \in DOMAIN sealed'
               PROVE  Genuine(sealed'[p], fed', rest', wstate')
    OBVIOUS
  <2>1. CASE p \in DOMAIN sealed /\ sealed'[p] = sealed[p]
    <3>1. Genuine(sealed[p], fed, rest, wstate)
      BY <1>1, <2>1 DEF SealedInv
    <3> QED
      BY <1>2, <2>1, <3>1, GenuineStays
  <2>2. CASE \E k \in Nat \ {0} : sealed'[p] = SealedByte(counter, TRUE, buf, k)
    <3>1. PICK k \in Nat \ {0} : sealed'[p] = SealedByte(counter, TRUE, buf, k)
      BY <2>2
    <3>2. Begin(counter) <= fed' /\ buf = Positions(Begin(counter), fed') /\ rest' = 0
      BY <1>2, <1>4
    <3> QED
      BY <1>2, <1>8, <3>1, <3>2, SealedLastGenuine
  <2> QED
    BY <1>5, <2>1, <2>2
<1>11. ASSUME complete' PROVE WholeStream(sealed', counter' - 1, fed')
  <2>1. wstate' # "failed"
    BY <1>4, <1>5, <1>11
  <2>2. /\ counter' = counter + 1
        /\ Len(sealed') = Len(sealed) + Len(buf) + TagLen
        /\ \A p \in DOMAIN sealed : sealed'[p] = sealed[p]
        /\ \A k \in 1..(Len(buf) + TagLen) :
             sealed'[Len(sealed) + k] = SealedByte(counter, TRUE, buf, k)
    BY <1>6, <2>1
  <2>3. counter' - 1 = counter /\ counter \in 0..(U32Max - 1)
    BY <1>2, <1>5, <2>2
  <2>4. FullSegments(sealed', counter)
    <3>1. SealedAt(counter) <= Len(sealed)
      BY <1>2, <1>4
    <3> QED
      BY <1>2, <1>4, <2>2, <3>1, SegmentsStay
  <2>5. LastSegment(sealed', counter, fed)
    <3>1. fed - Begin(counter) = Len(buf)
      BY <1>2, <1>4
    <3> QED
      BY <1>4, <2>2, <3>1 DEF LastSegment
  <2>6. /\ Begin(counter) <= fed /\ fed <= Begin(counter) + SegmentSize
        /\ Len(sealed') = SealedAt(counter) + (fed - Begin(counter)) + TagLen
    BY <1>2, <1>3, <1>4, <2>2, SMTT(30)
  <2> QED
    BY <2>3, <2>4, <2>5, <2>6 DEF WholeStream
<1>12. SealedInv'
  BY <1>10, <1>11 DEF SealedInv
<1> QED
  BY <1>7, <1>9, <1>12 DEF WriterInv

LEMMA PositionsJoin ==
  ASSUME NEW from \in Nat, NEW mid \in Nat, NEW to \in Nat, from <= mid, mid <= to
  PROVE  Positions(from, mid) \o Positions(mid, to) = Positions(from, to)
<1> DEFINE a == Positions(from, mid)
           b == Positions(mid, to)
           c == Positions(from, to)
<1>1. /\ a \in Seq(Nat) /\ Len(a) = mid - from
      /\ \A k \in 1..(mid - from) : a[k] = from + k
  BY PositionsFacts
<1>2. /\ b \in Seq(Nat) /\ Len(b) = to - mid
      /\ \A k \in 1..(to - mid) : b[k] = mid + k
  BY PositionsFacts
<1>3. /\ c \in Seq(Nat) /\ Len(c) = to - from
      /\ \A k \in 1..(to - from) : c[k] = from + k
  <2>1. from <= to
    OBVIOUS
  <2> QED
    BY <2>1, PositionsFacts
<1> HIDE DEF a, b, c
<1>4. a \in Seq(Nat) /\ b \in Seq(Nat) /\ c \in Seq(Nat)
  BY <1>1, <1>2, <1>3
<1>5. /\ a \o b \in Seq(Nat) /\ Len(a \o b) = Len(a) + Len(b)
      /\ \A k \in 1..(Len(a) + Len(b)) :
           (a \o b)[k] = IF k <= Len(a) THEN a[k] ELSE b[k - Len(a)]
  BY <1>4, ConcatProperties
<1>6. Len(a) + Len(b) = Len(c) /\ Len(a) \in Nat /\ Len(b) \in Nat
  BY <1>1, <1>2, <1>3
<1>7. ASSUME NEW k \in 1..Len(c) PROVE (a \o b)[k] = c[k]
  <2>1. (a \o b)[k] = IF k <= Len(a) THEN a[k] ELSE b[k - Len(a)]
    BY <1>5, <1>6
  <2>2. CASE k <= Len(a)
    <3>1. k \in 1..(mid - from) /\ k \in 1..(to - from)
      BY <1>1, <1>3, <1>6, <2>2
    <3> QED
      BY <1>1, <1>3, <2>1, <2>2, <3>1
  <2>3. CASE ~(k <= Len(a))
    <3>1. k - Len(a) \in 1..(to - mid) /\ k \in 1..(to - from) /\ k - Len(a) = k - (mid - from)
      BY <1>1, <1>2, <1>3, <1>6, <2>3
    <3>2. b[k - Len(a)] = mid + (k - (mid - from)) /\ c[k] = from + k
      BY <1>2, <1>3, <3>1
    <3>3. k \in Nat
      BY <3>1
    <3>4. mid + (k - (mid - from)) = from + k
      BY <3>3
    <3> QED
      BY <2>1, <2>3, <3>2, <3>4
  <2> QED
    BY <2>2, <2>3
<1>8. a \o b = c
  BY <1>4, <1>5, <1>6, <1>7, SeqEqual
<1> QED
  BY <1>8 DEF a, b, c

LEMMA LeastFacts ==
  ASSUME NEW a \in Nat, NEW b \in Nat
  PROVE  Least(a, b) \in Nat /\ Least(a, b) <= a /\ Least(a, b) <= b
  BY DEF Least

LEMMA WriterTakes ==
  ASSUME WriterInv, WriteTurn
  PROVE  WriterInv'
<1>1. WriterTypes /\ OpenInv /\ SealedInv
  BY DEF WriterInv
<1> DEFINE take == Least(SegmentSize - Len(buf), rest)
           filled == buf \o Positions(fed, fed + take)
<1>2. /\ wstate = "open" /\ rest > 0 /\ fed' = fed + take /\ rest' = rest - take
      /\ \/ /\ Len(filled) = SegmentSize /\ rest' > 0
            /\ buf' = <<>> /\ Flush(filled, FALSE)
         \/ /\ ~(Len(filled) = SegmentSize /\ rest' > 0)
            /\ buf' = filled /\ UNCHANGED <<counter, sealed, wstate, complete>>
  BY DEF WriteTurn
<1>3. /\ fed \in Nat /\ rest \in Nat /\ counter \in Nat /\ buf \in Seq(Nat)
      /\ SegmentSize \in Nat /\ Begin(counter) \in Nat
  <2>1. counter \in Nat
    BY <1>1, GcmAssumption DEF WriterTypes
  <2> QED
    BY <1>1, <2>1, Multiples, GcmAssumption DEF WriterTypes
<1>4. /\ fed = Begin(counter) + Len(buf) /\ Len(buf) <= SegmentSize
      /\ buf = Positions(Begin(counter), fed)
  BY <1>1, <1>2 DEF OpenInv
<1>a. Len(buf) \in Nat
  BY <1>3
<1>5. take \in Nat /\ take <= SegmentSize - Len(buf) /\ take <= rest
  <2>1. SegmentSize - Len(buf) \in Nat
    BY <1>3, <1>4, <1>a
  <2> QED
    BY <1>3, <2>1, LeastFacts
<1> HIDE DEF take
<1>6. fed' \in Nat /\ rest' \in Nat /\ fed <= fed' /\ Begin(counter) <= fed
  BY <1>2, <1>3, <1>4, <1>5, <1>a, SMTT(30)
<1>7. filled = Positions(Begin(counter), fed')
  <2>1. Positions(Begin(counter), fed) \o Positions(fed, fed') = Positions(Begin(counter), fed')
    BY <1>3, <1>6, PositionsJoin
  <2> QED
    BY <1>2, <1>4, <2>1
<1> HIDE DEF filled
<1>8. /\ filled \in Seq(Nat) /\ fed' = Begin(counter) + Len(filled)
      /\ Len(filled) <= SegmentSize
  <2>1. Begin(counter) <= fed'
    BY <1>3, <1>6
  <2>2. filled \in Seq(Nat) /\ Len(filled) = fed' - Begin(counter)
    BY <1>3, <1>6, <1>7, <2>1, PositionsFacts
  <2>3. fed' = Begin(counter) + Len(filled)
    BY <1>3, <1>6, <2>2
  <2>4. fed' - Begin(counter) <= SegmentSize
    BY <1>2, <1>3, <1>4, <1>5, <1>a, SMTT(30)
  <2> QED
    BY <2>2, <2>3, <2>4
<1>9. CASE /\ Len(filled) = SegmentSize /\ rest' > 0
           /\ buf' = <<>> /\ Flush(filled, FALSE)
  <2>1. fed' = Begin(counter) + SegmentSize
    BY <1>8, <1>9
  <2> QED
    BY <1>2, <1>6, <1>7, <1>8, <1>9, <2>1, WriterSealsFull
<1>10. CASE buf' = filled /\ UNCHANGED <<counter, sealed, wstate, complete>>
  <2>1. WriterTypes'
    BY <1>1, <1>6, <1>8, <1>10 DEF WriterTypes
  <2>2. OpenInv'
    BY <1>1, <1>2, <1>7, <1>8, <1>10 DEF OpenInv
  <2>3. \A p \in DOMAIN sealed : Genuine(sealed[p], fed', rest', wstate)
    <3> SUFFICES ASSUME NEW p \in DOMAIN sealed
                 PROVE  Genuine(sealed[p], fed', rest', wstate)
      OBVIOUS
    <3>1. Genuine(sealed[p], fed, rest, wstate)
      BY <1>1 DEF SealedInv
    <3> QED
      BY <1>2, <1>3, <1>6, <3>1, GenuineStays
  <2>4. SealedInv'
    BY <1>1, <1>2, <1>10, <2>3 DEF SealedInv, OpenInv
  <2> QED
    BY <2>1, <2>2, <2>4 DEF WriterInv
<1> QED
  BY <1>2, <1>9, <1>10

\* Each step keeps what holds of the writer.
LEMMA WriterStep ==
  ASSUME WriterInv, GcmNext
  PROVE  WriterInv'
<1>1. CASE WriteCall
  BY <1>1, WriterCall
<1>2. CASE WriteTurn
  BY <1>2, WriterTakes
<1>3. CASE FinishStream
  <2>1. /\ wstate = "open" /\ rest = 0 /\ Flush(buf, TRUE) /\ buf' = <<>>
        /\ UNCHANGED <<fed, rest>>
    BY <1>3 DEF FinishStream
  <2> QED
    BY <2>1, WriterSealsLast
<1>4. CASE Deliver
  BY <1>4, WriterDelivers
<1>5. CASE ReadBuffered \/ ReadEnd \/ ReadRefill \/ FillSegment \/ SourceFails \/ TakeSegment
  <2>1. UNCHANGED writervars
    BY <1>5 DEF ReadBuffered, ReadEnd, ReadRefill, FillSegment, SourceFails, TakeSegment
  <2> QED
    BY <2>1, WriterUnchanged
<1> QED
  BY <1>1, <1>2, <1>3, <1>4, <1>5 DEF GcmNext

-----------------------------------------------------------------------------
LEMMA CutDrawn ==
  ASSUME NEW s \in Seq(Byte), NEW i \in 1..(Len(s) + 1), NEW j \in 0..Len(s)
  PROVE  DrawnFrom(SubSeq(s, i, j), s)
<1>1. /\ SubSeq(s, i, j) \in Seq(Byte)
      /\ Len(SubSeq(s, i, j)) = IF i <= j THEN j - i + 1 ELSE 0
      /\ \A k \in 1..(j - i + 1) : SubSeq(s, i, j)[k] = s[i + k - 1]
  BY SubSeqProperties
<1>2. ASSUME NEW p \in DOMAIN SubSeq(s, i, j)
      PROVE  \E q \in DOMAIN s : SubSeq(s, i, j)[p] = s[q]
  <2>1. p \in 1..(j - i + 1) /\ i + p - 1 \in DOMAIN s
    BY <1>1
  <2> QED
    BY <1>1, <2>1
<1> QED
  BY <1>1, <1>2 DEF DrawnFrom

LEMMA JoinDrawn ==
  ASSUME NEW s \in Seq(Byte), NEW v, NEW w, DrawnFrom(v, s), DrawnFrom(w, s)
  PROVE  DrawnFrom(v \o w, s)
<1>1. v \in Seq(Byte) /\ w \in Seq(Byte) /\ Len(v) \in Nat /\ Len(w) \in Nat
  BY DEF DrawnFrom
<1>2. /\ v \o w \in Seq(Byte) /\ Len(v \o w) = Len(v) + Len(w)
      /\ \A k \in 1..(Len(v) + Len(w)) :
           (v \o w)[k] = IF k <= Len(v) THEN v[k] ELSE w[k - Len(v)]
  BY <1>1, ConcatProperties
<1>3. ASSUME NEW p \in DOMAIN (v \o w)
      PROVE  (v \o w)[p].at = 0 \/ \E q \in DOMAIN s : (v \o w)[p] = s[q]
  <2>1. p \in 1..(Len(v) + Len(w))
    BY <1>2
  <2>2. (v \o w)[p] = IF p <= Len(v) THEN v[p] ELSE w[p - Len(v)]
    BY <1>2, <2>1
  <2>3. CASE p <= Len(v)
    <3>1. p \in DOMAIN v /\ (v \o w)[p] = v[p]
      BY <1>1, <2>1, <2>2, <2>3
    <3> QED
      BY <3>1 DEF DrawnFrom
  <2>4. CASE ~(p <= Len(v))
    <3>1. p - Len(v) \in DOMAIN w /\ (v \o w)[p] = w[p - Len(v)]
      BY <1>1, <2>1, <2>2, <2>4
    <3> QED
      BY <3>1 DEF DrawnFrom
  <2> QED
    BY <2>3, <2>4
<1> QED
  BY <1>2, <1>3 DEF DrawnFrom

LEMMA DamagedFacts == Damaged \in Byte /\ Damaged.at = 0
<1>1. <<>> \in Seq(Nat) /\ 0 \in Nat
  OBVIOUS
<1>2. \A i \in Nat : <<i, FALSE>> \in Nat \X BOOLEAN
  OBVIOUS
<1>3. <<0, FALSE>> \in Nat \X BOOLEAN
  BY <1>1, <1>2
<1> QED
  BY <1>1, <1>3 DEF Damaged, Byte

LEMMA DeliveriesDrawn ==
  ASSUME NEW s \in Seq(Byte), NEW w \in Deliveries(s)
  PROVE  DrawnFrom(w, s)
<1> DEFINE n == Len(s)
           Whole == {SegmentSize + TagLen} \cap 1..(n \div 2)
<1>0. n \in Nat
  OBVIOUS
<1>1. \/ \E i \in 1..n, j \in 1..n : w = SubSeq(s, 1, i - 1) \o SubSeq(s, j + 1, n)
      \/ \E k \in Whole : w = SubSeq(s, 1, 2 * k) \o SubSeq(s, k + 1, n)
      \/ \E k \in Whole :
           w = SubSeq(s, k + 1, 2 * k) \o SubSeq(s, 1, k) \o SubSeq(s, 2 * k + 1, n)
      \/ \E i \in 1..n : w = [s EXCEPT ![i] = Damaged]
      \/ w = Append(s, Damaged)
  <2> DEFINE A == {SubSeq(s, 1, r[1] - 1) \o SubSeq(s, r[2] + 1, n) : r \in (1..n) \X (1..n)}
             B == {SubSeq(s, 1, 2 * k) \o SubSeq(s, k + 1, n) : k \in Whole}
             C == {SubSeq(s, k + 1, 2 * k) \o SubSeq(s, 1, k) \o SubSeq(s, 2 * k + 1, n) :
                     k \in Whole}
             D == {[s EXCEPT ![i] = Damaged] : i \in 1..n}
             E == {Append(s, Damaged)}
  <2>1. Deliveries(s) = UNION {A, B, C, D, E}
    BY DEF Deliveries
  <2> HIDE DEF A, B, C, D, E
  <2>2. w \in A \/ w \in B \/ w \in C \/ w \in D \/ w \in E
    BY <2>1
  <2>3. w \in A => \E i \in 1..n, j \in 1..n : w = SubSeq(s, 1, i - 1) \o SubSeq(s, j + 1, n)
    <3>1. w \in A => \E r \in (1..n) \X (1..n) : w = SubSeq(s, 1, r[1] - 1) \o SubSeq(s, r[2] + 1, n)
      BY DEF A
    <3>2. \A r \in (1..n) \X (1..n) : r[1] \in 1..n /\ r[2] \in 1..n
      OBVIOUS
    <3> QED
      BY <3>1, <3>2
  <2>4. w \in B => \E k \in Whole : w = SubSeq(s, 1, 2 * k) \o SubSeq(s, k + 1, n)
    BY DEF B
  <2>5. w \in C => \E k \in Whole :
          w = SubSeq(s, k + 1, 2 * k) \o SubSeq(s, 1, k) \o SubSeq(s, 2 * k + 1, n)
    BY DEF C
  <2>6. w \in D => \E i \in 1..n : w = [s EXCEPT ![i] = Damaged]
    BY DEF D
  <2>7. w \in E => w = Append(s, Damaged)
    BY DEF E
  <2> QED
    BY <2>2, <2>3, <2>4, <2>5, <2>6, <2>7
<1>2. \A k \in Whole : k \in Nat /\ 2 * k <= n /\ 1 <= k
  BY <1>0
<1> HIDE DEF n, Whole
<1>3. CASE \E i \in 1..n, j \in 1..n : w = SubSeq(s, 1, i - 1) \o SubSeq(s, j + 1, n)
  <2>1. PICK i \in 1..n, j \in 1..n : w = SubSeq(s, 1, i - 1) \o SubSeq(s, j + 1, n)
    BY <1>3
  <2>2. i - 1 \in 0..n /\ j + 1 \in 1..(n + 1) /\ 1 \in 1..(n + 1) /\ n \in 0..n
    BY <1>0
  <2> QED
    BY <2>1, <2>2, CutDrawn, JoinDrawn DEF n
<1>4. CASE \E k \in Whole : w = SubSeq(s, 1, 2 * k) \o SubSeq(s, k + 1, n)
  <2>1. PICK k \in Whole : w = SubSeq(s, 1, 2 * k) \o SubSeq(s, k + 1, n)
    BY <1>4
  <2>2. 2 * k \in 0..n /\ k + 1 \in 1..(n + 1) /\ 1 \in 1..(n + 1) /\ n \in 0..n
    BY <1>0, <1>2
  <2> QED
    BY <2>1, <2>2, CutDrawn, JoinDrawn DEF n
<1>5. CASE \E k \in Whole :
             w = SubSeq(s, k + 1, 2 * k) \o SubSeq(s, 1, k) \o SubSeq(s, 2 * k + 1, n)
  <2>1. PICK k \in Whole :
          w = SubSeq(s, k + 1, 2 * k) \o SubSeq(s, 1, k) \o SubSeq(s, 2 * k + 1, n)
    BY <1>5
  <2>2. /\ 2 * k \in 0..n /\ k + 1 \in 1..(n + 1) /\ 1 \in 1..(n + 1) /\ n \in 0..n
        /\ k \in 0..n /\ 2 * k + 1 \in 1..(n + 1)
    BY <1>0, <1>2
  <2>3. /\ DrawnFrom(SubSeq(s, k + 1, 2 * k), s) /\ DrawnFrom(SubSeq(s, 1, k), s)
        /\ DrawnFrom(SubSeq(s, 2 * k + 1, n), s)
    BY <2>2, CutDrawn DEF n
  <2>4. DrawnFrom(SubSeq(s, k + 1, 2 * k) \o SubSeq(s, 1, k), s)
    BY <2>3, JoinDrawn
  <2> QED
    BY <2>1, <2>3, <2>4, JoinDrawn
<1>6. CASE \E i \in 1..n : w = [s EXCEPT ![i] = Damaged]
  <2>1. PICK i \in 1..n : w = [s EXCEPT ![i] = Damaged]
    BY <1>6
  <2>2. w \in Seq(Byte) /\ DOMAIN w = DOMAIN s
    <3>1. i \in 1..Len(s)
      BY DEF n
    <3>2. w \in Seq(Byte) /\ Len(w) = Len(s)
      BY <2>1, <3>1, DamagedFacts, ExceptSeq
    <3> QED
      BY <3>2
  <2>3. \A p \in DOMAIN s : w[p] = s[p] \/ w[p] = Damaged
    BY <2>1
  <2> QED
    BY <2>2, <2>3, DamagedFacts DEF DrawnFrom
<1>7. CASE w = Append(s, Damaged)
  <2>1. /\ w \in Seq(Byte) /\ Len(w) = n + 1
        /\ \A p \in 1..n : w[p] = s[p]
        /\ w[n + 1] = Damaged
    BY <1>7, DamagedFacts, AppendProperties DEF n
  <2>2. \A p \in DOMAIN w : p \in 1..n \/ p = n + 1
    BY <1>0, <2>1
  <2>3. 1..n = DOMAIN s
    BY DEF n
  <2> QED
    BY <2>1, <2>2, <2>3, DamagedFacts DEF DrawnFrom
<1> QED
  BY <1>1, <1>3, <1>4, <1>5, <1>6, <1>7

-----------------------------------------------------------------------------
\* While the writer moves, the reader has nothing.
LEMMA WriterMoves ==
  ASSUME WriterInv, WriteCall \/ WriteTurn \/ FinishStream
  PROVE  /\ wstate # "delivered" /\ wstate' # "delivered" /\ fed' \in Nat
         /\ UNCHANGED <<intact, wire, drawn, asked, segment, rcounter, lookahead, plain,
                        taken, done, fuse, out, ended>>
<1>1. UNCHANGED <<intact, wire, drawn, asked, segment, rcounter, lookahead, plain,
                  taken, done, fuse, out, ended>>
  BY DEF WriteCall, WriteTurn, FinishStream, readervars
<1>2. wstate = "open"
  BY DEF WriteCall, WriteTurn, FinishStream
<1>3. fed' \in Nat
  BY WriterStep DEF GcmNext, WriterInv, WriterTypes
<1>4. wstate' # "delivered"
  <2>1. wstate' = wstate \/ (\E d, f : Flush(d, f))
    BY DEF WriteCall, WriteTurn, FinishStream
  <2>2. ASSUME NEW d, NEW f, Flush(d, f) PROVE wstate' # "delivered"
    BY <2>2 DEF Flush
  <2> QED
    BY <1>2, <2>1, <2>2
<1> QED
  BY <1>1, <1>2, <1>3, <1>4

LEMMA NothingDrawn == \A s : DrawnFrom(<<>>, s)
  BY DEF DrawnFrom

LEMMA InitWire == GcmInit => WireInv
<1> SUFFICES ASSUME GcmInit PROVE WireInv
  OBVIOUS
<1>1. Undelivered
  BY DEF GcmInit, Undelivered
<1>2. wire = <<>> /\ segment = <<>> /\ lookahead = <<>> /\ drawn = 0 /\ intact = TRUE
      /\ wstate = "open"
  BY DEF GcmInit
<1>3. AllGenuine(wire, fed, rest, wstate)
  BY <1>2 DEF AllGenuine
<1>4. wire \in Seq(Byte) /\ drawn \in 0..Len(wire)
  BY <1>2
<1> QED
  BY <1>1, <1>2, <1>3, <1>4, NothingDrawn DEF WireInv

LEMMA WireWaits ==
  ASSUME WriterInv, WireInv, WriteCall \/ WriteTurn \/ FinishStream
  PROVE  WireInv'
<1>1. /\ wstate # "delivered" /\ wstate' # "delivered"
      /\ UNCHANGED <<intact, wire, drawn, asked, segment, rcounter, lookahead, plain,
                     taken, done, fuse, out, ended>>
  BY WriterMoves
<1>2. Undelivered
  BY <1>1 DEF WireInv
<1>3. Undelivered'
  BY <1>1, <1>2 DEF Undelivered
<1>4. AllGenuine(wire', fed', rest', wstate')
  BY <1>1, <1>2 DEF Undelivered, AllGenuine
<1> QED
  BY <1>1, <1>3, <1>4 DEF WireInv

LEMMA WireArrives ==
  ASSUME WriterInv, WireInv, Deliver
  PROVE  WireInv'
<1>1. /\ wstate # "delivered" /\ wstate' = "delivered"
      /\ \/ wire' = sealed /\ intact' = TRUE
         \/ wire' \in Deliveries(sealed) /\ intact' = FALSE
      /\ UNCHANGED <<fed, rest, sealed, drawn, segment, lookahead>>
  BY DEF Deliver, readervars
<1>2. Undelivered
  BY <1>1 DEF WireInv
<1>3. sealed \in Seq(Byte) /\ \A p \in DOMAIN sealed : Genuine(sealed[p], fed', rest', wstate')
  <2>1. sealed \in Seq(Byte)
    BY DEF WriterInv, WriterTypes
  <2>2. WriterInv'
    BY WriterDelivers
  <2>3. \A p \in DOMAIN sealed' : Genuine(sealed'[p], fed', rest', wstate')
    BY <2>2 DEF WriterInv, SealedInv
  <2> QED
    BY <1>1, <2>1, <2>3
<1>4. DrawnFrom(wire', sealed)
  <2>1. DrawnFrom(sealed, sealed)
    BY <1>3 DEF DrawnFrom
  <2> QED
    BY <1>1, <1>3, <2>1, DeliveriesDrawn
<1>5. AllGenuine(wire', fed', rest', wstate')
  <2>1. \A p \in DOMAIN wire' : wire'[p].at = 0 \/ \E q \in DOMAIN sealed : wire'[p] = sealed[q]
    BY <1>4 DEF DrawnFrom
  <2> QED
    BY <1>3, <2>1 DEF AllGenuine
<1>6. wire' \in Seq(Byte) /\ drawn' \in 0..Len(wire')
  <2>1. wire' \in Seq(Byte)
    BY <1>4 DEF DrawnFrom
  <2>2. drawn' = 0
    BY <1>1, <1>2 DEF Undelivered
  <2> QED
    BY <2>1, <2>2
<1>7. DrawnFrom(segment', wire') /\ DrawnFrom(lookahead', wire')
  BY <1>1, <1>2, NothingDrawn DEF Undelivered
<1>8. intact' \in BOOLEAN /\ (wstate' = "delivered" /\ intact' => wire' = sealed')
  BY <1>1
<1> QED
  BY <1>1, <1>5, <1>6, <1>7, <1>8 DEF WireInv

\* Reading on draws bytes from the source, in its order.
LEMMA WireDrawn ==
  ASSUME WriterInv, WireInv, wstate = "delivered",
         UNCHANGED <<fed, rest, sealed, wstate, intact, wire>>,
         drawn' \in 0..Len(wire),
         DrawnFrom(segment', wire), DrawnFrom(lookahead', wire)
  PROVE  WireInv'
  BY DEF WireInv

LEMMA WireStep ==
  ASSUME WriterInv, WireInv, HandedInv, GcmNext
  PROVE  WireInv'
<1>0. /\ wire \in Seq(Byte) /\ drawn \in 0..Len(wire) /\ drawn \in Nat /\ Len(wire) \in Nat
      /\ DrawnFrom(segment, wire) /\ DrawnFrom(lookahead, wire)
  BY DEF WireInv
<1>1. CASE WriteCall \/ WriteTurn \/ FinishStream
  BY <1>1, WireWaits
<1>2. CASE Deliver
  BY <1>2, WireArrives
<1>3. CASE ReadBuffered \/ ReadEnd
  <2>1. /\ wstate = "delivered"
        /\ UNCHANGED <<fed, rest, sealed, wstate, intact, wire, drawn, segment, lookahead>>
    BY <1>3 DEF ReadBuffered, ReadEnd, writervars
  <2> QED
    BY <1>0, <2>1, WireDrawn
<1>4. CASE ReadRefill
  <2>1. /\ wstate = "delivered" /\ segment' = lookahead /\ lookahead' = <<>>
        /\ UNCHANGED <<fed, rest, sealed, wstate, intact, wire, drawn>>
    BY <1>4 DEF ReadRefill, writervars, Carried
  <2> QED
    BY <1>0, <2>1, WireDrawn, NothingDrawn
<1>5. CASE FillSegment
  <2>1. PICK n \in 1..Least(Len(wire) - drawn, Limit - Len(segment)) :
          /\ segment' = segment \o SubSeq(wire, drawn + 1, drawn + n)
          /\ drawn' = drawn + n
    BY <1>5 DEF FillSegment
  <2>2. /\ asked > 0 /\ Len(segment) < Limit
        /\ UNCHANGED <<fed, rest, sealed, wstate, intact, wire, lookahead>>
    BY <1>5 DEF FillSegment, writervars
  <2>3. wstate = "delivered"
    BY <2>2 DEF HandedInv, HandedPhase
  <2>4. n \in Nat /\ drawn + n <= Len(wire)
    <3>1. Len(segment) \in Nat /\ Limit \in Nat
      BY <1>0, Multiples DEF DrawnFrom
    <3>2. Len(wire) - drawn \in Nat /\ Limit - Len(segment) \in Nat
      BY <1>0, <2>2, <3>1
    <3>3. Least(Len(wire) - drawn, Limit - Len(segment)) <= Len(wire) - drawn
          /\ Least(Len(wire) - drawn, Limit - Len(segment)) \in Nat
      BY <3>2, LeastFacts
    <3> QED
      BY <1>0, <3>3
  <2>5. drawn' \in 0..Len(wire)
    BY <1>0, <2>1, <2>4
  <2>6. DrawnFrom(SubSeq(wire, drawn + 1, drawn + n), wire)
    <3>1. drawn + 1 \in 1..(Len(wire) + 1) /\ drawn + n \in 0..Len(wire)
      BY <1>0, <2>4
    <3> QED
      BY <1>0, <3>1, CutDrawn
  <2>7. DrawnFrom(segment', wire)
    BY <1>0, <2>1, <2>6, JoinDrawn
  <2> QED
    BY <1>0, <2>2, <2>3, <2>5, <2>7, WireDrawn
<1>6. CASE SourceFails
  <2>1. /\ asked > 0 /\ segment' = <<>>
        /\ UNCHANGED <<fed, rest, sealed, wstate, intact, wire, drawn, lookahead>>
    BY <1>6 DEF SourceFails, writervars
  <2>2. wstate = "delivered"
    BY <2>1 DEF HandedInv, HandedPhase
  <2> QED
    BY <1>0, <2>1, <2>2, WireDrawn, NothingDrawn
<1>7. CASE TakeSegment
  <2>1. /\ asked > 0 /\ segment' = <<>>
        /\ UNCHANGED <<fed, rest, sealed, wstate, intact, wire>>
        /\ \/ lookahead' = <<>> /\ drawn' = drawn
           \/ drawn # Len(wire) /\ lookahead' = <<wire[drawn + 1]>> /\ drawn' = drawn + 1
    BY <1>7 DEF TakeSegment, writervars
  <2>2. wstate = "delivered"
    BY <2>1 DEF HandedInv, HandedPhase
  <2>3. CASE lookahead' = <<>> /\ drawn' = drawn
    BY <1>0, <2>1, <2>2, <2>3, WireDrawn, NothingDrawn
  <2>4. CASE drawn # Len(wire) /\ lookahead' = <<wire[drawn + 1]>> /\ drawn' = drawn + 1
    <3>1. drawn' \in 0..Len(wire) /\ drawn + 1 \in DOMAIN wire /\ wire[drawn + 1] \in Byte
      BY <1>0, <2>4
    <3>2. DrawnFrom(<<wire[drawn + 1]>>, wire)
      BY <3>1 DEF DrawnFrom
    <3> QED
      BY <1>0, <2>1, <2>2, <2>4, <3>1, <3>2, WireDrawn, NothingDrawn
  <2> QED
    BY <2>1, <2>3, <2>4
<1> QED
  BY <1>1, <1>2, <1>3, <1>4, <1>5, <1>6, <1>7 DEF GcmNext

-----------------------------------------------------------------------------
\* What opens is the segment that was sealed under that number and that flag.
LEMMA OpenedFull ==
  ASSUME WireInv, rcounter \in Nat, fed \in Nat,
         Opens(rcounter, FALSE, segment), Len(segment) >= TagLen
  PROVE  /\ segment[1].data = Positions(Begin(rcounter), Begin(rcounter + 1))
         /\ Begin(rcounter + 1) <= fed
<1> DEFINE data == segment[1].data
<1>1. segment \in Seq(Byte) /\ 1 \in DOMAIN segment
  BY GcmAssumption DEF WireInv, DrawnFrom
<1>2. segment[1] \in Byte
  BY <1>1
<1>3. data \in Seq(Nat)
  BY <1>2 DEF Byte
<1>4. segment = Sealed(rcounter, FALSE, data)
  BY DEF Opens
<1> HIDE DEF data
<1>5. 1 \in 1..(Len(data) + TagLen)
  BY <1>3, GcmAssumption
<1>6. segment[1] = SealedByte(rcounter, FALSE, data, 1)
  BY <1>3, <1>4, <1>5, SealedFacts
<1>7. segment[1].nonce = <<rcounter, FALSE>> /\ segment[1].at # 0
  <2>1. /\ SealedByte(rcounter, FALSE, data, 1).nonce = <<rcounter, FALSE>>
        /\ SealedByte(rcounter, FALSE, data, 1).at = 1
    BY DEF SealedByte
  <2>2. 1 # 0
    OBVIOUS
  <2> QED
    BY <1>6, <2>1, <2>2, Zenon
<1>8. Genuine(segment[1], fed, rest, wstate)
  <2>1. segment[1].at = 0 \/ \E q \in DOMAIN wire : segment[1] = wire[q]
    BY <1>1 DEF WireInv, DrawnFrom
  <2>2. PICK q \in DOMAIN wire : segment[1] = wire[q]
    BY <1>7, <2>1
  <2>3. wire[q].at = 0 \/ Genuine(wire[q], fed, rest, wstate)
    BY DEF WireInv, AllGenuine
  <2> QED
    BY <1>7, <2>2, <2>3
<1>9. PICK i \in Nat :
        \/ /\ segment[1].nonce = <<i, FALSE>>
           /\ Begin(i + 1) <= fed /\ segment[1].data = Positions(Begin(i), Begin(i + 1))
        \/ segment[1].nonce = <<i, TRUE>>
  BY <1>8 DEF Genuine
<1>10. segment[1].nonce # <<i, TRUE>>
  <2>1. <<rcounter, FALSE>> # <<i, TRUE>>
    BY Zenon
  <2> QED
    BY <1>7, <2>1
<1>11. i = rcounter
  BY <1>7, <1>9, <1>10
<1> QED
  BY <1>9, <1>10, <1>11

LEMMA OpenedLast ==
  ASSUME WireInv, rcounter \in Nat, fed \in Nat,
         Opens(rcounter, TRUE, segment), Len(segment) >= TagLen
  PROVE  /\ segment[1].data = Positions(Begin(rcounter), fed)
         /\ Begin(rcounter) <= fed /\ rest = 0
<1> DEFINE data == segment[1].data
<1>1. segment \in Seq(Byte) /\ 1 \in DOMAIN segment
  BY GcmAssumption DEF WireInv, DrawnFrom
<1>2. segment[1] \in Byte
  BY <1>1
<1>3. data \in Seq(Nat)
  BY <1>2 DEF Byte
<1>4. segment = Sealed(rcounter, TRUE, data)
  BY DEF Opens
<1> HIDE DEF data
<1>5. 1 \in 1..(Len(data) + TagLen)
  BY <1>3, GcmAssumption
<1>6. segment[1] = SealedByte(rcounter, TRUE, data, 1)
  BY <1>3, <1>4, <1>5, SealedFacts
<1>7. segment[1].nonce = <<rcounter, TRUE>> /\ segment[1].at # 0
  <2>1. /\ SealedByte(rcounter, TRUE, data, 1).nonce = <<rcounter, TRUE>>
        /\ SealedByte(rcounter, TRUE, data, 1).at = 1
    BY DEF SealedByte
  <2>2. 1 # 0
    OBVIOUS
  <2> QED
    BY <1>6, <2>1, <2>2, Zenon
<1>8. Genuine(segment[1], fed, rest, wstate)
  <2>1. segment[1].at = 0 \/ \E q \in DOMAIN wire : segment[1] = wire[q]
    BY <1>1 DEF WireInv, DrawnFrom
  <2>2. PICK q \in DOMAIN wire : segment[1] = wire[q]
    BY <1>7, <2>1
  <2>3. wire[q].at = 0 \/ Genuine(wire[q], fed, rest, wstate)
    BY DEF WireInv, AllGenuine
  <2> QED
    BY <1>7, <2>2, <2>3
<1>9. PICK i \in Nat :
        \/ segment[1].nonce = <<i, FALSE>>
        \/ /\ segment[1].nonce = <<i, TRUE>>
           /\ Begin(i) <= fed /\ segment[1].data = Positions(Begin(i), fed) /\ rest = 0
  BY <1>8 DEF Genuine
<1>10. segment[1].nonce # <<i, FALSE>>
  <2>1. <<rcounter, TRUE>> # <<i, FALSE>>
    BY Zenon
  <2> QED
    BY <1>7, <2>1
<1>11. i = rcounter
  BY <1>7, <1>9, <1>10
<1> QED
  BY <1>9, <1>10, <1>11

LEMMA VerdictNone ==
  ASSUME Len(segment) \in Nat, NEW final \in BOOLEAN, Verdict(final) = "none"
  PROVE  Len(segment) >= TagLen /\ Opens(rcounter, final, segment)
<1>1. ~(Len(segment) < TagLen) /\ Opens(rcounter, final, segment)
  BY DEF Verdict
<1> QED
  BY <1>1, GcmAssumption

\* The segment is taken, refused, opened as the last one or as another one.
LEMMA TakeEffect ==
  ASSUME TakeSegment, Len(segment) \in Nat
  PROVE  /\ asked > 0 /\ segment' = <<>> /\ asked' = 0
         /\ UNCHANGED <<fed, rest, wstate, intact, wire>>
         /\ \/ /\ fuse' # "none" /\ done' = FALSE /\ ended' = FALSE
               /\ UNCHANGED rcounter /\ plain' = <<>>
               /\ taken' = Least(0, asked) /\ Hand(<<>>, 0, Least(0, asked))
            \/ /\ fuse' = "none" /\ done' = TRUE /\ UNCHANGED rcounter
               /\ drawn = Len(wire)
               /\ Len(segment) >= TagLen /\ Opens(rcounter, TRUE, segment)
               /\ plain' = segment[1].data
               /\ taken' = Least(Len(plain'), asked)
               /\ Hand(segment[1].data, 0, Least(Len(segment[1].data), asked))
               /\ ended' = (segment[1].data = <<>>)
            \/ /\ fuse' = "none" /\ done' = FALSE /\ rcounter' = rcounter + 1
               /\ drawn # Len(wire)
               /\ Len(segment) >= TagLen /\ Opens(rcounter, FALSE, segment)
               /\ plain' = segment[1].data
               /\ taken' = Least(Len(plain'), asked)
               /\ Hand(segment[1].data, 0, Least(Len(segment[1].data), asked))
               /\ ended' = (segment[1].data = <<>>)
<1> DEFINE final == drawn = Len(wire)
           v == Verdict(final)
           data == IF v = "none" THEN segment[1].data ELSE <<>>
           n == Least(Len(data), asked)
<1>1. /\ asked > 0
      /\ fuse' = v /\ done' = (fuse' = "none" /\ final)
      /\ rcounter' = IF fuse' = "none" /\ ~final THEN rcounter + 1 ELSE rcounter
      /\ plain' = data /\ taken' = n /\ Hand(data, 0, n)
      /\ ended' = (fuse' = "none" /\ data = <<>>)
      /\ segment' = <<>> /\ asked' = 0
      /\ UNCHANGED <<writervars, intact, wire>>
  BY DEF TakeSegment
<1>2. v = "none" => Len(segment) >= TagLen /\ Opens(rcounter, final, segment)
  BY VerdictNone
<1>3. UNCHANGED <<fed, rest, wstate, intact, wire>>
  BY <1>1 DEF writervars
<1> HIDE DEF v
<1>4. CASE v # "none"
  <2>1. data = <<>>
    BY <1>4
  <2> QED
    BY <1>1, <1>3, <1>4, <2>1
<1>5. CASE v = "none" /\ final
  <2>1. final = TRUE /\ data = segment[1].data
    BY <1>5
  <2>2. Opens(rcounter, TRUE, segment)
    BY <1>2, <1>5, <2>1
  <2> QED
    BY <1>1, <1>2, <1>3, <1>5, <2>1, <2>2
<1>6. CASE v = "none" /\ ~final
  <2>1. final = FALSE /\ data = segment[1].data
    BY <1>6
  <2>2. Opens(rcounter, FALSE, segment)
    BY <1>2, <1>6, <2>1
  <2> QED
    BY <1>1, <1>2, <1>3, <1>6, <2>1, <2>2
<1> QED
  BY <1>4, <1>5, <1>6

-----------------------------------------------------------------------------
LEMMA InitHanded == GcmInit => HandedInv
<1> SUFFICES ASSUME GcmInit PROVE HandedInv
  OBVIOUS
<1>1. /\ fed = 0 /\ asked = 0 /\ rcounter = 0 /\ plain = <<>> /\ taken = 0
      /\ done = FALSE /\ out = <<>> /\ ended = FALSE
  BY DEF GcmInit
<1>2. OpenedBytes = 0
  BY <1>1, Multiples DEF OpenedBytes
<1>3. HandedTypes
  <2>1. out \in Seq(Nat) /\ plain \in Seq(Nat) /\ taken \in 0..Len(plain)
    BY <1>1
  <2> QED
    BY <1>1, <2>1 DEF HandedTypes
<1>4. HandedData
  BY <1>1, <1>2 DEF HandedData
<1>5. HandedPhase
  BY <1>1 DEF HandedPhase
<1> QED
  BY <1>3, <1>4, <1>5 DEF HandedInv

\* Nothing has been read.
LEMMA HandedWaits ==
  ASSUME Undelivered, fed' \in Nat,
         UNCHANGED <<asked, rcounter, plain, taken, done, fuse, out, ended>>
  PROVE  HandedInv'
<1>1. /\ asked' = 0 /\ rcounter' = 0 /\ plain' = <<>> /\ taken' = 0
      /\ done' = FALSE /\ out' = <<>> /\ ended' = FALSE
  <2>1. done' = FALSE /\ ended' = FALSE
    BY DEF Undelivered
  <2> QED
    BY <2>1 DEF Undelivered
<1>2. OpenedBytes' = 0
  BY <1>1, Multiples DEF OpenedBytes
<1>3. HandedTypes'
  <2>1. out' \in Seq(Nat) /\ plain' \in Seq(Nat) /\ taken' \in 0..Len(plain')
    BY <1>1
  <2>2. rcounter' \in Nat /\ asked' \in Nat
    BY <1>1
  <2>3. done' \in BOOLEAN /\ ended' \in BOOLEAN
    BY <1>1
  <2> QED
    BY <2>1, <2>2, <2>3, Zenon DEF HandedTypes
<1>4. HandedData'
  BY <1>1, <1>2 DEF HandedData
<1>5. HandedPhase'
  BY <1>1 DEF HandedPhase
<1> QED
  BY <1>3, <1>4, <1>5 DEF HandedInv

\* What is handed out goes on where it stopped.
LEMMA HandFacts ==
  ASSUME out \in Seq(Nat), \A k \in DOMAIN out : out[k] = k,
         NEW data \in Seq(Nat), NEW from \in Nat, NEW n \in Nat, from + n <= Len(data),
         \A k \in 1..n : data[from + k] = Len(out) + k,
         Hand(data, from, n)
  PROVE  /\ out' \in Seq(Nat) /\ Len(out') = Len(out) + n
         /\ \A k \in DOMAIN out' : out'[k] = k
<1> DEFINE s == SubSeq(data, from + 1, from + n)
<1>1. Len(data) \in Nat /\ Len(out) \in Nat
  OBVIOUS
<1>2. \A i \in (from + 1)..(from + n) : data[i] \in Nat
  BY <1>1
<1>3. /\ s \in Seq(Nat)
      /\ Len(s) = IF from + 1 <= from + n THEN from + n - (from + 1) + 1 ELSE 0
      /\ \A i \in 1..(from + n - (from + 1) + 1) : s[i] = data[from + 1 + i - 1]
  BY <1>2, SubSeqProperties
<1>4. Len(s) = n /\ \A i \in 1..n : s[i] = Len(out) + i
  <2>1. Len(s) = n /\ from + n - (from + 1) + 1 = n
    BY <1>3
  <2>2. ASSUME NEW i \in 1..n PROVE s[i] = Len(out) + i
    <3>1. s[i] = data[from + 1 + i - 1] /\ from + 1 + i - 1 = from + i
      BY <1>3, <2>1
    <3> QED
      BY <3>1
  <2> QED
    BY <2>1, <2>2
<1>5. out' = out \o s
  BY DEF Hand
<1> HIDE DEF s
<1>6. /\ out' \in Seq(Nat) /\ Len(out') = Len(out) + Len(s)
      /\ \A k \in 1..(Len(out) + Len(s)) :
           out'[k] = IF k <= Len(out) THEN out[k] ELSE s[k - Len(out)]
  BY <1>3, <1>5, ConcatProperties
<1>7. ASSUME NEW k \in DOMAIN out' PROVE out'[k] = k
  <2>1. k \in 1..(Len(out) + n)
    BY <1>4, <1>6
  <2>2. CASE k <= Len(out)
    <3>1. k \in DOMAIN out
      BY <1>1, <2>1, <2>2
    <3> QED
      BY <1>4, <1>6, <2>1, <2>2, <3>1
  <2>3. CASE ~(k <= Len(out))
    <3>1. k - Len(out) \in 1..n
      BY <1>1, <2>1, <2>3, SMTT(30)
    <3> QED
      BY <1>1, <1>4, <1>6, <2>1, <2>3, <3>1
  <2> QED
    BY <2>2, <2>3
<1> QED
  BY <1>4, <1>6, <1>7

\* The bytes of a segment that was opened are handed out and kept.
LEMMA HandedOpened ==
  ASSUME HandedInv, WriterInv, asked > 0, asked' = 0, UNCHANGED <<fed, rest>>,
         NEW data, plain' = data, taken' = Least(Len(data), asked),
         Hand(data, 0, Least(Len(data), asked)),
         NEW to \in Nat, Begin(rcounter) <= to, to <= fed,
         data = Positions(Begin(rcounter), to),
         rcounter' \in Nat, done' \in BOOLEAN, ended' \in BOOLEAN,
         OpenedBytes' = to, done' => rest = 0, ended' => done' /\ data = <<>>
  PROVE  HandedInv'
<1>0. HandedTypes /\ HandedData /\ HandedPhase
  BY DEF HandedInv
<1>1. /\ out \in Seq(Nat) /\ asked \in Nat /\ Len(out) \in Nat /\ rcounter \in Nat
      /\ Begin(rcounter) \in Nat
  BY <1>0, Multiples DEF HandedTypes
<1>2. plain = <<>> /\ taken = 0 /\ ~done
  BY <1>0 DEF HandedPhase, HandedTypes
<1>3. Len(out) = Begin(rcounter)
  <2>1. Len(out) + Len(plain) - taken = OpenedBytes /\ OpenedBytes = Begin(rcounter)
    BY <1>0, <1>2 DEF HandedData, OpenedBytes
  <2>2. Len(plain) = 0
    BY <1>2
  <2> QED
    BY <1>1, <1>2, <2>1, <2>2
<1>4. /\ data \in Seq(Nat) /\ Len(data) = to - Len(out)
      /\ \A k \in 1..(to - Len(out)) : data[k] = Len(out) + k
  <2> DEFINE b == Begin(rcounter)
  <2>1. /\ Positions(b, to) \in Seq(Nat) /\ Len(Positions(b, to)) = to - b
        /\ \A k \in 1..(to - b) : Positions(b, to)[k] = b + k
    BY <1>1, PositionsFacts
  <2>2. b = Len(out) /\ data = Positions(b, to)
    BY <1>3
  <2> HIDE DEF b
  <2> QED
    BY <2>1, <2>2
<1> DEFINE n == Least(Len(data), asked)
<1>5. Len(data) \in Nat /\ n \in Nat /\ n <= Len(data)
  <2>1. Len(data) \in Nat
    BY <1>4
  <2> QED
    BY <1>1, <2>1, LeastFacts
<1>6. taken' = n /\ Hand(data, 0, n)
  OBVIOUS
<1> HIDE DEF n
<1>7. /\ out' \in Seq(Nat) /\ Len(out') = Len(out) + n
      /\ \A k \in DOMAIN out' : out'[k] = k
  <2>1. \A k \in 1..n : data[0 + k] = Len(out) + k
    <3> SUFFICES ASSUME NEW k \in 1..n PROVE data[0 + k] = Len(out) + k
      OBVIOUS
    <3>1. 0 + k = k /\ k \in 1..(to - Len(out))
      BY <1>4, <1>5
    <3> QED
      BY <1>4, <3>1
  <2>2. 0 + n <= Len(data)
    BY <1>5
  <2> QED
    BY <1>0, <1>1, <1>4, <1>5, <1>6, <2>1, <2>2, HandFacts DEF HandedData
<1>8. HandedTypes'
  <2>1. taken' \in 0..Len(plain')
    BY <1>5, <1>6
  <2> QED
    BY <1>4, <1>7, <2>1 DEF HandedTypes
<1>9. HandedData'
  <2>1. Len(out') + Len(plain') - taken' = OpenedBytes'
    BY <1>1, <1>4, <1>5, <1>6, <1>7
  <2>2. \A k \in DOMAIN plain' : plain'[k] = OpenedBytes' - Len(plain') + k
    <3> SUFFICES ASSUME NEW k \in DOMAIN data PROVE data[k] = to - Len(data) + k
      OBVIOUS
    <3>1. k \in 1..(to - Len(out)) /\ k \in Nat
      BY <1>4
    <3>2. data[k] = Len(out) + k
      BY <1>4, <3>1
    <3>3. to - Len(data) = Len(out)
      BY <1>1, <1>4
    <3> QED
      BY <3>2, <3>3
  <2> QED
    BY <1>7, <2>1, <2>2 DEF HandedData
<1>10. HandedPhase'
  <2>1. ended' => taken' = Len(plain')
    <3> SUFFICES ASSUME ended' PROVE taken' = Len(plain')
      OBVIOUS
    <3>1. Len(data) = 0
      OBVIOUS
    <3> QED
      BY <1>5, <1>6, <3>1
  <2> QED
    BY <2>1 DEF HandedPhase
<1> QED
  BY <1>8, <1>9, <1>10 DEF HandedInv

LEMMA HandedTakes ==
  ASSUME WriterInv, WireInv, HandedInv, TakeSegment
  PROVE  HandedInv'
<1>0. HandedTypes /\ HandedData /\ HandedPhase
  BY DEF HandedInv
<1>1. /\ out \in Seq(Nat) /\ rcounter \in Nat /\ asked \in Nat /\ fed \in Nat
      /\ done \in BOOLEAN /\ ended \in BOOLEAN /\ Len(segment) \in Nat
      /\ Begin(rcounter) \in Nat /\ Begin(rcounter + 1) \in Nat
      /\ Begin(rcounter + 1) = Begin(rcounter) + SegmentSize /\ SegmentSize \in Nat \ {0}
  <2>1. rcounter \in Nat /\ rcounter + 1 \in Nat
    BY <1>0 DEF HandedTypes
  <2>2. /\ out \in Seq(Nat) /\ asked \in Nat /\ done \in BOOLEAN
        /\ ended \in BOOLEAN
    BY <1>0 DEF HandedTypes
  <2>3. fed \in Nat
    BY DEF WriterInv, WriterTypes
  <2>4. Len(segment) \in Nat
    <3>1. segment \in Seq(Byte)
      BY DEF WireInv, DrawnFrom
    <3> QED
      BY <3>1
  <2>5. /\ Begin(rcounter) \in Nat /\ Begin(rcounter + 1) \in Nat
        /\ Begin(rcounter + 1) = Begin(rcounter) + SegmentSize
    BY <2>1, Multiples
  <2> QED
    BY <2>1, <2>2, <2>3, <2>4, <2>5, GcmAssumption
<1>2. asked > 0 /\ asked' = 0 /\ UNCHANGED <<fed, rest, wstate>>
  BY <1>1, TakeEffect
<1>3. plain = <<>> /\ taken = 0 /\ ~done /\ ~ended
  BY <1>0, <1>2 DEF HandedPhase, HandedTypes
<1>4. CASE /\ fuse' # "none" /\ done' = FALSE /\ ended' = FALSE
           /\ UNCHANGED rcounter /\ plain' = <<>>
           /\ taken' = Least(0, asked) /\ Hand(<<>>, 0, Least(0, asked))
  <2>1. Least(0, asked) = 0
    BY <1>1, <1>2 DEF Least
  <2>2. out' = out
    <3>1. out' = out \o SubSeq(<<>>, 0 + 1, 0 + 0)
      BY <1>4, <2>1 DEF Hand
    <3>2. SubSeq(<<>>, 0 + 1, 0 + 0) = <<>>
      OBVIOUS
    <3>3. out \o <<>> = out
      BY <1>1
    <3> QED
      BY <3>1, <3>2, <3>3
  <2>3. OpenedBytes' = OpenedBytes
    BY <1>3, <1>4 DEF OpenedBytes
  <2>4. HandedTypes'
    <3>1. plain' \in Seq(Nat) /\ taken' \in 0..Len(plain')
      BY <1>4, <2>1
    <3> QED
      BY <1>0, <1>2, <1>4, <2>2, <3>1 DEF HandedTypes
  <2>5. HandedData'
    BY <1>0, <1>2, <1>3, <1>4, <2>1, <2>2, <2>3 DEF HandedData
  <2>6. HandedPhase'
    BY <1>2, <1>4 DEF HandedPhase
  <2> QED
    BY <2>4, <2>5, <2>6 DEF HandedInv
<1>5. CASE /\ fuse' = "none" /\ done' = TRUE /\ UNCHANGED rcounter
           /\ Len(segment) >= TagLen /\ Opens(rcounter, TRUE, segment)
           /\ plain' = segment[1].data
           /\ taken' = Least(Len(plain'), asked)
           /\ Hand(segment[1].data, 0, Least(Len(segment[1].data), asked))
           /\ ended' = (segment[1].data = <<>>)
  <2> DEFINE data == segment[1].data
  <2>1. data = Positions(Begin(rcounter), fed) /\ Begin(rcounter) <= fed /\ rest = 0
    BY <1>1, <1>5, OpenedLast
  <2>2. OpenedBytes' = fed
    BY <1>2, <1>5 DEF OpenedBytes
  <2>3. /\ plain' = data /\ taken' = Least(Len(data), asked)
        /\ Hand(data, 0, Least(Len(data), asked))
        /\ ended' \in BOOLEAN /\ done' \in BOOLEAN /\ (ended' => done' /\ data = <<>>)
    BY <1>5
  <2> HIDE DEF data
  <2>4. fed <= fed /\ rcounter' \in Nat
    BY <1>1, <1>5
  <2> QED
    BY <1>1, <1>2, <2>1, <2>2, <2>3, <2>4, HandedOpened
<1>6. CASE /\ fuse' = "none" /\ done' = FALSE /\ rcounter' = rcounter + 1
           /\ Len(segment) >= TagLen /\ Opens(rcounter, FALSE, segment)
           /\ plain' = segment[1].data
           /\ taken' = Least(Len(plain'), asked)
           /\ Hand(segment[1].data, 0, Least(Len(segment[1].data), asked))
           /\ ended' = (segment[1].data = <<>>)
  <2> DEFINE data == segment[1].data
             to == Begin(rcounter + 1)
  <2>1. data = Positions(Begin(rcounter), to) /\ to <= fed
    BY <1>1, <1>6, OpenedFull
  <2>2. OpenedBytes' = to
    BY <1>6 DEF OpenedBytes
  <2>3. /\ plain' = data /\ taken' = Least(Len(data), asked)
        /\ Hand(data, 0, Least(Len(data), asked))
        /\ ended' = (data = <<>>) /\ done' = FALSE
    BY <1>6
  <2>4. to \in Nat /\ Begin(rcounter) <= to /\ to - Begin(rcounter) # 0
    BY <1>1
  <2> HIDE DEF data, to
  <2>5. data # <<>>
    <3>1. Len(data) = to - Begin(rcounter)
      BY <1>1, <2>1, <2>4, PositionsFacts
    <3> QED
      BY <2>4, <3>1
  <2>6. rcounter' \in Nat
    BY <1>1, <1>6
  <2>7. ended' \in BOOLEAN /\ ~ended' /\ done' \in BOOLEAN /\ ~done'
    BY <2>3, <2>5, Zenon
  <2> QED
    BY <1>1, <1>2, <2>1, <2>2, <2>3, <2>4, <2>6, <2>7, HandedOpened
<1>7. \/ /\ fuse' # "none" /\ done' = FALSE /\ ended' = FALSE
         /\ UNCHANGED rcounter /\ plain' = <<>>
         /\ taken' = Least(0, asked) /\ Hand(<<>>, 0, Least(0, asked))
      \/ /\ fuse' = "none" /\ done' = TRUE /\ UNCHANGED rcounter
         /\ Len(segment) >= TagLen /\ Opens(rcounter, TRUE, segment)
         /\ plain' = segment[1].data
         /\ taken' = Least(Len(plain'), asked)
         /\ Hand(segment[1].data, 0, Least(Len(segment[1].data), asked))
         /\ ended' = (segment[1].data = <<>>)
      \/ /\ fuse' = "none" /\ done' = FALSE /\ rcounter' = rcounter + 1
         /\ Len(segment) >= TagLen /\ Opens(rcounter, FALSE, segment)
         /\ plain' = segment[1].data
         /\ taken' = Least(Len(plain'), asked)
         /\ Hand(segment[1].data, 0, Least(Len(segment[1].data), asked))
         /\ ended' = (segment[1].data = <<>>)
  BY <1>1, TakeEffect, Zenon
<1> QED
  BY <1>4, <1>5, <1>6, <1>7

LEMMA HandedStep ==
  ASSUME WriterInv, WireInv, HandedInv, GcmNext
  PROVE  HandedInv'
<1>0. HandedTypes /\ HandedData /\ HandedPhase
  BY DEF HandedInv
<1>a. /\ out \in Seq(Nat) /\ plain \in Seq(Nat) /\ taken \in Nat /\ taken <= Len(plain)
      /\ rcounter \in Nat /\ asked \in Nat /\ Len(out) \in Nat /\ Len(plain) \in Nat
      /\ done \in BOOLEAN /\ ended \in BOOLEAN /\ fed \in Nat
  BY <1>0 DEF HandedTypes, WriterInv, WriterTypes
<1>b. \A a \in Nat : Begin(a) \in Nat
  BY Multiples
<1>c. OpenedBytes \in Nat
  BY <1>a, <1>b DEF OpenedBytes
<1>1. CASE WriteCall \/ WriteTurn \/ FinishStream
  <2>1. Undelivered
    BY <1>1, WriterMoves DEF WireInv
  <2> QED
    BY <1>1, <2>1, WriterMoves, HandedWaits
<1>2. CASE Deliver
  <2>1. /\ wstate # "delivered"
        /\ UNCHANGED <<fed, asked, rcounter, plain, taken, done, fuse, out, ended>>
    BY <1>2 DEF Deliver, readervars
  <2>2. Undelivered
    BY <2>1 DEF WireInv
  <2> QED
    BY <1>a, <2>1, <2>2, HandedWaits
<1>3. CASE ReadBuffered
  <2>1. /\ asked = 0 /\ taken < Len(plain)
        /\ UNCHANGED <<fed, rest, wstate, asked, rcounter, plain, done, fuse, ended>>
    BY <1>3 DEF ReadBuffered, writervars
  <2>2. PICK m \in ReadSizes :
          /\ Hand(plain, taken, Least(Len(plain) - taken, m))
          /\ taken' = taken + Least(Len(plain) - taken, m)
    BY <1>3 DEF ReadBuffered
  <2> DEFINE n == Least(Len(plain) - taken, m)
  <2>3. n \in Nat /\ n <= Len(plain) - taken
    <3>1. Len(plain) - taken \in Nat /\ m \in Nat
      BY <1>a, GcmAssumption
    <3> QED
      BY <3>1, LeastFacts
  <2>4. Hand(plain, taken, n) /\ taken' = taken + n
    BY <2>2
  <2> HIDE DEF n
  <2>5. taken + n <= Len(plain) /\ OpenedBytes' = OpenedBytes
    BY <1>a, <2>1, <2>3 DEF OpenedBytes
  <2>6. ASSUME NEW k \in 1..n PROVE plain[taken + k] = Len(out) + k
    <3>1. taken + k \in DOMAIN plain
      BY <1>a, <2>3, <2>5
    <3>2. plain[taken + k] = OpenedBytes - Len(plain) + (taken + k)
      BY <1>0, <3>1 DEF HandedData
    <3>3. Len(out) + Len(plain) - taken = OpenedBytes
      BY <1>0 DEF HandedData
    <3>4. k \in Nat
      BY <2>3
    <3>5. OpenedBytes - Len(plain) + (taken + k) = Len(out) + k
      BY <1>a, <1>c, <3>3, <3>4
    <3> QED
      BY <3>2, <3>5
  <2>7. /\ out' \in Seq(Nat) /\ Len(out') = Len(out) + n
        /\ \A k \in DOMAIN out' : out'[k] = k
    BY <1>0, <1>a, <2>3, <2>4, <2>5, <2>6, HandFacts DEF HandedData
  <2>8. HandedTypes'
    <3>1. taken' \in 0..Len(plain')
      BY <1>a, <2>1, <2>3, <2>4, <2>5
    <3> QED
      BY <1>0, <2>1, <2>7, <3>1 DEF HandedTypes
  <2>9. HandedData'
    <3>1. Len(out') + Len(plain') - taken' = OpenedBytes'
      <4>1. Len(out) + Len(plain) - taken = OpenedBytes
        BY <1>0 DEF HandedData
      <4>2. Len(out') = Len(out) + n /\ Len(plain') = Len(plain) /\ taken' = taken + n
        BY <2>1, <2>4, <2>7
      <4> QED
        BY <1>a, <1>c, <2>3, <2>5, <4>1, <4>2
    <3>2. \A k \in DOMAIN plain' : plain'[k] = OpenedBytes' - Len(plain') + k
      BY <1>0, <2>1, <2>5 DEF HandedData
    <3>3. OpenedBytes' <= fed'
      BY <1>0, <2>1, <2>5 DEF HandedData
    <3> QED
      BY <2>7, <3>1, <3>2, <3>3 DEF HandedData
  <2>10. HandedPhase'
    BY <1>0, <1>a, <2>1 DEF HandedPhase
  <2> QED
    BY <2>8, <2>9, <2>10 DEF HandedInv
<1>4. CASE ReadEnd
  <2>1. /\ taken = Len(plain) /\ done /\ ended' = TRUE
        /\ UNCHANGED <<fed, rest, wstate, asked, rcounter, plain, taken, done, fuse, out>>
    BY <1>4 DEF ReadEnd, writervars
  <2>2. OpenedBytes' = OpenedBytes
    BY <2>1 DEF OpenedBytes
  <2>3. HandedTypes'
    BY <1>0, <2>1 DEF HandedTypes
  <2>4. HandedData'
    BY <1>0, <2>1, <2>2 DEF HandedData
  <2>5. HandedPhase'
    BY <1>0, <2>1 DEF HandedPhase
  <2> QED
    BY <2>3, <2>4, <2>5 DEF HandedInv
<1>5. CASE ReadRefill
  <2>1. /\ wstate = "delivered" /\ fuse = "none" /\ taken = Len(plain) /\ ~done
        /\ asked' \in ReadSizes /\ plain' = <<>> /\ taken' = 0
        /\ UNCHANGED <<fed, rest, wstate, rcounter, done, fuse, out, ended>>
    BY <1>5 DEF ReadRefill, writervars
  <2>2. OpenedBytes' = OpenedBytes
    BY <2>1 DEF OpenedBytes
  <2>3. HandedTypes'
    <3>1. plain' \in Seq(Nat) /\ taken' \in 0..Len(plain')
      BY <2>1
    <3>2. asked' \in Nat
      BY <2>1, GcmAssumption
    <3> QED
      BY <1>0, <2>1, <3>1, <3>2 DEF HandedTypes
  <2>4. Len(out') + Len(plain') - taken' = OpenedBytes'
    <3>1. Len(out) = OpenedBytes
      BY <1>0, <1>a, <1>c, <2>1 DEF HandedData
    <3>2. Len(plain') = 0 /\ taken' = 0 /\ Len(out') = Len(out)
      BY <2>1
    <3> QED
      BY <1>a, <2>2, <3>1, <3>2
  <2>5. HandedData'
    BY <1>0, <2>1, <2>2, <2>4 DEF HandedData
  <2>6. HandedPhase'
    BY <1>0, <2>1 DEF HandedPhase
  <2> QED
    BY <2>3, <2>5, <2>6 DEF HandedInv
<1>6. CASE FillSegment
  <2>1. UNCHANGED <<fed, rest, wstate, asked, rcounter, plain, taken, done, fuse, out, ended>>
    BY <1>6 DEF FillSegment, writervars
  <2>2. OpenedBytes' = OpenedBytes
    BY <2>1 DEF OpenedBytes
  <2> QED
    BY <1>0, <2>1, <2>2 DEF HandedInv, HandedTypes, HandedData, HandedPhase
<1>7. CASE SourceFails
  <2>1. /\ asked' = 0
        /\ UNCHANGED <<fed, rest, wstate, rcounter, plain, taken, done, out, ended>>
    BY <1>7 DEF SourceFails, writervars
  <2>2. OpenedBytes' = OpenedBytes
    BY <2>1 DEF OpenedBytes
  <2>3. HandedTypes' /\ HandedData'
    BY <1>0, <2>1, <2>2 DEF HandedTypes, HandedData
  <2>4. HandedPhase'
    BY <1>0, <2>1 DEF HandedPhase
  <2> QED
    BY <2>3, <2>4 DEF HandedInv
<1>8. CASE TakeSegment
  BY <1>8, HandedTakes
<1> QED
  BY <1>1, <1>2, <1>3, <1>4, <1>5, <1>6, <1>7, <1>8 DEF GcmNext

-----------------------------------------------------------------------------
\* Bytes that were sealed together open.
LEMMA SealedOpens ==
  ASSUME NEW s \in Seq(Byte), NEW i \in Nat, NEW final \in BOOLEAN, NEW data \in Seq(Nat),
         Len(s) = Len(data) + TagLen,
         \A k \in 1..(Len(data) + TagLen) : s[k] = SealedByte(i, final, data, k)
  PROVE  Opens(i, final, s)
<1>1. /\ Sealed(i, final, data) \in Seq(Byte)
      /\ Len(Sealed(i, final, data)) = Len(data) + TagLen
      /\ \A k \in 1..(Len(data) + TagLen) :
           Sealed(i, final, data)[k] = SealedByte(i, final, data, k)
  BY SealedFacts
<1>2. s = Sealed(i, final, data)
  <2> DEFINE t == Sealed(i, final, data)
  <2>1. t \in Seq(Byte) /\ Len(t) = Len(s) /\ \A k \in 1..Len(s) : s[k] = t[k]
    BY <1>1
  <2> HIDE DEF t
  <2>2. s = t
    BY <2>1, SeqEqual
  <2> QED
    BY <2>2 DEF t
<1>3. s[1].data = data
  <2>1. 1 \in 1..(Len(data) + TagLen)
    BY GcmAssumption
  <2>2. s[1] = SealedByte(i, final, data, 1)
    BY <2>1
  <2> QED
    BY <2>2 DEF SealedByte
<1> QED
  BY <1>2, <1>3 DEF Opens

\* The segment that has been read of a stream that arrived as it was written.
IntactSegment ==
  /\ wire = sealed /\ WholeStream(sealed, counter - 1, fed)
  /\ rcounter \in Nat /\ counter \in Nat /\ rcounter <= counter - 1
  /\ segment \in Seq(Byte) /\ Len(segment) <= Limit
  /\ drawn = SealedAt(rcounter) + Len(segment)
  /\ \A k \in DOMAIN segment : segment[k] = wire[SealedAt(rcounter) + k]

\* What follows the full segments is the last one.
LEMMA LastFollows ==
  ASSUME IntactSegment, fed \in Nat
  PROVE  /\ counter - 1 \in Nat /\ SealedAt(counter - 1) \in Nat
         /\ SealedAt(rcounter) \in Nat /\ Begin(counter - 1) \in Nat
         /\ fed - Begin(counter - 1) \in Nat
         /\ Len(wire) = SealedAt(counter - 1) + (fed - Begin(counter - 1)) + TagLen
         /\ Len(wire) <= SealedAt(counter - 1) + Limit
         /\ rcounter < counter - 1 => SealedAt(rcounter) + Limit <= SealedAt(counter - 1)
<1> DEFINE m == counter - 1
<1>1. /\ m \in Nat /\ Begin(m) <= fed /\ fed <= Begin(m) + SegmentSize
      /\ Len(wire) = SealedAt(m) + (fed - Begin(m)) + TagLen
  BY GcmAssumption DEF IntactSegment, WholeStream
<1>2. rcounter \in Nat
  BY DEF IntactSegment
<1> HIDE DEF m
<1>3. SealedAt(m) \in Nat /\ SealedAt(rcounter) \in Nat /\ Begin(m) \in Nat
  BY <1>1, <1>2, Multiples
<1>4. rcounter < m => SealedAt(rcounter) + Limit <= SealedAt(m)
  BY <1>1, <1>2, LaterSegments
<1>5. fed - Begin(m) \in Nat /\ fed - Begin(m) <= SegmentSize
  BY <1>1, <1>3, GcmAssumption
<1>6. Len(wire) <= SealedAt(m) + Limit
  BY <1>1, <1>3, <1>5, GcmAssumption, SMTT(30) DEF Limit
<1> QED
  BY <1>1, <1>3, <1>4, <1>5, <1>6 DEF m

LEMMA IntactFull ==
  ASSUME IntactSegment, fed \in Nat, drawn # Len(wire), Len(segment) = Limit,
         drawn \in 0..Len(wire)
  PROVE  rcounter < counter - 1 /\ Verdict(FALSE) = "none"
<1>1. /\ counter - 1 \in Nat /\ SealedAt(counter - 1) \in Nat
      /\ SealedAt(rcounter) \in Nat
      /\ Len(wire) <= SealedAt(counter - 1) + Limit
  BY LastFollows
<1>2. /\ rcounter \in Nat /\ rcounter <= counter - 1 /\ segment \in Seq(Byte)
      /\ drawn = SealedAt(rcounter) + Limit /\ counter \in Nat
      /\ \A k \in DOMAIN segment : segment[k] = wire[SealedAt(rcounter) + k]
      /\ wire = sealed /\ WholeStream(sealed, counter - 1, fed)
  BY DEF IntactSegment
<1>3. Limit \in Nat /\ Limit >= TagLen
  BY Multiples, GcmAssumption DEF Limit
<1>4. rcounter # counter - 1
  <2> SUFFICES ASSUME rcounter = counter - 1 PROVE FALSE
    OBVIOUS
  <2>1. drawn = SealedAt(counter - 1) + Limit
    BY <1>2
  <2> HIDE DEF Limit
  <2>2. Len(wire) \in Nat /\ drawn <= Len(wire)
    OBVIOUS
  <2> QED
    BY <1>1, <1>3, <2>1, <2>2
<1>5. rcounter < counter - 1
  BY <1>1, <1>2, <1>4
<1> DEFINE data == Positions(Begin(rcounter), Begin(rcounter + 1))
<1>6. data \in Seq(Nat) /\ Len(data) + TagLen = Limit
  <2>1. /\ Begin(rcounter) \in Nat /\ Begin(rcounter + 1) = Begin(rcounter) + SegmentSize
        /\ Begin(rcounter + 1) \in Nat
    <3>1. rcounter + 1 \in Nat
      BY <1>2
    <3> QED
      BY <1>2, <3>1, Multiples
  <2>2. data \in Seq(Nat) /\ Len(data) = Begin(rcounter + 1) - Begin(rcounter)
    <3>1. Begin(rcounter) <= Begin(rcounter + 1)
      BY <2>1, GcmAssumption
    <3> QED
      BY <2>1, <3>1, PositionsFacts
  <2> QED
    BY <2>1, <2>2, GcmAssumption, SMTT(30) DEF Limit
<1>7. \A k \in 1..Limit : segment[k] = SealedByte(rcounter, FALSE, data, k)
  <2>1. rcounter \in 0..(counter - 1 - 1)
    BY <1>1, <1>2, <1>5
  <2>2. FullSegments(sealed, counter - 1)
    BY <1>2 DEF WholeStream
  <2>3. \A k \in 1..Limit :
          sealed[SealedAt(rcounter) + k] = SealedByte(rcounter, FALSE, data, k)
    BY <2>1, <2>2 DEF FullSegments
  <2>4. DOMAIN segment = 1..Limit
    BY <1>2
  <2> QED
    BY <1>2, <2>3, <2>4
<1> HIDE DEF data
<1>8. Opens(rcounter, FALSE, segment)
  BY <1>2, <1>6, <1>7, SealedOpens
<1>9. ~CounterFull(rcounter)
  <2>1. counter - 1 <= U32Max - 1
    BY <1>2 DEF WholeStream
  <2> QED
    BY <1>1, <1>2, <1>5, <2>1, GcmAssumption DEF CounterFull
<1>10. ~(Len(segment) < Limit) /\ ~(Len(segment) < TagLen)
  BY <1>3, GcmAssumption
<1>11. Verdict(FALSE) = "none"
  BY <1>8, <1>9, <1>10, Zenon DEF Verdict
<1> QED
  BY <1>5, <1>11

LEMMA IntactLast ==
  ASSUME IntactSegment, fed \in Nat, drawn = Len(wire)
  PROVE  Verdict(TRUE) = "none"
<1>1. /\ counter - 1 \in Nat /\ SealedAt(counter - 1) \in Nat
      /\ SealedAt(rcounter) \in Nat /\ Begin(counter - 1) \in Nat
      /\ fed - Begin(counter - 1) \in Nat
      /\ Len(wire) = SealedAt(counter - 1) + (fed - Begin(counter - 1)) + TagLen
      /\ rcounter < counter - 1 => SealedAt(rcounter) + Limit <= SealedAt(counter - 1)
  BY LastFollows
<1>2. /\ rcounter \in Nat /\ rcounter <= counter - 1 /\ segment \in Seq(Byte)
      /\ drawn = SealedAt(rcounter) + Len(segment) /\ Len(segment) <= Limit
      /\ \A k \in DOMAIN segment : segment[k] = wire[SealedAt(rcounter) + k]
      /\ wire = sealed /\ WholeStream(sealed, counter - 1, fed)
  BY DEF IntactSegment
<1>3. Limit \in Nat /\ TagLen \in Nat /\ TagLen > 0 /\ Len(segment) \in Nat
  BY <1>2, Multiples, GcmAssumption
<1>4. rcounter = counter - 1
  <2> SUFFICES ASSUME rcounter < counter - 1 PROVE FALSE
    BY <1>1, <1>2
  <2>1. SealedAt(rcounter) + Limit <= SealedAt(counter - 1)
    BY <1>1
  <2> HIDE DEF Limit
  <2>2. Len(wire) > SealedAt(counter - 1)
    BY <1>1, <1>3, SMTT(30)
  <2>3. Len(wire) = SealedAt(rcounter) + Len(segment)
    BY <1>2
  <2>4. Len(segment) <= Limit /\ SealedAt(rcounter) \in Nat /\ Len(wire) \in Nat
    BY <1>1, <1>2, <1>3
  <2>5. SealedAt(counter - 1) \in Nat
    BY <1>1
  <2> QED
    BY <1>3, <2>1, <2>2, <2>3, <2>4, <2>5
<1> DEFINE data == Positions(Begin(rcounter), fed)
           gap == fed - Begin(counter - 1)
<1>5. Len(segment) = gap + TagLen /\ gap \in Nat
  BY <1>1, <1>2, <1>3, <1>4, SMTT(30)
<1>6. data \in Seq(Nat) /\ Len(data) = gap
  <2>1. Begin(rcounter) \in Nat /\ Begin(rcounter) <= fed /\ gap = fed - Begin(rcounter)
    BY <1>1, <1>4
  <2> QED
    BY <2>1, PositionsFacts
<1>7. \A k \in 1..(gap + TagLen) : segment[k] = SealedByte(rcounter, TRUE, data, k)
  <2>1. LastSegment(sealed, rcounter, fed)
    BY <1>2, <1>4 DEF WholeStream
  <2>2. \A k \in 1..(gap + TagLen) :
          sealed[SealedAt(rcounter) + k] = SealedByte(rcounter, TRUE, data, k)
    <3>1. \A k \in 1..(fed - Begin(rcounter) + TagLen) :
            sealed[SealedAt(rcounter) + k] =
              SealedByte(rcounter, TRUE, Positions(Begin(rcounter), fed), k)
      BY <2>1 DEF LastSegment
    <3>2. gap = fed - Begin(rcounter)
      BY <1>4
    <3> QED
      BY <3>1, <3>2
  <2>3. DOMAIN segment = 1..(gap + TagLen)
    BY <1>2, <1>5
  <2> QED
    BY <1>2, <2>2, <2>3
<1> HIDE DEF data, gap
<1>8. Opens(rcounter, TRUE, segment)
  BY <1>2, <1>5, <1>6, <1>7, SealedOpens
<1>9. ~(Len(segment) < TagLen)
  BY <1>3, <1>5
<1>10. Verdict(TRUE) = "none"
  BY <1>8, <1>9, Zenon DEF Verdict
<1> QED
  BY <1>10

-----------------------------------------------------------------------------
LEMMA InitAligned == GcmInit => AlignedInv
  BY DEF GcmInit, AlignedInv

\* A stream that was finished arrives as it was written.
LEMMA AlignedArrives ==
  ASSUME WriterInv, WireInv, Deliver
  PROVE  AlignedInv'
<1> SUFFICES ASSUME complete', intact'
             PROVE  /\ fuse' = "none" /\ rcounter' <= counter' - 1
                    /\ Ahead' = <<>> /\ asked' = 0 /\ drawn' = SealedAt(rcounter')
  <2>1. SealedAt(0) = 0 /\ Limit \in Nat
    BY Multiples
  <2>2. rcounter' = 0
    <3>1. wstate # "delivered" /\ rcounter' = rcounter
      BY DEF Deliver, readervars
    <3> QED
      BY <3>1 DEF WireInv, Undelivered
  <2> QED
    BY <2>1, <2>2 DEF AlignedInv
<1>1. /\ wstate # "delivered"
      /\ UNCHANGED <<counter, complete, fed, sealed, drawn, asked, lookahead, rcounter, fuse>>
  BY DEF Deliver, readervars
<1>2. /\ drawn' = 0 /\ asked' = 0 /\ lookahead' = <<>> /\ rcounter' = 0
      /\ fuse' = "none"
  BY <1>1 DEF WireInv, Undelivered
<1>3. WholeStream(sealed, counter - 1, fed)
  BY <1>1 DEF WriterInv, SealedInv
<1>4. counter - 1 >= 0
  BY <1>3, GcmAssumption DEF WholeStream
<1>5. Ahead' = <<>>
  BY <1>2 DEF Ahead
<1> QED
  BY <1>1, <1>2, <1>4, <1>5, Multiples

\* The steps that only move what is read, or nothing.
LEMMA AlignedKept ==
  ASSUME AlignedInv,
         UNCHANGED <<wstate, complete, intact, counter, rcounter, wire, drawn>>,
         \/ /\ asked' = asked /\ fuse' = fuse /\ done' = done /\ Ahead' = Ahead
         \/ fuse' = "source"
  PROVE  AlignedInv'
  BY DEF AlignedInv

LEMMA AlignedFills ==
  ASSUME WriterInv, WireInv, HandedInv, AlignedInv, FillSegment
  PROVE  AlignedInv'
<1>1. PICK n \in 1..Least(Len(wire) - drawn, Limit - Len(segment)) :
        /\ segment' = segment \o SubSeq(wire, drawn + 1, drawn + n)
        /\ drawn' = drawn + n
  BY DEF FillSegment
<1>2. /\ asked > 0 /\ asked' = asked /\ Len(segment) < Limit
      /\ UNCHANGED <<counter, wstate, complete, intact, wire, rcounter, done, fuse>>
  BY DEF FillSegment, writervars
<1>3. /\ wire \in Seq(Byte) /\ drawn \in 0..Len(wire) /\ drawn \in Nat /\ Len(wire) \in Nat
      /\ segment \in Seq(Byte) /\ Len(segment) \in Nat /\ Limit \in Nat
      /\ rcounter \in Nat /\ SealedAt(rcounter) \in Nat
  <2>1. wire \in Seq(Byte) /\ drawn \in 0..Len(wire) /\ segment \in Seq(Byte)
    BY DEF WireInv, DrawnFrom
  <2>2. rcounter \in Nat
    BY DEF HandedInv, HandedTypes
  <2>3. SealedAt(rcounter) \in Nat /\ Limit \in Nat
    BY <2>2, Multiples
  <2>4. drawn \in Nat /\ Len(wire) \in Nat /\ Len(segment) \in Nat
    BY <2>1
  <2> QED
    BY <2>1, <2>2, <2>3, <2>4
<1>4. n \in Nat /\ drawn + n <= Len(wire) /\ Len(segment) + n <= Limit
  <2>1. Len(wire) - drawn \in Nat /\ Limit - Len(segment) \in Nat
    BY <1>2, <1>3
  <2>2. /\ Least(Len(wire) - drawn, Limit - Len(segment)) <= Len(wire) - drawn
        /\ Least(Len(wire) - drawn, Limit - Len(segment)) <= Limit - Len(segment)
        /\ Least(Len(wire) - drawn, Limit - Len(segment)) \in Nat
    BY <2>1, LeastFacts
  <2> QED
    BY <1>3, <2>2
<1> DEFINE more == SubSeq(wire, drawn + 1, drawn + n)
<1>5. /\ more \in Seq(Byte) /\ Len(more) = n
      /\ \A k \in 1..n : more[k] = wire[drawn + k]
  <2>1. \A i \in (drawn + 1)..(drawn + n) : wire[i] \in Byte
    BY <1>3, <1>4
  <2>2. /\ more \in Seq(Byte)
        /\ Len(more) = IF drawn + 1 <= drawn + n THEN drawn + n - (drawn + 1) + 1 ELSE 0
        /\ \A i \in 1..(drawn + n - (drawn + 1) + 1) : more[i] = wire[drawn + 1 + i - 1]
    BY <1>3, <1>4, <2>1, SubSeqProperties
  <2> HIDE DEF more
  <2>3. Len(more) = n /\ drawn + n - (drawn + 1) + 1 = n
    BY <1>3, <1>4, <2>2
  <2>4. ASSUME NEW k \in 1..n PROVE more[k] = wire[drawn + k]
    <3>1. more[k] = wire[drawn + 1 + k - 1] /\ k \in Nat
      BY <1>4, <2>2, <2>3
    <3>2. drawn + 1 + k - 1 = drawn + k
      BY <1>3, <3>1
    <3> QED
      BY <3>1, <3>2
  <2> QED
    BY <2>2, <2>3, <2>4
<1>6. segment' = segment \o more
  BY <1>1
<1> HIDE DEF more
<1>7. /\ Len(segment') = Len(segment) + n
      /\ \A k \in 1..(Len(segment) + n) :
           segment'[k] = IF k <= Len(segment) THEN segment[k] ELSE more[k - Len(segment)]
  BY <1>3, <1>5, <1>6, ConcatProperties
<1>8. segment' \in Seq(Byte)
  BY <1>3, <1>5, <1>6, ConcatProperties
<1> SUFFICES ASSUME wstate = "delivered", complete, intact
             PROVE  /\ fuse' \in {"none", "source"}
                    /\ fuse = "none" /\ ~done =>
                         /\ rcounter <= counter - 1
                         /\ Len(segment') <= Limit /\ drawn' = SealedAt(rcounter) + Len(segment')
                         /\ \A k \in DOMAIN segment' :
                              segment'[k] = wire[SealedAt(rcounter) + k]
  <2>1. Ahead' = segment' /\ asked' # 0
    BY <1>2 DEF Ahead
  <2> QED
    BY <1>2, <2>1 DEF AlignedInv
<1>9. /\ fuse' \in {"none", "source"}
      /\ fuse = "none" /\ ~done =>
           /\ rcounter <= counter - 1
           /\ drawn = SealedAt(rcounter) + Len(segment)
           /\ \A k \in DOMAIN segment : segment[k] = wire[SealedAt(rcounter) + k]
  <2>1. Ahead = segment
    BY <1>2 DEF Ahead
  <2> QED
    BY <1>2, <2>1 DEF AlignedInv
<1> SUFFICES ASSUME fuse = "none", ~done
             PROVE  /\ Len(segment') <= Limit /\ drawn' = SealedAt(rcounter) + Len(segment')
                    /\ \A k \in DOMAIN segment' :
                         segment'[k] = wire[SealedAt(rcounter) + k]
  BY <1>9
<1>10. Len(segment') <= Limit /\ drawn' = SealedAt(rcounter) + Len(segment')
  <2> HIDE DEF Limit
  <2>1. drawn' = drawn + n /\ drawn = SealedAt(rcounter) + Len(segment)
    BY <1>1, <1>9
  <2> QED
    BY <1>3, <1>4, <1>7, <2>1
<1>11. ASSUME NEW k \in DOMAIN segment'
       PROVE  segment'[k] = wire[SealedAt(rcounter) + k]
  <2>1. k \in 1..(Len(segment) + n) /\ k \in Nat
    BY <1>7, <1>8
  <2>2. CASE k <= Len(segment)
    <3>1. k \in DOMAIN segment
      BY <1>3, <2>1, <2>2
    <3> QED
      BY <1>7, <1>9, <2>1, <2>2, <3>1
  <2>3. CASE ~(k <= Len(segment))
    <3>1. k - Len(segment) \in 1..n
      BY <1>3, <1>4, <2>1, <2>3
    <3>2. segment'[k] = wire[drawn + (k - Len(segment))]
      BY <1>5, <1>7, <2>1, <2>3, <3>1
    <3>3. drawn + (k - Len(segment)) = SealedAt(rcounter) + k
      <4>1. drawn = SealedAt(rcounter) + Len(segment)
        BY <1>9
      <4> QED
        BY <1>3, <2>1, <4>1
    <3> QED
      BY <3>2, <3>3
  <2> QED
    BY <2>2, <2>3
<1> QED
  BY <1>10, <1>11

LEMMA AlignedTakes ==
  ASSUME WriterInv, WireInv, HandedInv, AlignedInv, TakeSegment
  PROVE  AlignedInv'
<1>0. /\ segment \in Seq(Byte) /\ Len(segment) \in Nat /\ fed \in Nat
      /\ drawn \in 0..Len(wire) /\ rcounter \in Nat /\ counter \in Nat /\ wire \in Seq(Byte)
      /\ Limit \in Nat /\ SealedAt(rcounter) \in Nat /\ Len(wire) \in Nat /\ drawn \in Nat
      /\ SealedAt(rcounter + 1) = SealedAt(rcounter) + Limit
  <2>1. segment \in Seq(Byte) /\ drawn \in 0..Len(wire) /\ wire \in Seq(Byte)
    BY DEF WireInv, DrawnFrom
  <2>2. fed \in Nat /\ counter \in Nat
    BY GcmAssumption DEF WriterInv, WriterTypes
  <2>3. rcounter \in Nat
    BY DEF HandedInv, HandedTypes
  <2>4. /\ SealedAt(rcounter) \in Nat /\ Limit \in Nat
        /\ SealedAt(rcounter + 1) = SealedAt(rcounter) + Limit
    BY <2>3, Multiples
  <2>5. drawn \in Nat /\ Len(wire) \in Nat /\ Len(segment) \in Nat
    BY <2>1
  <2> QED
    BY <2>1, <2>2, <2>3, <2>4, <2>5
<1>1. /\ asked > 0 /\ asked' = 0 /\ (Len(segment) = Limit \/ drawn = Len(wire))
      /\ fuse' = Verdict(drawn = Len(wire))
      /\ done' = (fuse' = "none" /\ drawn = Len(wire))
      /\ rcounter' = IF fuse' = "none" /\ drawn # Len(wire) THEN rcounter + 1 ELSE rcounter
      /\ lookahead' = IF drawn = Len(wire) THEN <<>> ELSE <<wire[drawn + 1]>>
      /\ drawn' = IF drawn = Len(wire) THEN drawn ELSE drawn + 1
      /\ UNCHANGED <<counter, sealed, fed, wstate, complete, intact, wire>>
  BY DEF TakeSegment, writervars
<1>2. wstate = "delivered" /\ fuse = "none" /\ ~done
  BY <1>1 DEF HandedInv, HandedPhase
<1>3. Ahead = segment /\ Ahead' = lookahead'
  BY <1>1 DEF Ahead
<1> SUFFICES ASSUME complete, intact
             PROVE  /\ fuse' = "none"
                    /\ done' \/ /\ rcounter' <= counter - 1
                                /\ Len(lookahead') <= 1
                                /\ drawn' = SealedAt(rcounter') + Len(lookahead')
                                /\ \A k \in DOMAIN lookahead' :
                                     lookahead'[k] = wire[SealedAt(rcounter') + k]
  <2>1. Limit >= 1
    BY Multiples
  <2> QED
    BY <1>0, <1>1, <1>3, <2>1 DEF AlignedInv
<1>4. IntactSegment
  <2>1. wire = sealed /\ WholeStream(sealed, counter - 1, fed)
    BY <1>2 DEF WireInv, WriterInv, SealedInv
  <2>2. /\ rcounter <= counter - 1 /\ Len(segment) <= Limit
        /\ drawn = SealedAt(rcounter) + Len(segment)
        /\ \A k \in DOMAIN segment : segment[k] = wire[SealedAt(rcounter) + k]
    BY <1>2, <1>3 DEF AlignedInv
  <2> QED
    BY <1>0, <2>1, <2>2 DEF IntactSegment
<1>5. CASE drawn = Len(wire)
  <2>1. Verdict(TRUE) = "none"
    BY <1>0, <1>4, <1>5, IntactLast
  <2>2. (drawn = Len(wire)) = TRUE
    BY <1>5
  <2>3. fuse' = "none" /\ done'
    BY <1>1, <2>1, <2>2
  <2> QED
    BY <2>3
<1>6. CASE drawn # Len(wire)
  <2>1. Len(segment) = Limit
    BY <1>1, <1>6
  <2>2. rcounter < counter - 1 /\ Verdict(FALSE) = "none"
    BY <1>0, <1>4, <1>6, <2>1, IntactFull
  <2>3. (drawn = Len(wire)) = FALSE
    BY <1>6
  <2>4. fuse' = "none"
    BY <1>1, <2>2, <2>3
  <2>5. rcounter' = rcounter + 1 /\ lookahead' = <<wire[drawn + 1]>> /\ drawn' = drawn + 1
    BY <1>1, <1>6, <2>4
  <2>6. rcounter' <= counter - 1
    BY <1>0, <2>2, <2>5
  <2>7. SealedAt(rcounter') = drawn
    <3>1. drawn = SealedAt(rcounter) + Len(segment)
      BY <1>4 DEF IntactSegment
    <3> QED
      BY <1>0, <2>1, <2>5, <3>1
  <2>8. Len(lookahead') = 1 /\ \A k \in DOMAIN lookahead' : lookahead'[k] = wire[drawn + k]
    BY <2>5
  <2>9. drawn' = SealedAt(rcounter') + Len(lookahead')
    BY <2>5, <2>7, <2>8
  <2> QED
    BY <2>4, <2>6, <2>7, <2>8, <2>9
<1> QED
  BY <1>5, <1>6

LEMMA AlignedStep ==
  ASSUME WriterInv, WireInv, HandedInv, AlignedInv, GcmNext
  PROVE  AlignedInv'
<1>1. CASE WriteCall \/ WriteTurn \/ FinishStream
  BY <1>1, WriterMoves DEF AlignedInv
<1>2. CASE Deliver
  BY <1>2, AlignedArrives
<1>3. CASE ReadBuffered \/ ReadEnd
  <2>1. UNCHANGED <<wstate, complete, intact, counter, rcounter, wire, drawn, asked, fuse,
                    done, segment, lookahead>>
    BY <1>3 DEF ReadBuffered, ReadEnd, writervars
  <2>2. Ahead' = Ahead
    BY <2>1 DEF Ahead
  <2> QED
    BY <2>1, <2>2, AlignedKept
<1>4. CASE ReadRefill
  <2>1. /\ asked = 0 /\ asked' \in ReadSizes /\ segment' = lookahead
        /\ UNCHANGED <<wstate, complete, intact, counter, rcounter, wire, drawn, fuse, done>>
    BY <1>4 DEF ReadRefill, writervars, Carried
  <2>2. asked' > 0 /\ ~(asked' = 0) /\ ~(asked > 0)
    BY <2>1, GcmAssumption
  <2>3. Ahead' = Ahead
    BY <2>1, <2>2 DEF Ahead
  <2>4. Limit >= 1
    BY Multiples
  <2> QED
    BY <2>1, <2>2, <2>3 DEF AlignedInv
<1>5. CASE FillSegment
  BY <1>5, AlignedFills
<1>6. CASE SourceFails
  <2>1. /\ fuse' = "source"
        /\ UNCHANGED <<wstate, complete, intact, counter, rcounter, wire, drawn>>
    BY <1>6 DEF SourceFails, writervars
  <2> QED
    BY <2>1, AlignedKept
<1>7. CASE TakeSegment
  BY <1>7, AlignedTakes
<1> QED
  BY <1>1, <1>2, <1>3, <1>4, <1>5, <1>6, <1>7 DEF GcmNext

-----------------------------------------------------------------------------
GcmSpec == GcmInit /\ [][GcmNext]_gvars

LEMMA GcmInitially == GcmInit => GcmInv
  BY InitWriter, InitWire, InitHanded, InitAligned DEF GcmInv, ReaderInv

LEMMA GcmKept == GcmInv /\ [GcmNext]_gvars => GcmInv'
<1> SUFFICES ASSUME GcmInv, [GcmNext]_gvars PROVE GcmInv'
  OBVIOUS
<1>1. WriterInv /\ WireInv /\ HandedInv /\ AlignedInv
  BY DEF GcmInv, ReaderInv
<1>2. CASE GcmNext
  BY <1>1, <1>2, WriterStep, WireStep, HandedStep, AlignedStep DEF GcmInv, ReaderInv
<1>3. CASE UNCHANGED gvars
  <2>1. UNCHANGED <<fed, rest, buf, counter, sealed, wstate, complete, intact, wire, drawn,
                    asked, segment, rcounter, lookahead, plain, taken, done, fuse, out,
                    ended>>
    BY <1>3 DEF gvars, writervars, readervars
  <2>2. WriterInv'
    BY <1>1, <2>1 DEF WriterInv, WriterTypes, OpenInv, SealedInv
  <2>3. WireInv'
    BY <1>1, <2>1 DEF WireInv, Undelivered
  <2>4. HandedInv'
    BY <1>1, <2>1 DEF HandedInv, HandedTypes, HandedData, HandedPhase, OpenedBytes
  <2>5. AlignedInv'
    BY <1>1, <2>1 DEF AlignedInv, Ahead
  <2> QED
    BY <2>2, <2>3, <2>4, <2>5 DEF GcmInv, ReaderInv
<1> QED
  BY <1>2, <1>3

LEMMA GcmInvariant == GcmSpec => []GcmInv
<1>1. GcmInit => GcmInv
  BY GcmInitially
<1>2. GcmInv /\ [GcmNext]_gvars => GcmInv'
  BY GcmKept
<1> QED
  BY <1>1, <1>2, PTL DEF GcmSpec

LEMMA HandedOriginal == GcmInv => OnlyTheOriginal
<1> SUFFICES ASSUME GcmInv PROVE OnlyTheOriginal
  OBVIOUS
<1>1. HandedTypes /\ HandedData /\ HandedPhase /\ fed \in Nat
  BY DEF GcmInv, ReaderInv, HandedInv, WriterInv, WriterTypes
<1>2. out \in Seq(Nat) /\ Len(out) \in Nat /\ Len(plain) - taken \in Nat
  BY <1>1 DEF HandedTypes
<1>3. Len(out) + (Len(plain) - taken) = OpenedBytes /\ OpenedBytes <= fed
  <2>1. Len(plain) \in Nat /\ taken \in Nat
    BY <1>1 DEF HandedTypes
  <2> QED
    BY <1>1, <1>2, <2>1 DEF HandedData
<1>4. OpenedBytes \in Nat
  BY <1>2, <1>3
<1>5. Len(out) <= fed
  BY <1>1, <1>2, <1>3, <1>4
<1>6. out = Positions(0, Len(out))
  <2> DEFINE p == Positions(0, Len(out))
  <2>1. /\ p \in Seq(Nat) /\ Len(p) = Len(out) - 0
        /\ \A k \in 1..(Len(out) - 0) : p[k] = 0 + k
    <3>1. 0 \in Nat /\ Len(out) \in Nat /\ 0 <= Len(out)
      BY <1>2
    <3> QED
      BY <3>1, PositionsFacts
  <2> HIDE DEF p
  <2>2. ASSUME NEW k \in 1..Len(out) PROVE out[k] = p[k]
    <3>1. out[k] = k
      BY <1>1, <1>2 DEF HandedData
    <3>2. p[k] = k
      BY <1>2, <2>1
    <3> QED
      BY <3>1, <3>2
  <2>3. Len(p) = Len(out)
    BY <1>2, <2>1
  <2>4. out = p
    BY <1>2, <2>1, <2>2, <2>3, SeqEqual
  <2> QED
    BY <2>4 DEF p
<1>7. ended => Len(out) = fed /\ rest = 0
  <2> SUFFICES ASSUME ended PROVE Len(out) = fed /\ rest = 0
    OBVIOUS
  <2>1. done /\ taken = Len(plain) /\ rest = 0
    BY <1>1 DEF HandedPhase
  <2>2. OpenedBytes = fed
    BY <2>1 DEF OpenedBytes
  <2> QED
    BY <1>1, <1>2, <1>3, <2>1, <2>2 DEF HandedTypes
<1> QED
  BY <1>5, <1>6, <1>7 DEF OnlyTheOriginal

LEMMA IntactRead == GcmInv => IntactIsRead
<1> SUFFICES ASSUME GcmInv, complete, intact PROVE fuse \in {"none", "source"}
  BY DEF IntactIsRead
<1>1. CASE wstate = "delivered"
  BY <1>1 DEF GcmInv, ReaderInv, AlignedInv
<1>2. CASE wstate # "delivered"
  BY <1>2 DEF GcmInv, ReaderInv, WireInv, Undelivered
<1> QED
  BY <1>1, <1>2

-----------------------------------------------------------------------------
(* The stream of chained blocks: CbcStream                                 *)

\* Where the k-th block ends.
At(k) == k * BlockSize

\* The last block, when there were f bytes of data.
IsLastBlock(b, n, f) ==
  /\ n \in Nat /\ At(n) <= f /\ f < At(n) + BlockSize
  /\ b \in Seq(Nat) /\ Len(b) = BlockSize
  /\ \A j \in 1..BlockSize : b[j] = IF j <= f - At(n) THEN At(n) + j ELSE 0
IsDataBlock(b, n) == b = Bytes(At(n), At(n + 1))

CbcTypes ==
  /\ put \in Nat /\ pending \in Seq(Nat) /\ blocks \in Seq(Seq(Nat))
  /\ phase \in {"write", "finished", "open", "failed", "broken"}
  /\ arrived \in Nat /\ fetched \in Nat /\ held \in Nat /\ opened \in Nat
  /\ spill \in Seq(Nat) /\ page \in Seq(Nat) /\ got \in Seq(Nat)
  /\ eof \in BOOLEAN /\ told \in BOOLEAN /\ wanted \in Nat
WritingInv ==
  phase = "write" =>
    /\ \A k \in 1..Len(blocks) : IsDataBlock(blocks[k], k - 1)
    /\ pending = Bytes(At(Len(blocks)), put)
    /\ At(Len(blocks)) <= put /\ put < At(Len(blocks)) + BlockSize
WrittenInv ==
  phase # "write" =>
    /\ Len(blocks) >= 1
    /\ \A k \in 1..(Len(blocks) - 1) : IsDataBlock(blocks[k], k - 1)
    /\ IsLastBlock(blocks[Len(blocks)], Len(blocks) - 1, put)
Unread ==
  /\ arrived = 0 /\ fetched = 0 /\ held = 0 /\ opened = 0
  /\ spill = <<>> /\ eof = FALSE /\ wanted = 0 /\ page = <<>>
  /\ got = <<>> /\ told = FALSE

\* The bytes that follow the first n.
Stretch(s, n) == s \in Seq(Nat) /\ \A i \in DOMAIN s : s[i] = n + i

\* What has been handed out, or lies in the caller's buffer or for the next call.
Total == Len(got) + Len(page) + Len(spill)
ReadBytes ==
  /\ Stretch(got, 0) /\ Stretch(page, Len(got)) /\ Stretch(spill, Len(got) + Len(page))
  /\ Total <= put /\ Len(spill) < BlockSize
Complete == arrived = At(Len(blocks))
ReadPlace ==
  /\ phase \in {"write", "finished"} => Unread
  /\ phase = "open" /\ ~eof =>
       /\ Total = At(opened) /\ held = opened + 1
       /\ fetched = At(held) /\ fetched <= arrived
  /\ phase # "write" => arrived <= At(Len(blocks))
  /\ phase = "failed" => ~Complete
  /\ eof /\ Complete => Total = put
ReadPhase ==
  /\ wanted > 0 => phase = "open" /\ ~eof /\ spill = <<>> /\ ~told
  /\ wanted = 0 => page = <<>>
  /\ told => eof /\ spill = <<>> /\ wanted = 0
CbcInv == CbcTypes /\ WritingInv /\ WrittenInv /\ ReadBytes /\ ReadPlace /\ ReadPhase

-----------------------------------------------------------------------------
(* Numbers and sequences                                                   *)

LEMMA DivFacts ==
  ASSUME NEW a \in Nat, NEW b \in Nat \ {0}
  PROVE  /\ a \div b \in Nat
         /\ (a \div b) * b <= a /\ a < (a \div b) * b + b
  OBVIOUS
LEMMA DivMultiple ==
  ASSUME NEW k \in Nat, NEW b \in Nat \ {0}
  PROVE  (k * b) \div b = k
  OBVIOUS
LEMMA ModMultiple ==
  ASSUME NEW k \in Nat, NEW b \in Nat \ {0}
  PROVE  (k * b) % b = 0
  OBVIOUS
LEMMA ModZero ==
  ASSUME NEW a \in Nat, NEW b \in Nat \ {0}, a % b = 0
  PROVE  a = (a \div b) * b
  OBVIOUS

LEMMA AtFacts ==
  /\ BlockSize \in Nat \ {0} /\ At(0) = 0
  /\ \A i \in Nat : At(i) \in Nat /\ At(i + 1) = At(i) + BlockSize
<1>1. BlockSize \in Nat \ {0}
  BY CbcAssumption
<1> QED
  BY <1>1 DEF At

LEMMA AtSum ==
  ASSUME NEW i \in Nat, NEW j \in Nat
  PROVE  At(i + j) = At(i) + At(j)
  BY CbcAssumption DEF At

LEMMA AtOrder ==
  ASSUME NEW i \in Nat, NEW j \in Nat
  PROVE  /\ i <= j => At(i) <= At(j)
         /\ i < j => At(i) + BlockSize <= At(j)
         /\ At(i) <= At(j) => i <= j
<1>1. \A m, n \in Nat : m < n => At(m) + BlockSize <= At(n)
  <2> SUFFICES ASSUME NEW m \in Nat, NEW n \in Nat, m < n PROVE At(m) + BlockSize <= At(n)
    OBVIOUS
  <2>1. n - m - 1 \in Nat /\ n = m + 1 + (n - m - 1)
    OBVIOUS
  <2>2. At(n) = At(m + 1) + At(n - m - 1)
    BY <2>1, AtSum
  <2>3. At(m + 1) = At(m) + BlockSize /\ At(m) \in Nat /\ At(n - m - 1) \in Nat /\ BlockSize \in Nat
    BY <2>1, AtFacts
  <2> QED
    BY <2>2, <2>3
<1>2. At(i) \in Nat /\ At(j) \in Nat /\ BlockSize \in Nat \ {0}
  BY AtFacts
<1>3. i < j => At(i) + BlockSize <= At(j)
  BY <1>1
<1>4. j < i => At(j) + BlockSize <= At(i)
  BY <1>1
<1>5. i = j => At(i) = At(j)
  OBVIOUS
<1> QED
  BY <1>2, <1>3, <1>4, <1>5

LEMMA ShorterFacts ==
  ASSUME NEW a \in Nat, NEW b \in Nat
  PROVE  /\ Shorter(a, b) \in Nat /\ Shorter(a, b) <= a /\ Shorter(a, b) <= b
         /\ Shorter(a, b) = a \/ Shorter(a, b) = b
  BY DEF Shorter

LEMMA BytesFacts ==
  ASSUME NEW from \in Nat, NEW to \in Nat, from <= to
  PROVE  /\ Bytes(from, to) \in Seq(Nat)
         /\ Len(Bytes(from, to)) = to - from
         /\ \A k \in 1..(to - from) : Bytes(from, to)[k] = from + k
  BY DEF Bytes

\* A sequence of the bytes from one on is that stretch.
LEMMA IsBytes ==
  ASSUME NEW s \in Seq(Nat), NEW from \in Nat, NEW to \in Nat, from <= to,
         Len(s) = to - from, \A k \in 1..(to - from) : s[k] = from + k
  PROVE  s = Bytes(from, to)
<1> DEFINE t == Bytes(from, to)
<1>1. /\ t \in Seq(Nat) /\ Len(t) = to - from
      /\ \A k \in 1..(to - from) : t[k] = from + k
  BY BytesFacts
<1> HIDE DEF t
<1>2. s = t
  BY <1>1, SeqEqual
<1> QED
  BY <1>2 DEF t

LEMMA JoinFacts ==
  ASSUME NEW S, NEW a \in Seq(S), NEW b \in Seq(S)
  PROVE  /\ a \o b \in Seq(S) /\ Len(a \o b) = Len(a) + Len(b)
         /\ Len(a) \in Nat /\ Len(b) \in Nat
         /\ \A k \in 1..Len(a) : (a \o b)[k] = a[k]
         /\ \A k \in 1..Len(b) : (a \o b)[Len(a) + k] = b[k]
<1>1. /\ a \o b \in Seq(S) /\ Len(a \o b) = Len(a) + Len(b)
      /\ \A k \in 1..(Len(a) + Len(b)) :
           (a \o b)[k] = IF k <= Len(a) THEN a[k] ELSE b[k - Len(a)]
  BY ConcatProperties
<1>2. Len(a) \in Nat /\ Len(b) \in Nat
  OBVIOUS
<1>3. ASSUME NEW k \in 1..Len(a) PROVE (a \o b)[k] = a[k]
  <2>1. k \in 1..(Len(a) + Len(b)) /\ k <= Len(a)
    BY <1>2
  <2> QED
    BY <1>1, <2>1
<1>4. ASSUME NEW k \in 1..Len(b) PROVE (a \o b)[Len(a) + k] = b[k]
  <2>1. Len(a) + k \in 1..(Len(a) + Len(b)) /\ ~(Len(a) + k <= Len(a)) /\ Len(a) + k - Len(a) = k
    BY <1>2
  <2> QED
    BY <1>1, <2>1
<1> QED
  BY <1>1, <1>2, <1>3, <1>4

LEMMA PartFacts ==
  ASSUME NEW S, NEW s \in Seq(S), NEW a \in Nat, NEW b \in Nat, a <= b, b <= Len(s)
  PROVE  /\ SubSeq(s, a + 1, b) \in Seq(S) /\ Len(SubSeq(s, a + 1, b)) = b - a
         /\ \A k \in 1..(b - a) : SubSeq(s, a + 1, b)[k] = s[a + k]
<1>1. Len(s) \in Nat /\ \A i \in (a + 1)..b : s[i] \in S
  OBVIOUS
<1> DEFINE p == SubSeq(s, a + 1, b)
<1>2. /\ p \in Seq(S)
      /\ Len(p) = IF a + 1 <= b THEN b - (a + 1) + 1 ELSE 0
      /\ \A i \in 1..(b - (a + 1) + 1) : p[i] = s[a + 1 + i - 1]
  BY <1>1, SubSeqProperties
<1> HIDE DEF p
<1>3. Len(p) = b - a /\ b - (a + 1) + 1 = b - a
  BY <1>2
<1>4. ASSUME NEW k \in 1..(b - a) PROVE p[k] = s[a + k]
  <2>1. p[k] = s[a + 1 + k - 1] /\ a + 1 + k - 1 = a + k
    BY <1>2, <1>3
  <2> QED
    BY <2>1
<1> QED
  BY <1>2, <1>3, <1>4 DEF p

LEMMA BytesJoin ==
  ASSUME NEW a \in Nat, NEW b \in Nat, NEW c \in Nat, a <= b, b <= c
  PROVE  Bytes(a, b) \o Bytes(b, c) = Bytes(a, c)
<1> DEFINE u == Bytes(a, b)
           v == Bytes(b, c)
<1>1. /\ u \in Seq(Nat) /\ Len(u) = b - a
      /\ \A k \in 1..(b - a) : u[k] = a + k
  BY BytesFacts
<1>2. /\ v \in Seq(Nat) /\ Len(v) = c - b
      /\ \A k \in 1..(c - b) : v[k] = b + k
  BY BytesFacts
<1> HIDE DEF u, v
<1>3. /\ u \o v \in Seq(Nat) /\ Len(u \o v) = Len(u) + Len(v)
      /\ \A k \in 1..Len(u) : (u \o v)[k] = u[k]
      /\ \A k \in 1..Len(v) : (u \o v)[Len(u) + k] = v[k]
  <2>1. u \in Seq(Nat) /\ v \in Seq(Nat)
    BY <1>1, <1>2
  <2> QED
    BY <2>1, JoinFacts
<1>4. a <= c /\ Len(u \o v) = c - a
  <2>1. Len(u \o v) = (b - a) + (c - b)
    BY <1>1, <1>2, <1>3
  <2> QED
    BY <2>1
<1>5. ASSUME NEW k \in 1..(c - a) PROVE (u \o v)[k] = a + k
  <2>1. CASE k <= b - a
    <3>1. k \in 1..Len(u) /\ k \in 1..(b - a)
      BY <1>1, <2>1
    <3> QED
      BY <1>1, <1>3, <3>1
  <2>2. CASE ~(k <= b - a)
    <3>1. k - (b - a) \in 1..(c - b)
      BY <2>2
    <3>2. k - (b - a) \in 1..Len(v) /\ Len(u) + (k - (b - a)) = k
      BY <1>1, <1>2, <3>1
    <3>3. (u \o v)[k] = v[k - (b - a)]
      BY <1>3, <3>2
    <3>4. v[k - (b - a)] = b + (k - (b - a))
      BY <1>2, <3>1
    <3>5. b + (k - (b - a)) = a + k
      OBVIOUS
    <3> QED
      BY <3>3, <3>4, <3>5
  <2> QED
    BY <2>1, <2>2
<1>6. u \o v = Bytes(a, c)
  BY <1>3, <1>4, <1>5, IsBytes
<1> QED
  BY <1>6 DEF u, v

LEMMA BytesPart ==
  ASSUME NEW from \in Nat, NEW to \in Nat, from <= to, NEW a \in Nat, NEW b \in Nat,
         a <= b, b <= to - from
  PROVE  SubSeq(Bytes(from, to), a + 1, b) = Bytes(from + a, from + b)
<1> DEFINE u == Bytes(from, to)
<1>1. /\ u \in Seq(Nat) /\ Len(u) = to - from
      /\ \A k \in 1..(to - from) : u[k] = from + k
  BY BytesFacts
<1> HIDE DEF u
<1> DEFINE p == SubSeq(u, a + 1, b)
<1>2. /\ p \in Seq(Nat) /\ Len(p) = b - a
      /\ \A k \in 1..(b - a) : p[k] = u[a + k]
  BY <1>1, PartFacts
<1> HIDE DEF p
<1>3. from + a \in Nat /\ from + b \in Nat /\ from + a <= from + b
      /\ (from + b) - (from + a) = b - a
  OBVIOUS
<1>4. ASSUME NEW k \in 1..(b - a) PROVE p[k] = from + a + k
  <2>1. a + k \in 1..(to - from) /\ k \in Nat
    OBVIOUS
  <2>2. u[a + k] = from + (a + k)
    BY <1>1, <2>1
  <2> QED
    BY <1>2, <2>1, <2>2
<1>5. p = Bytes(from + a, from + b)
  BY <1>2, <1>3, <1>4, IsBytes, ZenonT(60)
<1> QED
  BY <1>5 DEF p, u

-----------------------------------------------------------------------------
(* What FlattenSeq makes of a chain of blocks.                             *)

LEMMA FlattenChain ==
  ASSUME NEW base \in Nat, NEW n \in Nat, NEW ss \in Seq(Seq(Nat)), Len(ss) = n + 1,
         \A k \in 1..n : ss[k] = Bytes(base + At(k - 1), base + At(k))
  PROVE  FlattenSeq(ss) = Bytes(base, base + At(n)) \o ss[n + 1]
<1> DEFINE Acc == [i \in 1..(n + 1) |->
                   IF i <= n THEN Bytes(base, base + At(i))
                   ELSE Bytes(base, base + At(n)) \o ss[n + 1]]
<1>1. ASSUME NEW i \in 1..(n + 1)
      PROVE  Acc[i] = IF i = 1 THEN ss[i] ELSE Acc[i - 1] \o ss[i]
  <2>0. i \in Nat /\ i - 1 \in Nat /\ i <= n + 1
    OBVIOUS
  <2>1. Bytes(base, base + At(0)) = <<>> /\ At(0) = 0
    <3>1. At(0) = 0
      BY AtFacts
    <3>2. base + At(0) = base /\ base <= base
      BY <3>1
    <3> DEFINE b == Bytes(base, base)
    <3>3. b = <<>>
      <4>1. b \in Seq(Nat) /\ Len(b) = base - base
        BY <3>2, BytesFacts
      <4> HIDE DEF b
      <4>2. Len(b) = 0
        BY <4>1
      <4> QED
        BY <4>1, <4>2
    <3> QED
      BY <3>1, <3>2, <3>3
  <2>2. CASE i <= n
    <3>1. ss[i] = Bytes(base + At(i - 1), base + At(i))
      BY <2>2
    <3>2. /\ At(i - 1) \in Nat /\ At(i) \in Nat /\ At(i - 1) <= At(i)
      <4> DEFINE j == i - 1
      <4>1. j \in Nat /\ i = j + 1
        BY <2>0
      <4> HIDE DEF j
      <4>2. At(j) \in Nat /\ At(j + 1) = At(j) + BlockSize /\ At(j + 1) \in Nat
        <5>1. j + 1 \in Nat
          BY <4>1
        <5> QED
          BY <4>1, <5>1, AtFacts
      <4>3. At(j) <= At(j + 1)
        BY <4>2, AtFacts
      <4>4. i - 1 = j
        BY <4>1
      <4> QED
        BY <4>1, <4>2, <4>3, <4>4
    <3>3. Bytes(base, base + At(i - 1)) \o ss[i] = Bytes(base, base + At(i))
      <4> DEFINE x == base + At(i - 1)
                 y == base + At(i)
      <4>1. x \in Nat /\ y \in Nat /\ base <= x /\ x <= y /\ ss[i] = Bytes(x, y)
        BY <3>1, <3>2
      <4> HIDE DEF x, y
      <4>2. Bytes(base, x) \o Bytes(x, y) = Bytes(base, y)
        <5>1. x \in Nat /\ y \in Nat /\ base <= x /\ x <= y
          BY <4>1
        <5> QED
          BY <5>1, BytesJoin
      <4>3. Bytes(base, x) \o ss[i] = Bytes(base, y)
        BY <4>1, <4>2
      <4> QED
        BY <4>3 DEF x, y
    <3>4. CASE i = 1
      <4>1. ss[1] = Bytes(base, base + At(1))
        BY <2>1, <3>1, <3>4
      <4> QED
        BY <2>2, <3>4, <4>1
    <3>5. CASE i # 1
      <4>1. i - 1 \in 1..(n + 1) /\ i - 1 <= n
        BY <2>2, <3>5
      <4>2. Acc[i - 1] = Bytes(base, base + At(i - 1))
        BY <4>1
      <4> QED
        BY <2>2, <3>3, <3>5, <4>2
    <3> QED
      BY <3>4, <3>5
  <2>3. CASE ~(i <= n)
    <3>1. i = n + 1
      BY <2>0, <2>3
    <3>2. Acc[i] = Bytes(base, base + At(n)) \o ss[n + 1]
      BY <2>3
    <3>3. CASE n = 0
      <4>1. ss[1] \in Seq(Nat)
        BY <3>3
      <4>2. <<>> \o ss[1] = ss[1]
        BY <4>1
      <4>3. base + At(n) = base + At(0) /\ ss[n + 1] = ss[1] /\ i = 1
        BY <3>1, <3>3
      <4>4. Acc[i] = <<>> \o ss[1]
        BY <2>1, <3>2, <4>3
      <4> QED
        BY <4>2, <4>3, <4>4
    <3>4. CASE n # 0
      <4>1. n \in 1..(n + 1) /\ i - 1 = n /\ i # 1
        BY <3>1, <3>4
      <4>2. Acc[n] = Bytes(base, base + At(n))
        BY <4>1
      <4> QED
        BY <3>1, <3>2, <4>1, <4>2
    <3> QED
      BY <3>3, <3>4
  <2> QED
    BY <2>2, <2>3
<1>2. Acc[n + 1] = Bytes(base, base + At(n)) \o ss[n + 1]
  BY n + 1 \in 1..(n + 1), ~(n + 1 <= n)
<1>3. Acc = [i \in 1..(n + 1) |-> Acc[i]]
  OBVIOUS
<1> HIDE DEF Acc
<1>4. Joins(Acc, ss)
  BY <1>1, <1>3 DEF Joins
<1> DEFINE h == CHOOSE g : Joins(g, ss)
<1>5. Joins(h, ss)
  BY <1>4
<1>6. FlattenSeq(ss) = h[Len(ss)]
  BY FlattenJoins
<1> HIDE DEF h
<1>7. h[Len(ss)] = Acc[Len(ss)]
  BY <1>4, <1>5, JoinsUnique
<1> QED
  BY <1>2, <1>6, <1>7

-----------------------------------------------------------------------------
(* The writer                                                              *)

LEMMA BlocksFacts ==
  ASSUME NEW from \in Nat, NEW to \in Nat, from <= to, NEW q, q = (to - from) \div BlockSize
  PROVE  /\ q \in Nat /\ At(q) <= to - from /\ to - from < At(q) + BlockSize
         /\ Blocks(Bytes(from, to)) \in Seq(Seq(Nat)) /\ Len(Blocks(Bytes(from, to))) = q
         /\ \A k \in 1..q : Blocks(Bytes(from, to))[k] = Bytes(from + At(k - 1), from + At(k))
<1> DEFINE s == Bytes(from, to)
           n == to - from
<1>1. n \in Nat /\ Len(s) = n /\ s \in Seq(Nat)
  <2>1. s \in Seq(Nat) /\ Len(s) = to - from
    BY BytesFacts
  <2> QED
    BY <2>1
<1>2. q \in Nat /\ At(q) <= n /\ n < At(q) + BlockSize
  <2>1. n \div BlockSize \in Nat /\ (n \div BlockSize) * BlockSize <= n
        /\ n < (n \div BlockSize) * BlockSize + BlockSize
    BY <1>1, CbcAssumption, DivFacts
  <2> QED
    BY <2>1 DEF At
<1>3. ASSUME NEW k \in 1..q
      PROVE  /\ SubSeq(s, (k - 1) * BlockSize + 1, k * BlockSize) =
                  Bytes(from + At(k - 1), from + At(k))
             /\ Bytes(from + At(k - 1), from + At(k)) \in Seq(Nat)
  <2> DEFINE j == k - 1
  <2>1. j \in Nat /\ k \in Nat /\ j <= k /\ k <= q /\ k = j + 1
    BY <1>2
  <2> HIDE DEF j
  <2>2. At(j) \in Nat /\ At(k) \in Nat /\ At(j) <= At(k) /\ At(k) <= At(q) /\ At(q) \in Nat
    BY <1>2, <2>1, AtFacts, AtOrder
  <2>3. At(k) <= n
    BY <1>1, <1>2, <2>2
  <2>4. SubSeq(s, At(j) + 1, At(k)) = Bytes(from + At(j), from + At(k))
    <3> DEFINE x == At(j)
               y == At(k)
    <3>1. x \in Nat /\ y \in Nat /\ x <= y /\ y <= to - from
      BY <2>2, <2>3
    <3> HIDE DEF x, y
    <3>2. SubSeq(Bytes(from, to), x + 1, y) = Bytes(from + x, from + y)
      BY <3>1, BytesPart, ZenonT(60)
    <3> QED
      BY <3>2 DEF x, y
  <2>5. At(j) = (k - 1) * BlockSize /\ At(k) = k * BlockSize
    BY DEF At, j
  <2>6. Bytes(from + At(j), from + At(k)) \in Seq(Nat)
    <3> DEFINE x == from + At(j)
               y == from + At(k)
    <3>1. x \in Nat /\ y \in Nat /\ x <= y
      BY <2>2
    <3> HIDE DEF x, y
    <3>2. Bytes(x, y) \in Seq(Nat)
      BY <3>1, BytesFacts
    <3> QED
      BY <3>2 DEF x, y
  <2> QED
    BY <2>4, <2>5, <2>6 DEF j
<1> DEFINE b == Blocks(s)
<1>4. b = [k \in 1..q |-> SubSeq(s, (k - 1) * BlockSize + 1, k * BlockSize)]
  BY <1>1 DEF Blocks
<1> HIDE DEF s
<1>5. /\ \A k \in 1..q : b[k] = Bytes(from + At(k - 1), from + At(k)) /\ b[k] \in Seq(Nat)
      /\ b = [k \in 1..q |-> b[k]]
  BY <1>3, <1>4
<1> HIDE DEF b
<1>6. b \in Seq(Seq(Nat)) /\ Len(b) = q
  <2> DEFINE S == Seq(Nat)
             A(k) == b[k]
  <2>1. q \in Nat /\ b = [k \in 1..q |-> A(k)] /\ \A k \in 1..q : A(k) \in S
    BY <1>2, <1>5
  <2> HIDE DEF S, A
  <2>2. b \in Seq(S) /\ Len(b) = q
    BY <2>1
  <2> QED
    BY <2>2 DEF S
<1> QED
  BY <1>2, <1>5, <1>6 DEF b, s

LEMMA InitCbc == CbcInit => CbcInv
<1> SUFFICES ASSUME CbcInit PROVE CbcInv
  OBVIOUS
<1>1. /\ put = 0 /\ pending = <<>> /\ blocks = <<>> /\ phase = "write"
      /\ arrived = 0 /\ fetched = 0 /\ held = 0 /\ opened = 0
      /\ spill = <<>> /\ eof = FALSE /\ wanted = 0 /\ page = <<>>
      /\ got = <<>> /\ told = FALSE
  BY DEF CbcInit
<1>2. At(0) = 0 /\ BlockSize \in Nat \ {0} /\ Len(blocks) = 0
  BY <1>1, AtFacts
<1>3. CbcTypes
  <2>1. <<>> \in Seq(Nat) /\ <<>> \in Seq(Seq(Nat))
    OBVIOUS
  <2>2. eof \in BOOLEAN /\ told \in BOOLEAN
    BY <1>1
  <2> QED
    BY <1>1, <2>1, <2>2 DEF CbcTypes
<1>4. Bytes(0, 0) = <<>>
  BY DEF Bytes
<1>5. WritingInv
  BY <1>1, <1>2, <1>4 DEF WritingInv
<1>6. WrittenInv
  BY <1>1 DEF WrittenInv
<1>7. Total = 0
  BY <1>1 DEF Total
<1>8. ReadBytes
  BY <1>1, <1>2, <1>7 DEF ReadBytes, Stretch
<1>9. ReadPlace
  BY <1>1, <1>2, <1>7 DEF ReadPlace, Unread, Complete
<1>10. ReadPhase
  BY <1>1 DEF ReadPhase
<1> QED
  BY <1>3, <1>5, <1>6, <1>8, <1>9, <1>10 DEF CbcInv

\* While nothing has been read.
LEMMA UnreadStays ==
  ASSUME Unread, UNCHANGED <<arrived, breadervars>>, put' \in Nat,
         phase' \in {"write", "finished"}, Len(blocks') \in Nat
  PROVE  ReadBytes' /\ ReadPlace' /\ ReadPhase'
<1>1. /\ arrived' = 0 /\ fetched' = 0 /\ held' = 0 /\ opened' = 0
      /\ spill' = <<>> /\ eof' = FALSE /\ wanted' = 0 /\ page' = <<>>
      /\ got' = <<>> /\ told' = FALSE
  BY DEF Unread, breadervars
<1>2. Total' = 0
  BY <1>1 DEF Total
<1>3. BlockSize \in Nat \ {0} /\ At(Len(blocks')) \in Nat
  BY AtFacts
<1>4. ReadBytes'
  BY <1>1, <1>2, <1>3 DEF ReadBytes, Stretch
<1>5. Unread'
  BY <1>1 DEF Unread
<1>6. ReadPlace'
  BY <1>1, <1>3, <1>5 DEF ReadPlace
<1>7. ReadPhase'
  BY <1>1 DEF ReadPhase
<1> QED
  BY <1>4, <1>6, <1>7

LEMMA PutKeeps ==
  ASSUME CbcInv, PutBytes
  PROVE  CbcInv'
<1>0. CbcTypes /\ WritingInv /\ WrittenInv /\ ReadBytes /\ ReadPlace /\ ReadPhase
  BY DEF CbcInv
<1>1. PICK n \in 1..(MaxBytes - put) :
        /\ put' = put + n
        /\ blocks' = blocks \o Blocks(pending \o Bytes(put, put + n))
        /\ pending' = SubSeq(pending \o Bytes(put, put + n),
             BlockSize * (Len(pending \o Bytes(put, put + n)) \div BlockSize) + 1,
             Len(pending \o Bytes(put, put + n)))
  BY DEF PutBytes
<1>2. phase = "write" /\ phase' = "write" /\ UNCHANGED <<arrived, breadervars>>
  BY DEF PutBytes
<1> DEFINE N == Len(blocks)
           from == At(N)
           to == put + n
           q == (to - from) \div BlockSize
<1>3. /\ put \in Nat /\ N \in Nat /\ from \in Nat /\ to \in Nat /\ put <= to
      /\ blocks \in Seq(Seq(Nat)) /\ BlockSize \in Nat \ {0}
  <2>1. put \in Nat /\ blocks \in Seq(Seq(Nat)) /\ MaxBytes \in Nat
    BY <1>0, CbcAssumption DEF CbcTypes
  <2>2. N \in Nat /\ n \in Nat
    BY <2>1
  <2> HIDE DEF N
  <2>3. At(N) \in Nat /\ BlockSize \in Nat \ {0}
    BY <2>2, AtFacts
  <2>4. put + n \in Nat /\ put <= put + n
    BY <2>1, <2>2
  <2> QED
    BY <2>1, <2>2, <2>3, <2>4
<1>4. /\ \A k \in 1..N : IsDataBlock(blocks[k], k - 1)
      /\ pending = Bytes(from, put) /\ from <= put
  BY <1>0, <1>2 DEF WritingInv
<1>5. pending \o Bytes(put, to) = Bytes(from, to) /\ from <= to
  <2> HIDE DEF N, from, to
  <2>1. Bytes(from, put) \o Bytes(put, to) = Bytes(from, to)
    BY <1>3, <1>4, BytesJoin
  <2> QED
    BY <1>3, <1>4, <2>1
<1>6. Len(Bytes(from, to)) = to - from /\ to - from \in Nat
  <2> HIDE DEF N, from, to
  <2> QED
    BY <1>3, <1>5, BytesFacts
<1>7. /\ put' = to /\ blocks' = blocks \o Blocks(Bytes(from, to))
      /\ pending' = SubSeq(Bytes(from, to), BlockSize * q + 1, to - from)
  BY <1>1, <1>5, <1>6
<1> HIDE DEF N, from, to
<1>8. /\ q \in Nat /\ At(q) <= to - from /\ to - from < At(q) + BlockSize
      /\ Blocks(Bytes(from, to)) \in Seq(Seq(Nat)) /\ Len(Blocks(Bytes(from, to))) = q
      /\ \A k \in 1..q : Blocks(Bytes(from, to))[k] = Bytes(from + At(k - 1), from + At(k))
  BY <1>3, <1>5, BlocksFacts
<1> DEFINE more == Blocks(Bytes(from, to))
<1> HIDE DEF q
<1>9. /\ blocks' \in Seq(Seq(Nat)) /\ Len(blocks') = N + q
      /\ \A k \in 1..N : blocks'[k] = blocks[k]
      /\ \A k \in 1..q : blocks'[N + k] = more[k]
  <2>1. more \in Seq(Seq(Nat)) /\ blocks' = blocks \o more /\ Len(more) = q
    BY <1>7, <1>8
  <2> HIDE DEF more
  <2> DEFINE S == Seq(Nat)
  <2>2. blocks \in Seq(S) /\ more \in Seq(S) /\ Seq(S) = Seq(Seq(Nat))
    BY <1>3, <2>1
  <2> HIDE DEF S
  <2>3. /\ blocks \o more \in Seq(S) /\ Len(blocks \o more) = Len(blocks) + Len(more)
        /\ \A k \in 1..Len(blocks) : (blocks \o more)[k] = blocks[k]
        /\ \A k \in 1..Len(more) : (blocks \o more)[Len(blocks) + k] = more[k]
    BY <2>2, JoinFacts
  <2> QED
    BY <2>1, <2>2, <2>3 DEF N
<1>10. At(N + q) = from + At(q) /\ At(q) \in Nat /\ N + q \in Nat
  BY <1>3, <1>8, AtSum, AtFacts DEF from
<1>11. pending' = Bytes(At(N + q), to) /\ At(N + q) <= to /\ to < At(N + q) + BlockSize
  <2>1. BlockSize * q = At(q)
    BY <1>3, <1>8 DEF At
  <2>2. SubSeq(Bytes(from, to), At(q) + 1, to - from) = Bytes(from + At(q), from + (to - from))
    <3> DEFINE a == At(q)
               b == to - from
    <3>1. a \in Nat /\ b \in Nat /\ a <= b /\ b <= to - from
      BY <1>3, <1>6, <1>8, <1>10
    <3> HIDE DEF a, b
    <3>2. SubSeq(Bytes(from, to), a + 1, b) = Bytes(from + a, from + b)
      <4>1. /\ from \in Nat /\ to \in Nat /\ from <= to
            /\ a \in Nat /\ b \in Nat /\ a <= b /\ b <= to - from
        BY <1>3, <1>5, <3>1
      <4> QED
        BY <4>1, BytesPart, ZenonT(60)
    <3> QED
      BY <3>2 DEF a, b
  <2>3. from + (to - from) = to
    BY <1>3
  <2>4. At(N + q) <= to /\ to < At(N + q) + BlockSize
    BY <1>3, <1>8, <1>10
  <2> QED
    BY <1>7, <1>10, <2>1, <2>2, <2>3, <2>4
<1>12. ASSUME NEW k \in 1..(N + q) PROVE IsDataBlock(blocks'[k], k - 1)
  <2>1. CASE k <= N
    <3>1. k \in 1..N
      BY <1>3, <2>1
    <3> QED
      BY <1>4, <1>9, <3>1
  <2>2. CASE ~(k <= N)
    <3> DEFINE j == k - N - 1
    <3>1. j \in Nat /\ k = N + (j + 1) /\ j + 1 \in 1..q /\ j + 1 \in Nat
      BY <1>3, <1>8, <2>2
    <3> HIDE DEF j
    <3>2. blocks'[k] = Bytes(from + At(j), from + At(j + 1))
      <4>1. blocks'[N + (j + 1)] = more[j + 1]
        BY <1>9, <3>1
      <4>2. more[j + 1] = Bytes(from + At(j + 1 - 1), from + At(j + 1)) /\ j + 1 - 1 = j
        BY <1>8, <3>1
      <4> QED
        BY <3>1, <4>1, <4>2
    <3>3. from + At(j) = At(N + j) /\ from + At(j + 1) = At(N + (j + 1))
      BY <1>3, <3>1, AtSum DEF from
    <3>4. k - 1 = N + j /\ N + (j + 1) = k - 1 + 1
      BY <1>3, <3>1
    <3> QED
      BY <3>2, <3>3, <3>4 DEF IsDataBlock
  <2> QED
    BY <2>1, <2>2
<1>13. CbcTypes'
  <2>1. pending' \in Seq(Nat) /\ put' \in Nat
    <3> DEFINE x == At(N + q)
    <3>1. x \in Nat /\ x <= to /\ pending' = Bytes(x, to)
      BY <1>10, <1>11, AtFacts
    <3> HIDE DEF x
    <3>2. Bytes(x, to) \in Seq(Nat)
      BY <1>3, <3>1, BytesFacts
    <3> QED
      BY <1>3, <1>7, <3>1, <3>2
  <2> QED
    BY <1>0, <1>2, <1>9, <2>1 DEF CbcTypes, breadervars
<1>14. WritingInv'
  BY <1>7, <1>9, <1>11, <1>12 DEF WritingInv
<1>15. WrittenInv'
  BY <1>2 DEF WrittenInv
<1>16. ReadBytes' /\ ReadPlace' /\ ReadPhase'
  <2>1. Unread
    BY <1>0, <1>2 DEF ReadPlace
  <2>2. Len(blocks') \in Nat /\ put' \in Nat
    BY <1>3, <1>7, <1>9, <1>10
  <2> QED
    BY <1>2, <2>1, <2>2, UnreadStays
<1> QED
  BY <1>13, <1>14, <1>15, <1>16 DEF CbcInv

LEMMA FinishKeeps ==
  ASSUME CbcInv, FinishBlocks
  PROVE  CbcInv'
<1>0. CbcTypes /\ WritingInv /\ WrittenInv /\ ReadBytes /\ ReadPlace /\ ReadPhase
  BY DEF CbcInv
<1>1. /\ phase = "write" /\ phase' = "finished" /\ pending' = <<>> /\ put' = put
      /\ blocks' = Append(blocks, pending \o Padding(BlockSize - Len(pending)))
      /\ UNCHANGED <<arrived, breadervars>>
  BY DEF FinishBlocks
<1> DEFINE N == Len(blocks)
           pad == Padding(BlockSize - Len(pending))
           b == pending \o pad
<1>2. blocks \in Seq(Seq(Nat)) /\ N \in Nat /\ put \in Nat /\ pending \in Seq(Nat)
  BY <1>0 DEF CbcTypes
<1>3. /\ \A k \in 1..N : IsDataBlock(blocks[k], k - 1)
      /\ pending = Bytes(At(N), put) /\ At(N) <= put /\ put < At(N) + BlockSize
  BY <1>0, <1>1 DEF WritingInv
<1>4. At(N) \in Nat /\ BlockSize \in Nat \ {0}
  BY <1>2, AtFacts
<1> HIDE DEF N
<1>5. /\ Len(pending) = put - At(N)
      /\ \A j \in 1..(put - At(N)) : pending[j] = At(N) + j
  <2>1. /\ Len(Bytes(At(N), put)) = put - At(N)
        /\ \A j \in 1..(put - At(N)) : Bytes(At(N), put)[j] = At(N) + j
    BY <1>2, <1>3, <1>4, BytesFacts
  <2> QED
    BY <1>3, <2>1
<1> DEFINE r == BlockSize - Len(pending)
<1>6. r \in Nat
  BY <1>2, <1>3, <1>4, <1>5
<1>7. pad = [k \in 1..r |-> 0]
  BY DEF Padding
<1>8. pad \in Seq(Nat) /\ Len(pad) = r /\ \A k \in 1..r : pad[k] = 0
  <2> HIDE DEF pad, r
  <2> QED
    BY <1>6, <1>7
<1> HIDE DEF pad
<1>9. /\ b \in Seq(Nat) /\ Len(b) = Len(pending) + Len(pad)
      /\ \A k \in 1..Len(pending) : b[k] = pending[k]
      /\ \A k \in 1..Len(pad) : b[Len(pending) + k] = pad[k]
  <2>1. pending \in Seq(Nat) /\ pad \in Seq(Nat)
    BY <1>2, <1>8
  <2> QED
    BY <2>1, JoinFacts
<1> HIDE DEF b
<1>10. Len(b) = BlockSize
  BY <1>2, <1>4, <1>8, <1>9
<1>11. ASSUME NEW j \in 1..BlockSize
       PROVE  b[j] = IF j <= put - At(N) THEN At(N) + j ELSE 0
  <2>1. j \in Nat /\ Len(pending) \in Nat
    BY <1>2, <1>4
  <2>2. CASE j <= put - At(N)
    <3>1. j \in 1..Len(pending) /\ j \in 1..(put - At(N))
      BY <1>5, <2>1, <2>2
    <3> QED
      BY <1>5, <1>9, <2>2, <3>1
  <2>3. CASE ~(j <= put - At(N))
    <3> DEFINE k == j - Len(pending)
    <3>1. k \in 1..Len(pad) /\ k \in 1..r /\ Len(pending) + k = j
      BY <1>4, <1>5, <1>8, <2>1, <2>3
    <3> HIDE DEF k
    <3>2. b[j] = pad[k] /\ pad[k] = 0
      BY <1>8, <1>9, <3>1
    <3> QED
      BY <2>3, <3>2
  <2> QED
    BY <2>2, <2>3
<1>12. /\ blocks' \in Seq(Seq(Nat)) /\ Len(blocks') = N + 1 /\ blocks'[N + 1] = b
       /\ \A k \in 1..N : blocks'[k] = blocks[k]
  <2> DEFINE S == Seq(Nat)
  <2>1. blocks \in Seq(S) /\ b \in S /\ blocks' = Append(blocks, b)
    BY <1>1, <1>2, <1>9 DEF b, pad
  <2> HIDE DEF S
  <2>2. /\ Append(blocks, b) \in Seq(S) /\ Len(Append(blocks, b)) = Len(blocks) + 1
        /\ Append(blocks, b)[Len(blocks) + 1] = b
        /\ \A k \in 1..Len(blocks) : Append(blocks, b)[k] = blocks[k]
    BY <2>1, AppendProperties
  <2> QED
    BY <2>1, <2>2 DEF N, S
<1>13. IsLastBlock(blocks'[Len(blocks')], Len(blocks') - 1, put')
  <2>1. IsLastBlock(b, N, put)
    BY <1>2, <1>3, <1>9, <1>10, <1>11 DEF IsLastBlock, N
  <2>2. Len(blocks') - 1 = N /\ blocks'[Len(blocks')] = b
    BY <1>2, <1>12 DEF N
  <2> QED
    BY <1>1, <2>1, <2>2
<1>14. CbcTypes'
  <2>1. pending' \in Seq(Nat)
    BY <1>1
  <2> QED
    BY <1>0, <1>1, <1>12, <2>1 DEF CbcTypes, breadervars
<1>15. WrittenInv'
  <2>1. Len(blocks') >= 1 /\ Len(blocks') - 1 = N
    BY <1>2, <1>12 DEF N
  <2>2. \A k \in 1..N : IsDataBlock(blocks'[k], k - 1)
    BY <1>3, <1>12
  <2> QED
    BY <1>13, <2>1, <2>2 DEF WrittenInv
<1>16. WritingInv'
  BY <1>1 DEF WritingInv
<1>17. ReadBytes' /\ ReadPlace' /\ ReadPhase'
  <2>1. Unread
    BY <1>0, <1>1 DEF ReadPlace
  <2>2. Len(blocks') \in Nat /\ put' \in Nat
    BY <1>1, <1>2, <1>12
  <2> QED
    BY <1>1, <2>1, <2>2, UnreadStays
<1> QED
  BY <1>14, <1>15, <1>16, <1>17 DEF CbcInv

LEMMA OpenKeeps ==
  ASSUME CbcInv, OpenReader
  PROVE  CbcInv'
<1>0. CbcTypes /\ WritingInv /\ WrittenInv /\ ReadBytes /\ ReadPlace /\ ReadPhase
  BY DEF CbcInv
<1>1. /\ phase = "finished" /\ arrived' \in 0..(Len(blocks) * BlockSize)
      /\ \/ arrived' < BlockSize /\ phase' = "failed" /\ UNCHANGED <<fetched, held>>
         \/ ~(arrived' < BlockSize) /\ phase' = "open" /\ fetched' = BlockSize /\ held' = 1
      /\ UNCHANGED <<put, pending, blocks, opened, spill, eof, wanted, page, got, told>>
  BY DEF OpenReader, bwritervars
<1>2. Unread
  BY <1>0, <1>1 DEF ReadPlace
<1>3. /\ spill' = <<>> /\ eof' = FALSE /\ wanted' = 0 /\ page' = <<>> /\ opened' = 0
      /\ got' = <<>> /\ told' = FALSE /\ fetched = 0 /\ held = 0
  BY <1>1, <1>2 DEF Unread
<1> DEFINE N == Len(blocks)
<1>4. N \in Nat /\ N >= 1 /\ put \in Nat
  BY <1>0, <1>1 DEF CbcTypes, WrittenInv
<1>5. Len(blocks') = N
  BY <1>1
<1> HIDE DEF N
<1>6. /\ At(N) \in Nat /\ BlockSize \in Nat \ {0} /\ At(N) >= BlockSize
      /\ At(0) = 0 /\ At(1) = BlockSize
  <2>1. At(N) \in Nat /\ BlockSize \in Nat \ {0} /\ At(0) = 0 /\ At(0 + 1) = At(0) + BlockSize
    BY <1>4, AtFacts
  <2>2. At(0) + BlockSize <= At(N)
    BY <1>4, AtOrder
  <2> QED
    BY <2>1, <2>2
<1>7. arrived' \in Nat /\ arrived' <= At(N)
  BY <1>1, <1>6 DEF At, N
<1>8. Total' = 0
  BY <1>3 DEF Total
<1>9. CbcTypes'
  <2>1. fetched' \in Nat /\ held' \in Nat
    BY <1>1, <1>3, <1>6
  <2>2. phase' \in {"open", "failed"}
    BY <1>1
  <2> QED
    BY <1>0, <1>1, <1>7, <2>1, <2>2 DEF CbcTypes
<1>10. WritingInv'
  BY <1>1 DEF WritingInv
<1>11. WrittenInv'
  BY <1>0, <1>1 DEF WrittenInv
<1>12. ReadBytes'
  <2>1. put' \in Nat
    BY <1>1, <1>4
  <2> QED
    BY <1>3, <1>6, <1>8, <2>1 DEF ReadBytes, Stretch
<1>13. ReadPlace'
  <2>1. phase' \notin {"write", "finished"} /\ eof' = FALSE
    BY <1>1, <1>3
  <2>2. phase' = "open" =>
          /\ Total' = At(opened') /\ held' = opened' + 1
          /\ fetched' = At(held') /\ fetched' <= arrived'
    BY <1>1, <1>3, <1>6, <1>7, <1>8
  <2>3. phase' = "failed" => ~Complete'
    BY <1>1, <1>5, <1>6, <1>7 DEF Complete
  <2>4. arrived' <= At(Len(blocks'))
    BY <1>5, <1>7
  <2> QED
    BY <2>1, <2>2, <2>3, <2>4 DEF ReadPlace
<1>14. ReadPhase'
  BY <1>3 DEF ReadPhase
<1> QED
  BY <1>9, <1>10, <1>11, <1>12, <1>13, <1>14 DEF CbcInv

-----------------------------------------------------------------------------
(* The reader                                                              *)

LEMMA StretchJoin ==
  ASSUME NEW a, NEW b, NEW n \in Nat, Stretch(a, n), Stretch(b, n + Len(a))
  PROVE  Stretch(a \o b, n) /\ Len(a \o b) = Len(a) + Len(b)
<1>1. /\ a \in Seq(Nat) /\ b \in Seq(Nat)
      /\ \A i \in 1..Len(a) : a[i] = n + i
      /\ \A i \in 1..Len(b) : b[i] = n + Len(a) + i
  BY DEF Stretch
<1>2. /\ a \o b \in Seq(Nat) /\ Len(a \o b) = Len(a) + Len(b)
      /\ Len(a) \in Nat /\ Len(b) \in Nat
      /\ \A k \in 1..Len(a) : (a \o b)[k] = a[k]
      /\ \A k \in 1..Len(b) : (a \o b)[Len(a) + k] = b[k]
  <2>1. a \in Seq(Nat) /\ b \in Seq(Nat)
    BY <1>1
  <2> QED
    BY <2>1, JoinFacts
<1> DEFINE c == a \o b
<1> HIDE DEF c
<1>3. ASSUME NEW i \in DOMAIN c PROVE c[i] = n + i
  <2>1. i \in 1..(Len(a) + Len(b)) /\ i \in Nat
    BY <1>2 DEF c
  <2>2. CASE i <= Len(a)
    <3>1. i \in 1..Len(a)
      BY <2>1, <2>2
    <3> QED
      BY <1>1, <1>2, <3>1 DEF c
  <2>3. CASE ~(i <= Len(a))
    <3> DEFINE k == i - Len(a)
    <3>1. k \in 1..Len(b) /\ Len(a) + k = i
      BY <1>2, <2>1, <2>3
    <3> HIDE DEF k
    <3>2. c[i] = b[k] /\ b[k] = n + Len(a) + k
      BY <1>1, <1>2, <3>1 DEF c
    <3>3. n + Len(a) + k = n + i
      BY <1>2, <3>1
    <3> QED
      BY <3>2, <3>3
  <2> QED
    BY <2>2, <2>3
<1> QED
  BY <1>2, <1>3 DEF Stretch, c

LEMMA StretchPart ==
  ASSUME NEW s, NEW n \in Nat, Stretch(s, n), NEW a \in Nat, NEW b \in Nat, a <= b, b <= Len(s)
  PROVE  /\ Stretch(SubSeq(s, a + 1, b), n + a)
         /\ Len(SubSeq(s, a + 1, b)) = b - a
<1>1. s \in Seq(Nat) /\ Len(s) \in Nat /\ \A i \in 1..Len(s) : s[i] = n + i
  BY DEF Stretch
<1> DEFINE p == SubSeq(s, a + 1, b)
<1>2. /\ p \in Seq(Nat) /\ Len(p) = b - a
      /\ \A k \in 1..(b - a) : p[k] = s[a + k]
  BY <1>1, PartFacts
<1> HIDE DEF p
<1>3. ASSUME NEW i \in DOMAIN p PROVE p[i] = n + a + i
  <2>1. i \in 1..(b - a) /\ i \in Nat
    BY <1>2
  <2>2. a + i \in 1..Len(s)
    BY <1>1, <2>1, SMTT(30)
  <2>3. p[i] = n + (a + i)
    BY <1>1, <1>2, <2>1, <2>2
  <2> QED
    BY <2>1, <2>3
<1> QED
  BY <1>2, <1>3 DEF Stretch, p

LEMMA StretchFirst ==
  ASSUME NEW s, NEW n \in Nat, Stretch(s, n), NEW b \in Nat, b <= Len(s)
  PROVE  Stretch(SubSeq(s, 1, b), n) /\ Len(SubSeq(s, 1, b)) = b
<1>1. 0 \in Nat /\ 0 <= b /\ n + 0 = n /\ b - 0 = b /\ 0 + 1 = 1
  OBVIOUS
<1>2. Stretch(SubSeq(s, 0 + 1, b), n + 0) /\ Len(SubSeq(s, 0 + 1, b)) = b - 0
  BY <1>1, StretchPart, ZenonT(60)
<1> QED
  BY <1>1, <1>2

LEMMA StretchBytes ==
  ASSUME NEW from \in Nat, NEW to \in Nat, from <= to
  PROVE  Stretch(Bytes(from, to), from) /\ Len(Bytes(from, to)) = to - from
<1>1. /\ Bytes(from, to) \in Seq(Nat) /\ Len(Bytes(from, to)) = to - from
      /\ \A k \in 1..(to - from) : Bytes(from, to)[k] = from + k
  BY BytesFacts
<1> QED
  BY <1>1 DEF Stretch

LEMMA NoStretch == \A n : Stretch(<<>>, n)
  BY DEF Stretch

\* What a turn does with the bytes that it has opened.
LEMMA TurnEffect ==
  ASSUME CbcTypes, ReadBytes, ReadPhase, wanted > 0, NEW given, Stretch(given, Total),
         Total + Len(given) <= put, Len(given) < wanted + BlockSize,
         Turn(given), put' = put
  PROVE  /\ got' \in Seq(Nat) /\ page' \in Seq(Nat) /\ spill' \in Seq(Nat)
         /\ wanted' \in Nat /\ told' \in BOOLEAN
         /\ ReadBytes' /\ Total' = Total + Len(given)
         /\ eof' = AtEof /\ opened' = opened + Len(Decrypted)
         /\ held' = IF AtEof THEN held ELSE Last(Staged)
         /\ wanted' > 0 => ~AtEof /\ spill' = <<>> /\ ~told'
         /\ wanted' = 0 => page' = <<>>
         /\ told' => AtEof /\ spill' = <<>> /\ wanted' = 0
<1> DEFINE emit == Shorter(Len(given), wanted)
           head == SubSeq(given, 1, emit)
           tail == SubSeq(given, emit + 1, Len(given))
           whole == page \o head
<1>1. /\ spill' = tail /\ eof' = AtEof /\ opened' = opened + Len(Decrypted)
      /\ held' = IF AtEof THEN held ELSE Last(Staged)
      /\ \/ /\ emit = wanted \/ AtEof
            /\ got' = got \o whole /\ told' = (whole = <<>>) /\ page' = <<>> /\ wanted' = 0
         \/ /\ ~(emit = wanted) /\ ~AtEof
            /\ page' = whole /\ wanted' = wanted - emit /\ got' = got /\ told' = told
  BY DEF Turn, Answer
<1>2. /\ got \in Seq(Nat) /\ page \in Seq(Nat) /\ Len(got) \in Nat /\ Len(page) \in Nat
      /\ put \in Nat /\ wanted \in Nat /\ told \in BOOLEAN /\ BlockSize \in Nat \ {0}
  <2>1. got \in Seq(Nat) /\ page \in Seq(Nat) /\ put \in Nat /\ wanted \in Nat
    BY DEF CbcTypes
  <2>2. told \in BOOLEAN
    BY DEF CbcTypes
  <2>3. Len(got) \in Nat /\ Len(page) \in Nat
    BY <2>1
  <2>4. BlockSize \in Nat \ {0}
    BY AtFacts
  <2> QED
    BY <2>1, <2>2, <2>3, <2>4, Zenon
<1>3. spill = <<>> /\ ~told
  BY DEF ReadPhase
<1>4. Total = Len(got) + Len(page)
  <2>1. Len(spill) = 0
    BY <1>3
  <2> QED
    BY <1>2, <2>1 DEF Total
<1>5. /\ Stretch(got, 0) /\ Stretch(page, Len(got))
      /\ given \in Seq(Nat) /\ Len(given) \in Nat /\ Total \in Nat
  <2>1. given \in Seq(Nat)
    BY DEF Stretch
  <2> QED
    BY <1>2, <1>4, <2>1 DEF ReadBytes
<1>6. /\ emit \in Nat /\ emit <= Len(given) /\ emit <= wanted
      /\ emit = Len(given) \/ emit = wanted
  BY <1>2, <1>5, ShorterFacts
<1> HIDE DEF emit
<1>7. Stretch(head, Total) /\ Len(head) = emit
  BY <1>5, <1>6, StretchFirst
<1>8. Stretch(tail, Total + emit) /\ Len(tail) = Len(given) - emit
  <2>1. Len(given) <= Len(given)
    BY <1>5
  <2> QED
    BY <1>5, <1>6, <2>1, StretchPart
<1> HIDE DEF head, tail
<1>9. Stretch(whole, Len(got)) /\ Len(whole) = Len(page) + emit
  <2>1. Stretch(head, Len(got) + Len(page))
    BY <1>4, <1>7
  <2> QED
    BY <1>2, <1>5, <1>7, <2>1, StretchJoin
<1> HIDE DEF whole
<1>10. Len(tail) < BlockSize /\ (emit # wanted => tail = <<>>)
  <2>1. emit = wanted => Len(tail) < BlockSize
    BY <1>2, <1>5, <1>8
  <2>2. emit # wanted => Len(tail) = 0
    BY <1>5, <1>6, <1>8
  <2>3. Len(tail) = 0 => tail = <<>>
    BY <1>8 DEF Stretch
  <2> QED
    BY <1>2, <2>1, <2>2, <2>3
<1>11. CASE /\ emit = wanted \/ AtEof
            /\ got' = got \o whole /\ told' = (whole = <<>>) /\ page' = <<>> /\ wanted' = 0
  <2>1. Stretch(got', 0) /\ Len(got') = Len(got) + Len(whole)
    <3>1. 0 + Len(got) = Len(got)
      BY <1>2
    <3>2. Stretch(whole, 0 + Len(got))
      BY <1>9, <3>1
    <3>3. Stretch(got \o whole, 0) /\ Len(got \o whole) = Len(got) + Len(whole)
      BY <1>5, <3>2, StretchJoin
    <3> QED
      BY <1>11, <3>3
  <2>2. Len(got') = Total + emit /\ Len(page') = 0 /\ page' = <<>>
    BY <1>2, <1>4, <1>6, <1>9, <1>11, <2>1
  <2>3. Len(got') + Len(page') = Total + emit
    BY <1>5, <1>6, <2>2
  <2>4. Total' = Total + Len(given)
    <3>1. Total' = Total + emit + (Len(given) - emit)
      BY <1>1, <1>8, <2>3 DEF Total
    <3> QED
      BY <1>5, <1>6, <3>1
  <2>5. ReadBytes'
    <3>1. Stretch(spill', Len(got') + Len(page')) /\ Len(spill') < BlockSize
      BY <1>1, <1>8, <1>10, <2>3
    <3> QED
      BY <2>1, <2>2, <2>4, <3>1, NoStretch DEF ReadBytes
  <2>6. whole = <<>> => emit # wanted
    <3>1. whole = <<>> => Len(page) + emit = 0
      BY <1>9
    <3> QED
      BY <1>2, <1>6, <3>1
  <2>7. told' => AtEof /\ spill' = <<>>
    BY <1>1, <1>10, <1>11, <2>6
  <2>8. got' \in Seq(Nat) /\ spill' \in Seq(Nat) /\ page' \in Seq(Nat)
    BY <1>1, <1>8, <1>11, <2>1 DEF Stretch
  <2>9. wanted' = 0 /\ wanted' \in Nat /\ ~(wanted' > 0) /\ told' \in BOOLEAN
    BY <1>11
  <2> QED
    BY <1>1, <2>2, <2>4, <2>5, <2>7, <2>8, <2>9
<1>12. CASE /\ ~(emit = wanted) /\ ~AtEof
            /\ page' = whole /\ wanted' = wanted - emit /\ got' = got /\ told' = told
  <2>1. spill' = <<>> /\ Len(spill') = 0 /\ emit = Len(given)
    BY <1>1, <1>6, <1>10, <1>12
  <2>2. wanted' \in Nat /\ wanted' > 0 /\ ~(wanted' = 0)
    BY <1>2, <1>6, <1>12
  <2>3. Total' = Total + Len(given)
    <3>1. Total' = Len(got) + (Len(page) + emit) + 0
      BY <1>9, <1>12, <2>1 DEF Total
    <3> QED
      BY <1>2, <1>4, <1>6, <2>1, <3>1
  <2>4. ReadBytes'
    <3>1. Stretch(got', 0) /\ Stretch(page', Len(got'))
      BY <1>5, <1>9, <1>12
    <3>2. Stretch(spill', Len(got') + Len(page')) /\ Len(spill') < BlockSize
      BY <1>2, <2>1, NoStretch
    <3> QED
      BY <2>3, <3>1, <3>2 DEF ReadBytes
  <2>5. got' \in Seq(Nat) /\ page' \in Seq(Nat) /\ spill' \in Seq(Nat)
    BY <1>2, <1>9, <1>12, <2>1 DEF Stretch
  <2>6. told' \in BOOLEAN /\ ~told'
    BY <1>2, <1>3, <1>12
  <2> QED
    BY <1>1, <1>12, <2>1, <2>2, <2>3, <2>4, <2>5, <2>6
<1> QED
  BY <1>1, <1>11, <1>12

LEMMA SameWritten ==
  ASSUME WritingInv, WrittenInv, phase # "write", phase' # "write",
         UNCHANGED <<put, pending, blocks>>
  PROVE  WritingInv' /\ WrittenInv'
<1>1. WritingInv'
  BY DEF WritingInv
<1>2. WrittenInv'
  BY DEF WrittenInv
<1> QED
  BY <1>1, <1>2

\* A call that fails, for good.
LEMMA FailKeeps ==
  ASSUME CbcInv, phase = "open", wanted > 0, NEW why \in {"failed", "broken"}, Fail(why),
         why = "failed" => ~Complete, fetched' \in Nat,
         UNCHANGED <<put, pending, blocks, arrived, held, opened, spill, eof>>
  PROVE  CbcInv'
<1>0. CbcTypes /\ WritingInv /\ WrittenInv /\ ReadBytes /\ ReadPlace /\ ReadPhase
  BY DEF CbcInv
<1>1. phase' = why /\ page' = <<>> /\ wanted' = 0 /\ got' = got /\ told' = told
  BY DEF Fail
<1>2. ~eof /\ spill = <<>> /\ ~told
  BY <1>0 DEF ReadPhase
<1>3. /\ got \in Seq(Nat) /\ page \in Seq(Nat) /\ Len(got) \in Nat /\ Len(page) \in Nat
      /\ put \in Nat /\ BlockSize \in Nat \ {0}
  <2>1. got \in Seq(Nat) /\ page \in Seq(Nat) /\ put \in Nat
    BY <1>0 DEF CbcTypes
  <2>2. Len(got) \in Nat /\ Len(page) \in Nat
    BY <2>1
  <2>3. BlockSize \in Nat \ {0}
    BY AtFacts
  <2> QED
    BY <2>1, <2>2, <2>3, Zenon
<1>4. CbcTypes'
  <2>1. page' \in Seq(Nat) /\ wanted' \in Nat
    BY <1>1
  <2>2. phase' \in {"write", "finished", "open", "failed", "broken"}
    BY <1>1
  <2> QED
    BY <1>0, <1>1, <2>1, <2>2 DEF CbcTypes
<1>5. WritingInv' /\ WrittenInv'
  BY <1>0, <1>1, SameWritten
<1>6. ReadBytes'
  <2>1. Len(spill) = 0 /\ Len(page') = 0 /\ Len(spill') = 0
    BY <1>1, <1>2
  <2>2. Total' = Len(got) /\ Total = Len(got) + Len(page)
    BY <1>1, <1>3, <2>1 DEF Total
  <2>3. Total' <= put'
    BY <1>0, <1>3, <2>2 DEF ReadBytes
  <2>4. Stretch(got', 0) /\ Stretch(page', Len(got')) /\ Stretch(spill', Len(got') + Len(page'))
    BY <1>0, <1>1, <1>2, NoStretch DEF ReadBytes
  <2> QED
    BY <1>3, <2>1, <2>3, <2>4 DEF ReadBytes
<1>7. ReadPlace'
  <2>1. phase' \notin {"write", "finished", "open"} /\ ~eof'
    BY <1>1, <1>2
  <2>2. Complete' <=> Complete
    BY DEF Complete
  <2>3. arrived' <= At(Len(blocks'))
    BY <1>0 DEF ReadPlace
  <2> QED
    BY <1>1, <2>1, <2>2, <2>3 DEF ReadPlace
<1>8. ReadPhase'
  BY <1>1, <1>2 DEF ReadPhase
<1> QED
  BY <1>4, <1>5, <1>6, <1>7, <1>8 DEF CbcInv

LEMMA BeginKeeps ==
  ASSUME CbcInv, BeginRead
  PROVE  CbcInv'
<1>0. CbcTypes /\ WritingInv /\ WrittenInv /\ ReadBytes /\ ReadPlace /\ ReadPhase
  BY DEF CbcInv
<1>1. PICK n \in BlockReads :
        /\ spill' = SubSeq(spill, Shorter(Len(spill), n) + 1, Len(spill))
        /\ \/ /\ Shorter(Len(spill), n) = n \/ eof
              /\ Answer(SubSeq(spill, 1, Shorter(Len(spill), n)))
           \/ /\ ~(Shorter(Len(spill), n) = n) /\ ~eof
              /\ wanted' = n - Shorter(Len(spill), n)
              /\ page' = SubSeq(spill, 1, Shorter(Len(spill), n))
              /\ UNCHANGED <<got, told>>
  BY DEF BeginRead
<1>2. /\ phase = "open" /\ wanted = 0 /\ ~told
      /\ UNCHANGED <<put, pending, blocks, phase, arrived, fetched, held, opened, eof>>
  BY DEF BeginRead, bwritervars
<1> DEFINE l == Shorter(Len(spill), n)
           head == SubSeq(spill, 1, l)
           tail == SubSeq(spill, l + 1, Len(spill))
<1>3. /\ got \in Seq(Nat) /\ spill \in Seq(Nat) /\ Len(got) \in Nat /\ Len(spill) \in Nat
      /\ put \in Nat /\ BlockSize \in Nat \ {0} /\ n \in Nat \ {0}
  <2>1. got \in Seq(Nat) /\ spill \in Seq(Nat) /\ put \in Nat
    BY <1>0 DEF CbcTypes
  <2>2. n \in Nat \ {0}
    BY CbcAssumption
  <2>3. Len(got) \in Nat /\ Len(spill) \in Nat
    BY <2>1
  <2>4. BlockSize \in Nat \ {0}
    BY AtFacts
  <2> QED
    BY <2>1, <2>2, <2>3, <2>4, Zenon
<1>4. page = <<>> /\ Len(page) = 0 /\ Total = Len(got) + Len(spill)
  <2>1. page = <<>>
    BY <1>0, <1>2 DEF ReadPhase
  <2>2. Len(page) = 0
    BY <2>1
  <2> QED
    BY <1>3, <2>1, <2>2 DEF Total
<1>5. l \in Nat /\ l <= Len(spill) /\ l <= n /\ (l = Len(spill) \/ l = n)
  BY <1>3, ShorterFacts
<1> HIDE DEF l
<1>6. Stretch(got, 0) /\ Stretch(spill, Len(got)) /\ Len(spill) < BlockSize /\ Total <= put
  <2>1. Len(got) + Len(page) = Len(got)
    BY <1>3, <1>4
  <2> QED
    BY <1>0, <2>1 DEF ReadBytes
<1>7. Stretch(head, Len(got)) /\ Len(head) = l
  BY <1>3, <1>5, <1>6, StretchFirst
<1>8. Stretch(tail, Len(got) + l) /\ Len(tail) = Len(spill) - l
  <2>1. Len(spill) <= Len(spill)
    BY <1>3
  <2> QED
    BY <1>3, <1>5, <1>6, <2>1, StretchPart, ZenonT(60)
<1>9. spill' = tail
  BY <1>1 DEF l
<1>10. \/ /\ l = n \/ eof
          /\ got' = got \o head /\ told' = (head = <<>>) /\ page' = <<>> /\ wanted' = 0
       \/ /\ ~(l = n) /\ ~eof
          /\ wanted' = n - l /\ page' = head /\ got' = got /\ told' = told
  BY <1>1 DEF l, Answer
<1> HIDE DEF head, tail
<1>11. Len(tail) < BlockSize /\ (l = Len(spill) => tail = <<>>)
  <2>1. Len(tail) < BlockSize
    BY <1>3, <1>5, <1>6, <1>8
  <2>2. l = Len(spill) => Len(tail) = 0
    BY <1>3, <1>8
  <2>3. Len(tail) = 0 => tail = <<>>
    BY <1>8 DEF Stretch
  <2> QED
    BY <2>1, <2>2, <2>3
<1>12. /\ got' \in Seq(Nat) /\ page' \in Seq(Nat) /\ spill' \in Seq(Nat)
       /\ wanted' \in Nat /\ told' \in BOOLEAN
       /\ Stretch(got', 0) /\ Stretch(page', Len(got')) /\ Stretch(spill', Len(got') + Len(page'))
       /\ Total' = Total
       /\ wanted' > 0 => ~eof /\ spill' = <<>> /\ ~told'
       /\ wanted' = 0 => page' = <<>>
       /\ told' => eof /\ spill' = <<>> /\ wanted' = 0
  <2>1. CASE /\ l = n \/ eof
             /\ got' = got \o head /\ told' = (head = <<>>) /\ page' = <<>> /\ wanted' = 0
    <3>1. Stretch(got', 0) /\ Len(got') = Len(got) + l
      <4>1. Stretch(head, 0 + Len(got))
        <5>1. 0 + Len(got) = Len(got)
          BY <1>3
        <5> QED
          BY <1>7, <5>1
      <4>2. Stretch(got \o head, 0) /\ Len(got \o head) = Len(got) + Len(head)
        BY <1>6, <4>1, StretchJoin
      <4> QED
        BY <1>7, <2>1, <4>2
    <3>2. Len(page') = 0 /\ page' = <<>> /\ Len(got') + Len(page') = Len(got) + l
      BY <1>3, <1>5, <2>1, <3>1
    <3>3. Total' = Total
      <4>1. Total' = Len(got) + l + (Len(spill) - l)
        BY <1>8, <1>9, <3>2 DEF Total
      <4> QED
        BY <1>3, <1>4, <1>5, <4>1
    <3>4. head = <<>> => eof /\ spill' = <<>>
      <4> SUFFICES ASSUME head = <<>> PROVE eof /\ spill' = <<>>
        OBVIOUS
      <4>1. l = 0 /\ l # n
        BY <1>3, <1>7
      <4> QED
        BY <1>5, <1>9, <1>11, <2>1, <4>1
    <3>5. Stretch(page', Len(got')) /\ Stretch(spill', Len(got') + Len(page'))
      BY <1>8, <1>9, <3>2, NoStretch
    <3>6. got' \in Seq(Nat) /\ page' \in Seq(Nat) /\ spill' \in Seq(Nat)
      BY <3>1, <3>5 DEF Stretch
    <3>7. wanted' = 0 /\ wanted' \in Nat /\ ~(wanted' > 0) /\ told' \in BOOLEAN
      BY <2>1
    <3>8. told' => eof /\ spill' = <<>>
      BY <2>1, <3>4
    <3> QED
      BY <3>1, <3>2, <3>3, <3>5, <3>6, <3>7, <3>8
  <2>2. CASE /\ ~(l = n) /\ ~eof
             /\ wanted' = n - l /\ page' = head /\ got' = got /\ told' = told
    <3>1. l = Len(spill) /\ spill' = <<>> /\ Len(spill') = 0
      BY <1>5, <1>9, <1>11, <2>2
    <3>2. wanted' \in Nat /\ wanted' > 0 /\ ~(wanted' = 0)
      BY <1>3, <1>5, <2>2
    <3>3. Total' = Total
      <4>1. Total' = Len(got) + l + 0
        BY <1>7, <2>2, <3>1 DEF Total
      <4> QED
        BY <1>3, <1>4, <3>1, <4>1
    <3>4. Stretch(got', 0) /\ Stretch(page', Len(got')) /\ Stretch(spill', Len(got') + Len(page'))
      BY <1>6, <1>7, <2>2, <3>1, NoStretch
    <3>5. got' \in Seq(Nat) /\ page' \in Seq(Nat) /\ spill' \in Seq(Nat)
      BY <3>4 DEF Stretch
    <3>6. told' \in BOOLEAN /\ ~told'
      BY <1>0, <1>2, <2>2 DEF CbcTypes
    <3> QED
      BY <2>2, <3>1, <3>2, <3>3, <3>4, <3>5, <3>6
  <2> QED
    BY <1>10, <2>1, <2>2
<1>13. CbcTypes'
  BY <1>0, <1>2, <1>12 DEF CbcTypes
<1>14. WritingInv' /\ WrittenInv'
  BY <1>0, <1>2, SameWritten
<1>15. ReadBytes'
  <2>1. Total' <= put' /\ Len(spill') < BlockSize
    BY <1>2, <1>6, <1>9, <1>11, <1>12
  <2> QED
    BY <1>12, <2>1 DEF ReadBytes
<1>16. ReadPlace'
  <2>1. Complete' <=> Complete
    BY <1>2 DEF Complete
  <2> QED
    BY <1>0, <1>2, <1>12, <2>1 DEF ReadPlace
<1>17. ReadPhase'
  BY <1>2, <1>12 DEF ReadPhase
<1> QED
  BY <1>13, <1>14, <1>15, <1>16, <1>17 DEF CbcInv

-----------------------------------------------------------------------------
(* A turn of the loop of read                                              *)

TurnBytes == FlattenSeq([k \in DOMAIN Decrypted |-> Opened(k)])
Room == Shorter(SpaceBlocks, Batch)

\* Where the reader is.
ReadingAt ==
  /\ put \in Nat /\ blocks \in Seq(Seq(Nat)) /\ Len(blocks) \in Nat /\ Len(blocks) >= 1
  /\ arrived \in Nat /\ wanted \in Nat /\ wanted > 0 /\ opened \in Nat /\ Total \in Nat
  /\ BlockSize \in Nat \ {0}
  /\ ~eof /\ spill = <<>> /\ ~told
  /\ Total = At(opened) /\ held = opened + 1 /\ fetched = At(held) /\ fetched <= arrived
  /\ arrived <= At(Len(blocks)) /\ fetched \in Nat /\ held \in Nat
LEMMA Reading ==
  ASSUME CbcInv, phase = "open", wanted > 0
  PROVE  ReadingAt
<1>0. CbcTypes /\ WrittenInv /\ ReadBytes /\ ReadPlace /\ ReadPhase
  BY DEF CbcInv
<1>1. /\ put \in Nat /\ blocks \in Seq(Seq(Nat)) /\ arrived \in Nat /\ wanted \in Nat
      /\ opened \in Nat /\ fetched \in Nat /\ held \in Nat
  BY <1>0 DEF CbcTypes
<1>2. Len(blocks) \in Nat /\ Len(blocks) >= 1
  BY <1>0, <1>1 DEF WrittenInv
<1>3. ~eof /\ spill = <<>> /\ ~told
  BY <1>0 DEF ReadPhase
<1>4. /\ Total = At(opened) /\ held = opened + 1 /\ fetched = At(held) /\ fetched <= arrived
      /\ arrived <= At(Len(blocks))
  BY <1>0, <1>3 DEF ReadPlace
<1>5. At(opened) \in Nat /\ BlockSize \in Nat \ {0}
  BY <1>1, AtFacts
<1> QED
  BY <1>1, <1>2, <1>3, <1>4, <1>5 DEF ReadingAt

\* How many blocks come in.
LEMMA TurnRoom ==
  ASSUME ReadingAt
  PROVE  /\ Room \in Nat /\ Room >= 1 /\ Cap = At(Room) /\ Cap \in Nat
         /\ Cap < wanted + BlockSize
         /\ Filled \in Nat /\ Filled <= Cap /\ Filled <= arrived - fetched
         /\ Filled = Cap \/ Filled = arrived - fetched
         /\ Fresh \in Nat /\ (Filled % BlockSize = 0 => Filled = At(Fresh))
<1>1. /\ wanted \in Nat /\ wanted > 0 /\ BlockSize \in Nat \ {0} /\ arrived \in Nat
      /\ fetched \in Nat /\ fetched <= arrived
  BY DEF ReadingAt
<1> DEFINE x == wanted + BlockSize - 1
<1>2. x \in Nat /\ x >= BlockSize /\ x < wanted + BlockSize
  BY <1>1
<1> HIDE DEF x
<1>3. SpaceBlocks = x \div BlockSize
  BY DEF SpaceBlocks, x
<1>4. /\ SpaceBlocks \in Nat /\ SpaceBlocks * BlockSize <= x
      /\ x < SpaceBlocks * BlockSize + BlockSize
  BY <1>1, <1>2, <1>3, DivFacts
<1>5. SpaceBlocks >= 1
  <2>1. SpaceBlocks # 0
    <3> SUFFICES ASSUME SpaceBlocks = 0 PROVE FALSE
      OBVIOUS
    <3>1. SpaceBlocks * BlockSize = 0
      BY <1>1
    <3> QED
      BY <1>1, <1>2, <1>4, <3>1
  <2> QED
    BY <1>4, <2>1
<1>6. Room \in Nat /\ Room >= 1 /\ Room <= SpaceBlocks
  <2>1. Batch \in Nat \ {0}
    BY CbcAssumption
  <2>2. SpaceBlocks \in Nat /\ Batch \in Nat
    BY <1>4, <2>1
  <2>3. /\ Room \in Nat /\ Room <= SpaceBlocks
        /\ Room = SpaceBlocks \/ Room = Batch
    BY <2>2, ShorterFacts DEF Room
  <2> QED
    BY <1>5, <2>1, <2>2, <2>3
<1>7. Cap = At(Room) /\ At(Room) \in Nat
  BY <1>6, AtFacts DEF Cap, Room, At
<1>8. Cap < wanted + BlockSize
  <2>1. At(Room) <= At(SpaceBlocks) /\ At(SpaceBlocks) \in Nat
    BY <1>4, <1>6, AtFacts, AtOrder
  <2>2. At(SpaceBlocks) <= x
    BY <1>4 DEF At
  <2> QED
    BY <1>1, <1>2, <1>7, <2>1, <2>2
<1>9. /\ Filled \in Nat /\ Filled <= Cap /\ Filled <= arrived - fetched
      /\ Filled = Cap \/ Filled = arrived - fetched
  <2>1. arrived - fetched \in Nat /\ Cap \in Nat
    BY <1>1, <1>7
  <2> QED
    BY <2>1, ShorterFacts DEF Filled
<1>10. Fresh \in Nat /\ (Filled % BlockSize = 0 => Filled = At(Fresh))
  <2>1. Filled \div BlockSize \in Nat
    BY <1>1, <1>9, DivFacts
  <2>2. Filled % BlockSize = 0 => Filled = (Filled \div BlockSize) * BlockSize
    BY <1>1, <1>9, ModZero
  <2> QED
    BY <2>1, <2>2 DEF Fresh, At
<1> QED
  BY <1>6, <1>7, <1>8, <1>9, <1>10

\* A block that does not come in whole was cut off on the way.
LEMMA PartialBlock ==
  ASSUME ReadingAt, Filled % BlockSize # 0
  PROVE  ~Complete
<1> SUFFICES ASSUME arrived = At(Len(blocks)) PROVE FALSE
  BY DEF Complete
<1>1. /\ BlockSize \in Nat \ {0} /\ held \in Nat /\ fetched = At(held) /\ fetched <= arrived
      /\ Len(blocks) \in Nat
  BY DEF ReadingAt
<1>2. Room \in Nat /\ (Filled = At(Room) \/ Filled = arrived - fetched)
  BY TurnRoom
<1> DEFINE N == Len(blocks)
<1>3. held <= N
  BY <1>1, AtOrder
<1>4. N - held \in Nat /\ held + (N - held) = N
  BY <1>1, <1>3
<1>5. At(N) = At(held) + At(N - held)
  BY <1>1, <1>4, AtSum
<1>6. At(held) \in Nat /\ At(N - held) \in Nat
  BY <1>1, <1>4, AtFacts
<1>7. arrived - fetched = At(N - held)
  BY <1>1, <1>5, <1>6
<1>8. \A i \in Nat : At(i) % BlockSize = 0
  BY <1>1, ModMultiple DEF At
<1> QED
  BY <1>2, <1>4, <1>7, <1>8

\* The blocks that are opened are those that follow the ones opened before.
LEMMA TurnBlocks ==
  ASSUME ReadingAt
  PROVE  /\ Staged \in Seq(Nat) /\ Len(Staged) = Fresh + 1 /\ Last(Staged) = held + Fresh
         /\ Decrypted \in Seq(Nat) /\ Len(Decrypted) = IF AtEof THEN Fresh + 1 ELSE Fresh
         /\ \A k \in 1..Len(Decrypted) : Decrypted[k] = opened + k /\ Opened(k) = blocks[opened + k]
<1>1. /\ BlockSize \in Nat \ {0} /\ held \in Nat /\ fetched = At(held) /\ held = opened + 1
      /\ opened \in Nat
  BY DEF ReadingAt
<1>2. Fresh \in Nat
  BY TurnRoom
<1>3. FirstFresh = held
  BY <1>1, DivMultiple DEF FirstFresh, At
<1> DEFINE f == [k \in 1..Fresh |-> held + k]
<1>4. f \in Seq(Nat) /\ Len(f) = Fresh /\ \A k \in 1..Fresh : f[k] = held + k
  <2> HIDE DEF Fresh
  <2> QED
    BY <1>1, <1>2
<1>5. Staged = <<held>> \o f
  BY <1>3 DEF Staged
<1> HIDE DEF f
<1> DEFINE h == <<held>>
<1>6. h \in Seq(Nat) /\ Len(h) = 1 /\ h[1] = held
  BY <1>1
<1> HIDE DEF h
<1>7. /\ h \o f \in Seq(Nat) /\ Len(h \o f) = Len(h) + Len(f)
      /\ \A k \in 1..Len(h) : (h \o f)[k] = h[k]
      /\ \A k \in 1..Len(f) : (h \o f)[Len(h) + k] = f[k]
  <2>1. h \in Seq(Nat) /\ f \in Seq(Nat)
    BY <1>4, <1>6
  <2> QED
    BY <2>1, JoinFacts
<1>8. Staged = h \o f
  BY <1>5 DEF h
<1>9. Staged \in Seq(Nat) /\ Len(Staged) = Fresh + 1
  BY <1>2, <1>4, <1>6, <1>7, <1>8
<1>10. ASSUME NEW k \in 1..(Fresh + 1) PROVE Staged[k] = opened + k
  <2>1. CASE k = 1
    <3>1. Staged[1] = held
      BY <1>6, <1>7, <1>8
    <3> QED
      BY <1>1, <2>1, <3>1
  <2>2. CASE k # 1
    <3> DEFINE j == k - 1
    <3>1. j \in 1..Fresh /\ j \in Nat /\ 1 + j = k
      BY <1>2, <2>2
    <3> HIDE DEF j
    <3>2. Staged[1 + j] = held + j
      BY <1>4, <1>6, <1>7, <1>8, <3>1
    <3> QED
      BY <1>1, <3>1, <3>2
  <2> QED
    BY <2>1, <2>2
<1>11. Last(Staged) = held + Fresh
  <2>1. Fresh + 1 \in 1..(Fresh + 1) /\ opened + (Fresh + 1) = held + Fresh
    BY <1>1, <1>2
  <2>2. Staged[Fresh + 1] = opened + (Fresh + 1)
    BY <1>10, <2>1
  <2> QED
    BY <1>9, <2>1, <2>2 DEF Last
<1>12. /\ Decrypted \in Seq(Nat) /\ Len(Decrypted) = IF AtEof THEN Fresh + 1 ELSE Fresh
       /\ \A k \in 1..Len(Decrypted) : Decrypted[k] = opened + k
  <2>1. CASE AtEof
    <3>1. Decrypted = Staged
      BY <2>1 DEF Decrypted
    <3> QED
      BY <1>9, <1>10, <2>1, <3>1
  <2>2. CASE ~AtEof
    <3> DEFINE d == SubSeq(Staged, 0 + 1, Fresh)
    <3>1. Decrypted = d
      <4>1. 0 + 1 = 1
        OBVIOUS
      <4> QED
        BY <2>2, <4>1 DEF Decrypted
    <3>2. /\ d \in Seq(Nat) /\ Len(d) = Fresh - 0
          /\ \A k \in 1..(Fresh - 0) : d[k] = Staged[0 + k]
      <4>1. 0 \in Nat /\ 0 <= Fresh /\ Fresh <= Len(Staged)
        BY <1>2, <1>9
      <4> QED
        BY <1>2, <1>9, <4>1, PartFacts
    <3> HIDE DEF d
    <3>3. Fresh - 0 = Fresh
      BY <1>2
    <3>4. ASSUME NEW k \in 1..Fresh PROVE d[k] = opened + k
      <4>1. k \in 1..(Fresh - 0) /\ 0 + k = k /\ k \in 1..(Fresh + 1)
        BY <1>2, <3>3
      <4> QED
        BY <1>10, <3>2, <4>1
    <3> QED
      BY <2>2, <3>1, <3>2, <3>3, <3>4
  <2> QED
    BY <2>1, <2>2
<1>13. \A k \in 1..Len(Decrypted) : Opened(k) = blocks[opened + k]
  BY <1>12 DEF Opened
<1> QED
  BY <1>9, <1>11, <1>12, <1>13

\* All blocks but the last hold data only; which one is the last.
LEMMA BlockKinds ==
  ASSUME WrittenInv, phase = "open", ReadingAt
  PROVE  /\ \A k \in Nat \ {0} : k < Len(blocks) =>
                blocks[k] = Bytes(At(k - 1), At(k)) /\ At(k) <= put
         /\ IsLastBlock(blocks[Len(blocks)], Len(blocks) - 1, put)
<1>1. /\ Len(blocks) \in Nat /\ Len(blocks) >= 1 /\ put \in Nat
  BY DEF ReadingAt
<1>2. /\ \A k \in 1..(Len(blocks) - 1) : IsDataBlock(blocks[k], k - 1)
      /\ IsLastBlock(blocks[Len(blocks)], Len(blocks) - 1, put)
  BY DEF WrittenInv
<1> DEFINE N == Len(blocks)
<1>3. At(N - 1) <= put /\ N - 1 \in Nat
  BY <1>1, <1>2 DEF IsLastBlock
<1>4. ASSUME NEW k \in Nat \ {0}, k < N
      PROVE  blocks[k] = Bytes(At(k - 1), At(k)) /\ At(k) <= put
  <2>1. k \in 1..(N - 1) /\ k - 1 + 1 = k /\ k <= N - 1 /\ k \in Nat
    BY <1>1, <1>4
  <2>2. At(k) <= At(N - 1) /\ At(k) \in Nat /\ At(N - 1) \in Nat
    BY <1>3, <2>1, AtOrder, AtFacts
  <2>3. IsDataBlock(blocks[k], k - 1)
    BY <1>2, <2>1
  <2> QED
    BY <1>1, <1>3, <2>1, <2>2, <2>3 DEF IsDataBlock
<1> QED
  BY <1>2, <1>4

\* What the blocks before the last that come in are opened to.
LEMMA DataBlocksOpen ==
  ASSUME WrittenInv, phase = "open", ReadingAt, NEW m \in Nat, Len(Decrypted) = m + 1,
         opened + m < Len(blocks)
  PROVE  /\ TurnBytes = Bytes(At(opened), At(opened + m)) \o blocks[opened + m + 1]
         /\ At(opened + m) = At(opened) + At(m)
<1>1. /\ opened \in Nat /\ Len(blocks) \in Nat /\ blocks \in Seq(Seq(Nat)) /\ At(opened) \in Nat
  BY AtFacts DEF ReadingAt
<1>2. /\ Decrypted \in Seq(Nat)
      /\ \A k \in 1..(m + 1) : Opened(k) = blocks[opened + k]
  BY TurnBlocks
<1> DEFINE ss == [k \in 1..(m + 1) |-> Opened(k)]
           base == At(opened)
<1>3. TurnBytes = FlattenSeq(ss)
  <2>1. DOMAIN Decrypted = 1..(m + 1)
    BY <1>2
  <2> QED
    BY <2>1 DEF TurnBytes
<1>4. \A k \in 1..(m + 1) : ss[k] = blocks[opened + k] /\ blocks[opened + k] \in Seq(Nat)
  <2> SUFFICES ASSUME NEW k \in 1..(m + 1)
               PROVE  ss[k] = blocks[opened + k] /\ blocks[opened + k] \in Seq(Nat)
    OBVIOUS
  <2>1. opened + k \in 1..Len(blocks)
    BY <1>1
  <2> QED
    BY <1>1, <1>2, <2>1
<1>5. ss = [k \in 1..(m + 1) |-> ss[k]]
  OBVIOUS
<1> HIDE DEF ss
<1>6. ss \in Seq(Seq(Nat)) /\ Len(ss) = m + 1
  <2> DEFINE S == Seq(Nat)
  <2>1. m + 1 \in Nat /\ \A k \in 1..(m + 1) : ss[k] \in S
    BY <1>4
  <2> HIDE DEF S
  <2>2. ss \in Seq(S) /\ Len(ss) = m + 1
    BY <1>5, <2>1
  <2> QED
    BY <2>2 DEF S
<1>7. ASSUME NEW k \in 1..m PROVE ss[k] = Bytes(base + At(k - 1), base + At(k))
  <2>1. /\ k \in Nat /\ k - 1 \in Nat /\ opened + k \in Nat \ {0} /\ opened + k < Len(blocks)
        /\ k \in 1..(m + 1) /\ (opened + k) - 1 = opened + (k - 1)
    BY <1>1
  <2>2. blocks[opened + k] = Bytes(At((opened + k) - 1), At(opened + k))
    <3>1. \A i \in Nat \ {0} : i < Len(blocks) =>
            blocks[i] = Bytes(At(i - 1), At(i)) /\ At(i) <= put
      BY BlockKinds
    <3> QED
      BY <2>1, <3>1, Zenon
  <2>3. At(opened + (k - 1)) = base + At(k - 1) /\ At(opened + k) = base + At(k)
    BY <1>1, <2>1, AtSum
  <2> QED
    BY <1>4, <2>1, <2>2, <2>3
<1>8. FlattenSeq(ss) = Bytes(base, base + At(m)) \o ss[m + 1]
  <2> HIDE DEF base
  <2>1. base \in Nat
    BY <1>1 DEF base
  <2> QED
    BY <1>6, <1>7, <2>1, FlattenChain
<1>9. At(opened + m) = base + At(m)
  BY <1>1, AtSum
<1>10. ss[m + 1] = blocks[opened + m + 1]
  <2>1. m + 1 \in 1..(m + 1) /\ opened + (m + 1) = opened + m + 1
    BY <1>1
  <2> QED
    BY <1>4, <2>1
<1> QED
  BY <1>3, <1>8, <1>9, <1>10

\* A turn after which more blocks follow.
LEMMA MiddleTurn ==
  ASSUME CbcInv, phase = "open", wanted > 0, ReadingAt, ~AtEof, Filled % BlockSize = 0,
         fetched' = fetched + Filled, Turn(TurnBytes), phase' = phase,
         UNCHANGED <<put, pending, blocks, arrived>>
  PROVE  CbcInv'
<1>0. CbcTypes /\ WritingInv /\ WrittenInv /\ ReadBytes /\ ReadPlace /\ ReadPhase
  BY DEF CbcInv
<1>1. /\ put \in Nat /\ Len(blocks) \in Nat /\ opened \in Nat /\ blocks \in Seq(Seq(Nat))
      /\ BlockSize \in Nat \ {0} /\ Total = At(opened) /\ held = opened + 1
      /\ fetched = At(held) /\ held \in Nat /\ arrived \in Nat /\ wanted \in Nat
      /\ arrived <= At(Len(blocks)) /\ fetched \in Nat /\ ~eof
  BY DEF ReadingAt
<1>2. /\ Room \in Nat /\ Room >= 1 /\ Filled = At(Room) /\ Filled < wanted + BlockSize
      /\ Fresh = Room /\ Filled <= arrived - fetched
  <2>1. /\ Room \in Nat /\ Room >= 1 /\ Cap = At(Room) /\ Cap < wanted + BlockSize
        /\ Filled <= Cap /\ Fresh \in Nat /\ Filled = At(Fresh) /\ Filled <= arrived - fetched
        /\ Filled \in Nat /\ Cap \in Nat
    BY TurnRoom
  <2>2. Filled = Cap
    BY <2>1 DEF AtEof
  <2>3. At(Fresh) <= At(Room) /\ At(Room) <= At(Fresh)
    BY <2>1, <2>2
  <2>4. Fresh <= Room /\ Room <= Fresh
    BY <2>1, <2>3, AtOrder
  <2> QED
    BY <2>1, <2>2, <2>4
<1> DEFINE m == Room - 1
           N == Len(blocks)
<1>3. m \in Nat /\ Room = m + 1 /\ opened + m \in Nat /\ opened + m + 1 = opened + Room
      /\ opened + Room \in Nat /\ held + Room \in Nat /\ opened + Room + 1 = held + Room
  BY <1>1, <1>2
<1> HIDE DEF m, N
<1>4. /\ Len(Decrypted) = m + 1 /\ Last(Staged) = opened + Room + 1
  <2>1. Len(Decrypted) = Fresh /\ Last(Staged) = held + Fresh
    BY TurnBlocks
  <2> QED
    BY <1>2, <1>3, <2>1
<1>5. At(held + Room) = fetched + Filled
  BY <1>1, <1>2, AtSum
<1>6. fetched + Filled <= arrived
  <2>1. Filled \in Nat
    BY <1>2, AtFacts
  <2> QED
    BY <1>1, <1>2, <2>1
<1>7. opened + Room < Len(blocks)
  <2>1. At(held + Room) <= At(Len(blocks))
    <3>1. At(Len(blocks)) \in Nat /\ At(held + Room) \in Nat
      BY <1>1, <1>3, AtFacts
    <3> QED
      BY <1>1, <1>5, <1>6, <3>1
  <2>2. held + Room <= Len(blocks)
    BY <1>1, <1>3, <2>1, AtOrder
  <2> QED
    BY <1>1, <1>3, <2>2
<1>8. /\ TurnBytes = Bytes(At(opened), At(opened + m)) \o blocks[opened + m + 1]
  <2>1. opened + m < Len(blocks)
    BY <1>1, <1>3, <1>7
  <2> QED
    BY <1>0, <1>3, <1>4, <2>1, DataBlocksOpen
<1> DEFINE j == opened + Room
<1>9. /\ j \in Nat \ {0} /\ j < Len(blocks) /\ j - 1 = opened + m /\ opened <= opened + m
      /\ opened + m <= j
  BY <1>1, <1>2, <1>3, <1>7
<1>10. blocks[j] = Bytes(At(j - 1), At(j)) /\ At(j) <= put
  <2> HIDE DEF j
  <2> QED
    BY <1>0, <1>9, BlockKinds
<1>11. TurnBytes = Bytes(At(opened), At(j))
  <2> DEFINE a == At(opened)
             b == At(opened + m)
             c == At(j)
  <2>1. a \in Nat /\ b \in Nat /\ c \in Nat /\ a <= b /\ b <= c
    <3> HIDE DEF j
    <3> QED
      BY <1>1, <1>3, <1>9, AtFacts, AtOrder
  <2>2. TurnBytes = Bytes(a, b) \o Bytes(b, c)
    BY <1>3, <1>8, <1>9, <1>10
  <2> HIDE DEF a, b, c, j
  <2>3. TurnBytes = Bytes(a, c)
    BY <2>1, <2>2, BytesJoin
  <2> QED
    BY <2>3 DEF a, c
<1>12. At(j) = Total + Filled /\ At(j) \in Nat /\ At(opened) \in Nat /\ Filled \in Nat
  <2>1. At(j) = At(opened) + At(Room)
    BY <1>1, <1>2, AtSum
  <2>2. At(opened) \in Nat /\ At(Room) \in Nat
    BY <1>1, <1>2, AtFacts
  <2>3. At(opened) = Total /\ At(Room) = Filled
    BY <1>1, <1>2
  <2> HIDE DEF j
  <2> QED
    BY <2>1, <2>2, <2>3
<1> HIDE DEF j
<1>13. Stretch(TurnBytes, Total) /\ Len(TurnBytes) = Filled
  <2> DEFINE a == At(opened)
             c == At(j)
  <2>1. a \in Nat /\ c \in Nat /\ a <= c /\ c - a = Filled /\ a = Total
    BY <1>1, <1>12
  <2>2. TurnBytes = Bytes(a, c)
    BY <1>11
  <2> HIDE DEF a, c
  <2>3. Stretch(Bytes(a, c), a) /\ Len(Bytes(a, c)) = c - a
    BY <2>1, StretchBytes
  <2> QED
    BY <2>1, <2>2, <2>3
<1>14. Total + Len(TurnBytes) <= put /\ Len(TurnBytes) < wanted + BlockSize
  BY <1>2, <1>10, <1>12, <1>13
<1>15. /\ got' \in Seq(Nat) /\ page' \in Seq(Nat) /\ spill' \in Seq(Nat)
       /\ wanted' \in Nat /\ told' \in BOOLEAN
       /\ ReadBytes' /\ Total' = Total + Len(TurnBytes)
       /\ eof' = AtEof /\ opened' = opened + Len(Decrypted)
       /\ held' = IF AtEof THEN held ELSE Last(Staged)
       /\ wanted' > 0 => ~AtEof /\ spill' = <<>> /\ ~told'
       /\ wanted' = 0 => page' = <<>>
       /\ told' => AtEof /\ spill' = <<>> /\ wanted' = 0
  BY <1>0, <1>13, <1>14, TurnEffect
<1>16. opened' = j /\ held' = j + 1 /\ ~eof' /\ eof' \in BOOLEAN /\ ~told'
  <2>1. opened' = j /\ held' = j + 1
    BY <1>3, <1>4, <1>15 DEF j
  <2>2. AtEof \in BOOLEAN
    BY DEF AtEof
  <2> QED
    BY <1>15, <2>1, <2>2
<1>17. CbcTypes'
  <2>1. opened' \in Nat /\ held' \in Nat /\ fetched' \in Nat
    <3>1. j + 1 \in Nat /\ j \in Nat
      BY <1>9
    <3>2. fetched + Filled \in Nat
      BY <1>1, <1>12
    <3> QED
      BY <1>16, <3>1, <3>2
  <2> QED
    BY <1>0, <1>15, <1>16, <2>1 DEF CbcTypes
<1>18. WritingInv' /\ WrittenInv'
  BY <1>0, SameWritten
<1>19. ReadPlace'
  <2>1. Total' = At(opened') /\ held' = opened' + 1
    BY <1>12, <1>13, <1>15, <1>16
  <2>2. fetched' = At(held') /\ fetched' <= arrived'
    BY <1>3, <1>5, <1>6, <1>16 DEF j
  <2>3. arrived' <= At(Len(blocks'))
    BY <1>1
  <2> QED
    BY <1>16, <2>1, <2>2, <2>3 DEF ReadPlace
<1>20. ReadPhase'
  BY <1>15, <1>16 DEF ReadPhase
<1> QED
  BY <1>15, <1>17, <1>18, <1>19, <1>20 DEF CbcInv

\* The blocks that come in at the end.
LEMMA LastBlocks ==
  ASSUME WrittenInv, phase = "open", ReadingAt, AtEof, Filled % BlockSize = 0
  PROVE  /\ Fresh \in Nat /\ At(Fresh) \in Nat /\ At(Fresh) + BlockSize < wanted + BlockSize
         /\ fetched + Filled \in Nat /\ Len(Decrypted) = Fresh + 1
         /\ opened + Fresh + 1 <= Len(blocks) /\ opened + Fresh \in Nat
         /\ arrived = At(opened + Fresh + 1)
         /\ At(opened + Fresh) = At(opened) + At(Fresh)
         /\ TurnBytes = Bytes(At(opened), At(opened + Fresh)) \o blocks[opened + Fresh + 1]
         /\ Opened(Len(Decrypted)) = blocks[opened + Fresh + 1]
         /\ blocks[opened + Fresh + 1] \in Seq(Nat)
         /\ opened + Fresh + 1 < Len(blocks) =>
              /\ blocks[opened + Fresh + 1] = Bytes(At(opened + Fresh), At(opened + Fresh + 1))
              /\ At(opened + Fresh) + BlockSize <= put /\ ~Complete
         /\ opened + Fresh + 1 = Len(blocks) =>
              IsLastBlock(blocks[opened + Fresh + 1], opened + Fresh, put)
<1>1. /\ put \in Nat /\ Len(blocks) \in Nat /\ opened \in Nat /\ blocks \in Seq(Seq(Nat))
      /\ BlockSize \in Nat \ {0} /\ held = opened + 1 /\ wanted \in Nat
      /\ fetched = At(held) /\ held \in Nat /\ arrived \in Nat /\ fetched \in Nat
      /\ arrived <= At(Len(blocks)) /\ Len(blocks) >= 1 /\ fetched <= arrived
  BY DEF ReadingAt
<1>2. /\ Room \in Nat /\ Cap = At(Room) /\ Cap < wanted + BlockSize /\ Fresh \in Nat
      /\ Filled = At(Fresh) /\ Filled = arrived - fetched /\ Filled < Cap /\ Cap \in Nat
      /\ Filled \in Nat
  <2>1. /\ Room \in Nat /\ Cap = At(Room) /\ Cap < wanted + BlockSize
        /\ Filled = Cap \/ Filled = arrived - fetched
        /\ Fresh \in Nat /\ Filled = At(Fresh) /\ Cap \in Nat /\ Filled \in Nat
    BY TurnRoom
  <2>2. Filled < Cap
    BY DEF AtEof
  <2> QED
    BY <2>1, <2>2
<1>3. At(Fresh) + BlockSize <= At(Room)
  <2>1. Fresh < Room
    <3>1. ~(At(Room) <= At(Fresh))
      BY <1>2
    <3>2. Room <= Fresh => At(Room) <= At(Fresh)
      BY <1>2, AtOrder
    <3>3. Room \in Nat /\ Fresh \in Nat
      BY <1>2
    <3> HIDE DEF Room
    <3> QED
      BY <3>1, <3>2, <3>3
  <2> QED
    BY <1>2, <2>1, AtOrder
<1>4. At(Fresh) + BlockSize < wanted + BlockSize
  BY <1>1, <1>2, <1>3, SMTT(30)
<1> DEFINE j == opened + Fresh
<1>5. j \in Nat /\ j + 1 \in Nat \ {0} /\ held + Fresh = j + 1 /\ opened <= j
  BY <1>1, <1>2
<1>6. At(j + 1) = fetched + Filled /\ At(j) = At(opened) + At(Fresh)
  <2>1. At(held + Fresh) = At(held) + At(Fresh)
    BY <1>1, <1>2, AtSum
  <2>2. At(opened + Fresh) = At(opened) + At(Fresh)
    BY <1>1, <1>2, AtSum
  <2> QED
    BY <1>1, <1>2, <1>5, <2>1, <2>2
<1> HIDE DEF j
<1>7. arrived = At(j + 1) /\ fetched + Filled \in Nat
  <2>1. fetched + Filled = arrived
    BY <1>1, <1>2
  <2> QED
    BY <1>1, <1>6, <2>1
<1>8. j + 1 <= Len(blocks)
  BY <1>1, <1>5, <1>7, AtOrder
<1>9. Len(Decrypted) = Fresh + 1 /\ Opened(Fresh + 1) = blocks[j + 1]
  <2>1. Len(Decrypted) = Fresh + 1
    BY TurnBlocks
  <2>2. Fresh + 1 \in 1..Len(Decrypted) /\ opened + (Fresh + 1) = j + 1
    BY <1>1, <1>2, <2>1 DEF j
  <2>3. Opened(Fresh + 1) = blocks[opened + (Fresh + 1)]
    BY <2>2, TurnBlocks
  <2> QED
    BY <2>1, <2>2, <2>3
<1>10. TurnBytes = Bytes(At(opened), At(j)) \o blocks[j + 1]
  <2>1. opened + Fresh < Len(blocks)
    BY <1>1, <1>5, <1>8 DEF j
  <2> QED
    BY <1>2, <1>9, <2>1, DataBlocksOpen DEF j
<1>11. blocks[j + 1] \in Seq(Nat)
  <2>1. j + 1 \in 1..Len(blocks)
    BY <1>1, <1>5, <1>8
  <2> QED
    BY <1>1, <2>1
<1>12. ASSUME j + 1 < Len(blocks)
       PROVE  /\ blocks[j + 1] = Bytes(At(j), At(j + 1))
              /\ At(j) + BlockSize <= put /\ ~Complete
  <2>1. blocks[j + 1] = Bytes(At(j + 1 - 1), At(j + 1)) /\ At(j + 1) <= put
    BY <1>5, <1>12, BlockKinds
  <2>2. j + 1 - 1 = j /\ At(j + 1) = At(j) + BlockSize
    BY <1>5, AtFacts
  <2>3. At(j + 1) + BlockSize <= At(Len(blocks))
    BY <1>1, <1>5, <1>12, AtOrder
  <2>4. ~Complete
    BY <1>1, <1>7, <2>3 DEF Complete
  <2> QED
    BY <2>1, <2>2, <2>4
<1>13. ASSUME j + 1 = Len(blocks)
       PROVE  IsLastBlock(blocks[j + 1], j, put)
  <2>1. Len(blocks) - 1 = j
    BY <1>5, <1>13
  <2> QED
    BY <1>13, <2>1, BlockKinds
<1> QED
  BY <1>2, <1>4, <1>5, <1>6, <1>7, <1>8, <1>9, <1>10, <1>11, <1>12, <1>13, AtFacts DEF j

\* A block of data does not end like padding, the last one does, and what is
\* taken of it is data.
LEMMA PaddingFound ==
  ASSUME NEW b \in Seq(Nat), NEW j \in Nat, IsLastBlock(b, j, put), put \in Nat
  PROVE  /\ 0 \in Range(b)
         /\ \A n \in Unpadded(b) :
              n \in Nat /\ n < BlockSize /\ At(j) + n = put /\ \A k \in 1..n : b[k] = At(j) + k
<1>1. /\ At(j) <= put /\ put < At(j) + BlockSize /\ Len(b) = BlockSize
      /\ \A i \in 1..BlockSize : b[i] = IF i <= put - At(j) THEN At(j) + i ELSE 0
  BY DEF IsLastBlock
<1>2. At(j) \in Nat /\ BlockSize \in Nat \ {0}
  BY AtFacts
<1> DEFINE g == put - At(j)
<1>3. g \in Nat /\ g < BlockSize /\ At(j) + g = put
  BY <1>1, <1>2
<1>4. \A i \in 1..BlockSize : b[i] = IF i <= g THEN At(j) + i ELSE 0
  BY <1>1
<1> HIDE DEF g
<1>5. 0 \in Range(b)
  <2>1. BlockSize \in 1..BlockSize /\ ~(BlockSize <= g)
    BY <1>2, <1>3
  <2>2. b[BlockSize] = 0 /\ BlockSize \in DOMAIN b
    BY <1>1, <1>4, <2>1
  <2> QED
    BY <2>2 DEF Range
<1>6. ASSUME NEW n \in Unpadded(b)
      PROVE  n \in Nat /\ n < BlockSize /\ At(j) + n = put /\ \A k \in 1..n : b[k] = At(j) + k
  <2>1. n \in 0..(BlockSize - 1) /\ \A k \in 1..BlockSize : b[k] = 0 <=> k > n
    BY <1>5 DEF Unpadded
  <2>2. n \in Nat /\ n < BlockSize
    BY <1>2, <2>1
  <2>3. ~(g < n)
    <3> SUFFICES ASSUME g < n PROVE FALSE
      OBVIOUS
    <3>1. n \in 1..BlockSize /\ ~(n <= g) /\ ~(n > n)
      BY <1>2, <1>3, <2>2
    <3>2. b[n] = 0
      BY <1>4, <3>1
    <3> QED
      BY <2>1, <3>1, <3>2
  <2>4. ~(n < g)
    <3> SUFFICES ASSUME n < g PROVE FALSE
      OBVIOUS
    <3>1. g \in 1..BlockSize /\ g <= g /\ g > n /\ At(j) + g # 0
      BY <1>2, <1>3, <2>2
    <3>2. b[g] = At(j) + g
      BY <1>4, <3>1
    <3> QED
      BY <2>1, <3>1, <3>2
  <2>5. n = g
    BY <1>3, <2>2, <2>3, <2>4
  <2>6. ASSUME NEW k \in 1..n PROVE b[k] = At(j) + k
    <3>1. k \in 1..BlockSize /\ k <= g
      BY <1>2, <1>3, <2>2, <2>5
    <3> QED
      BY <1>4, <3>1
  <2> QED
    BY <1>3, <2>2, <2>5, <2>6
<1> QED
  BY <1>5, <1>6

\* The turn at the end of what has arrived: the last block is stripped, or
\* refused because it does not end like padding.
LEMMA LastTurn ==
  ASSUME CbcInv, phase = "open", wanted > 0, ReadingAt, AtEof, Filled % BlockSize = 0,
         NEW n \in Unpadded(Opened(Len(Decrypted))),
         fetched' = fetched + Filled,
         Turn(SubSeq(TurnBytes, 1, Len(TurnBytes) - BlockSize + n)), phase' = phase,
         UNCHANGED <<put, pending, blocks, arrived>>
  PROVE  CbcInv'
<1>0. CbcTypes /\ WritingInv /\ WrittenInv /\ ReadBytes /\ ReadPlace /\ ReadPhase
  BY DEF CbcInv
<1> DEFINE j == opened + Fresh
           b == blocks[opened + Fresh + 1]
<1>1. /\ put \in Nat /\ Len(blocks) \in Nat /\ opened \in Nat /\ wanted \in Nat
      /\ BlockSize \in Nat \ {0} /\ Total = At(opened) /\ held \in Nat /\ arrived \in Nat
      /\ arrived <= At(Len(blocks)) /\ fetched \in Nat
  BY DEF ReadingAt
<1>2. /\ Fresh \in Nat /\ At(Fresh) \in Nat /\ At(Fresh) + BlockSize < wanted + BlockSize
      /\ fetched + Filled \in Nat /\ Len(Decrypted) = Fresh + 1
      /\ j + 1 <= Len(blocks) /\ j \in Nat
      /\ arrived = At(j + 1)
      /\ At(j) = At(opened) + At(Fresh)
      /\ TurnBytes = Bytes(At(opened), At(j)) \o b
      /\ Opened(Len(Decrypted)) = b
      /\ b \in Seq(Nat)
      /\ j + 1 < Len(blocks) =>
           /\ b = Bytes(At(j), At(j + 1))
           /\ At(j) + BlockSize <= put /\ ~Complete
      /\ j + 1 = Len(blocks) => IsLastBlock(b, j, put)
  BY <1>0, LastBlocks
<1>3. opened <= j
  BY <1>1, <1>2
<1> HIDE DEF j, b
<1>4. /\ At(j) \in Nat /\ At(opened) \in Nat /\ At(opened) <= At(j) /\ At(j + 1) = At(j) + BlockSize
      /\ At(j + 1) \in Nat
  BY <1>1, <1>2, <1>3, AtFacts, AtOrder
<1> DEFINE free == At(Fresh)
           start == At(j)
<1>20. /\ free \in Nat /\ start \in Nat /\ Total \in Nat /\ put \in Nat /\ wanted \in Nat
      /\ BlockSize \in Nat \ {0} /\ start = Total + free /\ free + BlockSize < wanted + BlockSize
  BY <1>1, <1>2, <1>4
<1> HIDE DEF free, start
<1>5. Len(b) = BlockSize
  <2>1. CASE j + 1 < Len(blocks)
    <3>1. Len(b) = At(j + 1) - At(j)
      <4> DEFINE c == At(j)
                 d == At(j + 1)
      <4>1. c \in Nat /\ d \in Nat /\ c <= d
        BY <1>1, <1>4
      <4>2. b = Bytes(c, d)
        BY <1>2, <2>1
      <4> HIDE DEF c, d
      <4>3. Len(b) = d - c
        BY <4>1, <4>2, BytesFacts
      <4> QED
        BY <4>3 DEF c, d
    <3> QED
      BY <1>1, <1>4, <3>1
  <2>2. CASE j + 1 = Len(blocks)
    BY <1>2, <2>2 DEF IsLastBlock
  <2> QED
    BY <1>1, <1>2, <2>1, <2>2
<1>6. /\ n \in Nat /\ n < BlockSize
      /\ \A k \in 1..n : b[k] = At(j) + k
      /\ At(j) + n <= put /\ (Complete => At(j) + n = put)
  <2>1. n \in 0..(BlockSize - 1) /\ n \in Unpadded(b)
    BY <1>2 DEF Unpadded
  <2>2. n \in Nat /\ n < BlockSize
    BY <1>1, <2>1
  <2>3. CASE j + 1 < Len(blocks)
    <3>1. \A k \in 1..BlockSize : b[k] = At(j) + k
      <4> DEFINE c == At(j)
                 d == At(j + 1)
      <4>1. c \in Nat /\ d \in Nat /\ c <= d /\ d - c = BlockSize
        BY <1>1, <1>4
      <4>2. b = Bytes(c, d)
        BY <1>2, <2>3
      <4> HIDE DEF c, d
      <4>3. \A k \in 1..(d - c) : b[k] = c + k
        BY <4>1, <4>2, BytesFacts
      <4> QED
        BY <4>1, <4>3 DEF c
    <3>2. \A k \in 1..n : k \in 1..BlockSize
      BY <1>1, <2>2
    <3>3. At(j) + n <= put
      <4>1. start + BlockSize <= put
        BY <1>2, <2>3 DEF start
      <4>2. start + n <= put
        BY <1>20, <2>2, <4>1
      <4> QED
        BY <4>2 DEF start
    <3> QED
      BY <1>2, <2>2, <2>3, <3>1, <3>2, <3>3
  <2>4. CASE j + 1 = Len(blocks)
    <3>1. \A m \in Unpadded(b) :
            m \in Nat /\ m < BlockSize /\ At(j) + m = put /\ \A k \in 1..m : b[k] = At(j) + k
      <4>1. IsLastBlock(b, j, put)
        BY <1>2, <2>4
      <4> QED
        BY <1>1, <1>2, <4>1, PaddingFound
    <3>2. At(j) + n = put /\ \A k \in 1..n : b[k] = At(j) + k
      BY <2>1, <3>1
    <3>3. At(j) + n <= put
      BY <1>1, <3>2
    <3> QED
      BY <2>2, <3>2, <3>3
  <2> QED
    BY <1>1, <1>2, <2>3, <2>4
<1> DEFINE u == Bytes(At(opened), At(j))
           cut == SubSeq(TurnBytes, 1, Len(TurnBytes) - BlockSize + n)
<1>7. /\ u \in Seq(Nat) /\ Len(u) = At(Fresh) /\ \A k \in 1..Len(u) : u[k] = Total + k
  <2> DEFINE c == At(opened)
             d == At(j)
  <2>1. c \in Nat /\ d \in Nat /\ c <= d /\ d - c = At(Fresh) /\ c = Total
    <3>1. c = Total /\ d = start
      BY <1>1 DEF start
    <3>2. Total \in Nat /\ start \in Nat /\ Total <= start /\ start - Total = free
      BY <1>20
    <3> QED
      BY <3>1, <3>2 DEF free
  <2> HIDE DEF c, d
  <2>2. /\ Bytes(c, d) \in Seq(Nat) /\ Len(Bytes(c, d)) = d - c
        /\ \A k \in 1..(d - c) : Bytes(c, d)[k] = c + k
    BY <2>1, BytesFacts
  <2> QED
    BY <2>1, <2>2 DEF c, d
<1> HIDE DEF u
<1>8. /\ TurnBytes \in Seq(Nat) /\ Len(TurnBytes) = At(Fresh) + BlockSize
      /\ \A k \in 1..Len(u) : TurnBytes[k] = u[k]
      /\ \A k \in 1..Len(b) : TurnBytes[Len(u) + k] = b[k]
  <2>1. TurnBytes = u \o b
    BY <1>2 DEF u
  <2>2. /\ u \o b \in Seq(Nat) /\ Len(u \o b) = Len(u) + Len(b)
        /\ \A k \in 1..Len(u) : (u \o b)[k] = u[k]
        /\ \A k \in 1..Len(b) : (u \o b)[Len(u) + k] = b[k]
    <3>1. u \in Seq(Nat) /\ b \in Seq(Nat)
      BY <1>2, <1>7
    <3> QED
      BY <3>1, JoinFacts
  <2> QED
    BY <1>5, <1>7, <2>1, <2>2
<1> DEFINE q == At(Fresh) + n
<1>9. q \in Nat /\ q <= Len(TurnBytes) /\ Len(TurnBytes) - BlockSize + n = q
  <2>1. Len(TurnBytes) = free + BlockSize /\ q = free + n
    BY <1>8 DEF free
  <2>2. n \in Nat /\ n < BlockSize
    BY <1>6
  <2> HIDE DEF q
  <2> QED
    BY <1>20, <2>1, <2>2
<1>10. Stretch(cut, Total) /\ Len(cut) = q
  <2>1. cut = SubSeq(TurnBytes, 0 + 1, q)
    BY <1>9
  <2> HIDE DEF q
  <2>2. /\ SubSeq(TurnBytes, 0 + 1, q) \in Seq(Nat) /\ Len(SubSeq(TurnBytes, 0 + 1, q)) = q - 0
        /\ \A k \in 1..(q - 0) : SubSeq(TurnBytes, 0 + 1, q)[k] = TurnBytes[0 + k]
    <3>1. 0 \in Nat /\ 0 <= q
      BY <1>9
    <3> QED
      BY <1>8, <1>9, <3>1, PartFacts
  <2> HIDE DEF cut
  <2>3. cut \in Seq(Nat) /\ Len(cut) = q
    BY <1>9, <2>1, <2>2
  <2>4. ASSUME NEW k \in 1..q PROVE cut[k] = Total + k
    <3>1. cut[k] = TurnBytes[k]
      <4>1. k \in 1..(q - 0) /\ 0 + k = k
        BY <1>9
      <4> QED
        BY <2>1, <2>2, <4>1
    <3>2. CASE k <= At(Fresh)
      <4>1. k \in 1..Len(u)
        BY <1>2, <1>7, <1>9, <3>2
      <4> QED
        BY <1>7, <1>8, <3>1, <4>1
    <3>3. CASE ~(k <= At(Fresh))
      <4> DEFINE i == k - At(Fresh)
      <4>1. i \in 1..n /\ i \in 1..BlockSize /\ Len(u) + i = k
        <5>1. n \in Nat /\ n < BlockSize /\ q = free + n /\ i = k - free /\ ~(k <= free)
          BY <1>6, <3>3 DEF q, free
        <5>2. Len(u) = free
          BY <1>7 DEF free
        <5> HIDE DEF i
        <5> QED
          BY <1>20, <5>1, <5>2
      <4>2. TurnBytes[k] = b[i] /\ b[i] = At(j) + i
        <5> HIDE DEF i
        <5>1. i \in 1..Len(b)
          BY <1>5, <4>1
        <5>2. TurnBytes[Len(u) + i] = b[i]
          BY <1>8, <5>1
        <5> QED
          BY <1>6, <4>1, <5>2
      <4>3. At(j) + i = Total + k
        <5>1. start + (k - free) = Total + k
          BY <1>20
        <5> QED
          BY <5>1 DEF start, free
      <4> QED
        BY <3>1, <4>2, <4>3
    <3> QED
      BY <3>2, <3>3
  <2> QED
    BY <1>9, <2>3, <2>4 DEF Stretch
<1>11. /\ Total + Len(cut) <= put /\ Len(cut) < wanted + BlockSize
       /\ Complete => Total + Len(cut) = put
  <2>1. Total + q = At(j) + n
    <3>1. n \in Nat
      BY <1>6
    <3>2. Total + (free + n) = start + n
      BY <1>20, <3>1
    <3> QED
      BY <3>2 DEF start, free
  <2>2. q < wanted + BlockSize
    <3>1. n \in Nat /\ n < BlockSize
      BY <1>6
    <3>2. free + n < wanted + BlockSize
      BY <1>20, <3>1
    <3> QED
      BY <3>2 DEF free
  <2> HIDE DEF q, cut
  <2> QED
    BY <1>6, <1>10, <2>1, <2>2
<1> HIDE DEF q
<1>12. Turn(cut)
  OBVIOUS
<1> HIDE DEF cut
<1>13. /\ got' \in Seq(Nat) /\ page' \in Seq(Nat) /\ spill' \in Seq(Nat)
       /\ wanted' \in Nat /\ told' \in BOOLEAN
       /\ ReadBytes' /\ Total' = Total + Len(cut)
       /\ eof' = AtEof /\ opened' = opened + Len(Decrypted)
       /\ held' = IF AtEof THEN held ELSE Last(Staged)
       /\ wanted' > 0 => ~AtEof /\ spill' = <<>> /\ ~told'
       /\ wanted' = 0 => page' = <<>>
       /\ told' => AtEof /\ spill' = <<>> /\ wanted' = 0
  BY <1>0, <1>10, <1>11, <1>12, TurnEffect
<1>14. eof' /\ ~(wanted' > 0) /\ eof' \in BOOLEAN
  <2>1. AtEof \in BOOLEAN
    BY DEF AtEof
  <2> QED
    BY <1>13, <2>1
<1>15. CbcTypes'
  <2>1. opened' \in Nat /\ held' \in Nat /\ fetched' \in Nat
    <3>1. opened + (Fresh + 1) \in Nat
      BY <1>1, <1>2
    <3> QED
      BY <1>1, <1>2, <1>13, <3>1
  <2> QED
    BY <1>0, <1>13, <1>14, <2>1 DEF CbcTypes
<1>16. WritingInv' /\ WrittenInv'
  BY <1>0, SameWritten
<1>17. ReadPlace'
  <2>1. Complete' <=> Complete
    BY DEF Complete
  <2>2. Complete => Total' = put'
    BY <1>11, <1>13
  <2>3. arrived' <= At(Len(blocks'))
    BY <1>1
  <2> QED
    BY <1>14, <2>1, <2>2, <2>3 DEF ReadPlace
<1>18. ReadPhase'
  BY <1>13, <1>14 DEF ReadPhase
<1> QED
  BY <1>13, <1>15, <1>16, <1>17, <1>18 DEF CbcInv

\* A last block that is refused is not the last one written.
LEMMA RefusedEarly ==
  ASSUME WrittenInv, phase = "open", ReadingAt, AtEof, Filled % BlockSize = 0,
         Refusable(Opened(Len(Decrypted)))
  PROVE  ~Complete
<1> DEFINE j == opened + Fresh
           b == blocks[opened + Fresh + 1]
<1>1. put \in Nat /\ Len(blocks) \in Nat
  BY DEF ReadingAt
<1>2. /\ j + 1 <= Len(blocks) /\ j \in Nat /\ Opened(Len(Decrypted)) = b /\ b \in Seq(Nat)
      /\ j + 1 < Len(blocks) => ~Complete
      /\ j + 1 = Len(blocks) => IsLastBlock(b, j, put)
  BY LastBlocks
<1> HIDE DEF j, b
<1>3. CASE j + 1 = Len(blocks)
  <2>1. IsLastBlock(b, j, put)
    BY <1>2, <1>3
  <2>2. 0 \in Range(b)
    BY <1>1, <1>2, <2>1, PaddingFound
  <2> QED
    BY <1>2, <2>2 DEF Refusable
<1>4. j + 1 # Len(blocks) => j + 1 < Len(blocks)
  BY <1>1, <1>2
<1> QED
  BY <1>2, <1>3, <1>4

LEMMA ReadKeeps ==
  ASSUME CbcInv, ReadTurn
  PROVE  CbcInv'
<1>0. CbcTypes /\ WritingInv /\ WrittenInv /\ ReadBytes /\ ReadPlace /\ ReadPhase
  BY DEF CbcInv
<1> DEFINE last == Opened(Len(Decrypted))
           Refused == Fail("failed") /\ UNCHANGED <<held, opened, spill, eof>>
<1>1. /\ phase = "open" /\ wanted > 0 /\ fetched' = fetched + Filled
      /\ put' = put /\ pending' = pending /\ blocks' = blocks /\ arrived' = arrived
      /\ \/ Filled % BlockSize # 0 /\ Refused
         \/ Filled % BlockSize = 0 /\ ~AtEof /\ Turn(TurnBytes) /\ phase' = phase
         \/ /\ Filled % BlockSize = 0 /\ AtEof
            /\ \E n \in Unpadded(last) :
                 /\ Turn(SubSeq(TurnBytes, 1, Len(TurnBytes) - BlockSize + n))
                 /\ phase' = phase
         \/ Filled % BlockSize = 0 /\ AtEof /\ Refusable(last) /\ Refused
  BY DEF ReadTurn, TurnBytes, bwritervars
<1>2. ReadingAt
  BY <1>1, Reading
<1>3. fetched' \in Nat
  <2>1. fetched \in Nat
    BY <1>2 DEF ReadingAt
  <2>2. Filled \in Nat
    BY <1>2, TurnRoom
  <2> QED
    BY <1>1, <2>1, <2>2
<1>4. ASSUME ~Complete, Refused PROVE CbcInv'
  BY <1>1, <1>3, <1>4, FailKeeps
<1>5. CASE Filled % BlockSize # 0 /\ Refused
  <2>1. ~Complete
    BY <1>2, <1>5, PartialBlock
  <2> QED
    BY <1>4, <1>5, <2>1
<1>6. CASE Filled % BlockSize = 0 /\ ~AtEof /\ Turn(TurnBytes) /\ phase' = phase
  BY <1>1, <1>2, <1>6, MiddleTurn
<1>7. CASE /\ Filled % BlockSize = 0 /\ AtEof
           /\ \E n \in Unpadded(last) :
                /\ Turn(SubSeq(TurnBytes, 1, Len(TurnBytes) - BlockSize + n))
                /\ phase' = phase
  <2>1. PICK n \in Unpadded(last) :
          /\ Turn(SubSeq(TurnBytes, 1, Len(TurnBytes) - BlockSize + n))
          /\ phase' = phase
    BY <1>7
  <2> QED
    BY <1>1, <1>2, <1>7, <2>1, LastTurn
<1>8. CASE Filled % BlockSize = 0 /\ AtEof /\ Refusable(last) /\ Refused
  <2>1. ~Complete
    BY <1>0, <1>1, <1>2, <1>8, RefusedEarly
  <2> QED
    BY <1>4, <1>8, <2>1
<1> QED
  BY <1>1, <1>5, <1>6, <1>7, <1>8

LEMMA BreakKeeps ==
  ASSUME CbcInv, SourceBreaks
  PROVE  CbcInv'
<1>1. fetched \in Nat
  BY DEF CbcInv, CbcTypes
<1>2. /\ phase = "open" /\ wanted > 0 /\ Fail("broken") /\ fetched' = fetched
      /\ UNCHANGED <<put, pending, blocks, arrived, held, opened, spill, eof>>
  BY DEF SourceBreaks, bwritervars
<1> QED
  BY <1>1, <1>2, FailKeeps

-----------------------------------------------------------------------------
(* The stream of blocks                                                    *)

CbcSpec == CbcInit /\ [][CbcNext]_bvars

LEMMA CbcStays ==
  ASSUME CbcInv, UNCHANGED bvars
  PROVE  CbcInv'
<1>1. /\ put' = put /\ pending' = pending /\ blocks' = blocks /\ phase' = phase
      /\ arrived' = arrived /\ fetched' = fetched /\ held' = held /\ opened' = opened
      /\ spill' = spill /\ eof' = eof /\ wanted' = wanted /\ page' = page
      /\ got' = got /\ told' = told
  BY DEF bvars, bwritervars, breadervars
<1>2. CbcTypes'
  BY <1>1 DEF CbcInv, CbcTypes
<1>3. WritingInv' /\ WrittenInv'
  BY <1>1 DEF CbcInv, WritingInv, WrittenInv
<1>4. ReadBytes'
  BY <1>1 DEF CbcInv, ReadBytes, Total
<1>5. ReadPlace'
  BY <1>1 DEF CbcInv, ReadPlace, Total, Complete, Unread
<1>6. ReadPhase'
  BY <1>1 DEF CbcInv, ReadPhase
<1> QED
  BY <1>2, <1>3, <1>4, <1>5, <1>6 DEF CbcInv

LEMMA CbcKept == CbcInv /\ [CbcNext]_bvars => CbcInv'
<1> SUFFICES ASSUME CbcInv, [CbcNext]_bvars PROVE CbcInv'
  OBVIOUS
<1>1. CASE PutBytes
  BY <1>1, PutKeeps
<1>2. CASE FinishBlocks
  BY <1>2, FinishKeeps
<1>3. CASE OpenReader
  BY <1>3, OpenKeeps
<1>4. CASE BeginRead
  BY <1>4, BeginKeeps
<1>5. CASE ReadTurn
  BY <1>5, ReadKeeps
<1>6. CASE SourceBreaks
  BY <1>6, BreakKeeps
<1>7. CASE UNCHANGED bvars
  BY <1>7, CbcStays
<1> QED
  BY <1>1, <1>2, <1>3, <1>4, <1>5, <1>6, <1>7 DEF CbcNext

LEMMA BlocksGiveData == CbcInv => BlocksReadBack
<1> SUFFICES ASSUME CbcInv PROVE BlocksReadBack
  OBVIOUS
<1>1. CbcTypes /\ ReadBytes /\ ReadPlace /\ ReadPhase
  BY DEF CbcInv
<1>2. got \in Seq(Nat) /\ put \in Nat /\ page \in Seq(Nat) /\ spill \in Seq(Nat)
  BY <1>1 DEF CbcTypes
<1>3. /\ Len(got) \in Nat /\ Len(page) \in Nat /\ Len(spill) \in Nat
  BY <1>2
<1>4. got = Bytes(0, Len(got))
  <2> DEFINE n == Len(got)
  <2>1. n \in Nat /\ 0 <= n /\ n - 0 = n
    BY <1>3
  <2>2. \A i \in 1..n : got[i] = 0 + i
    BY <1>1, <1>2 DEF ReadBytes, Stretch
  <2>3. Len(got) = n - 0
    BY <2>1
  <2> HIDE DEF n
  <2>4. \A i \in 1..(n - 0) : got[i] = 0 + i
    BY <2>1, <2>2
  <2>5. got = Bytes(0, n)
    BY <1>2, <2>1, <2>3, <2>4, IsBytes
  <2> QED
    BY <2>5 DEF n
<1>5. Len(got) <= put /\ Len(spill) < BlockSize
  <2>1. Len(got) + Len(page) + Len(spill) <= put /\ Len(spill) < BlockSize
    BY <1>1 DEF ReadBytes, Total
  <2> QED
    BY <1>2, <1>3, <2>1
<1>6. ASSUME arrived = Len(blocks) * BlockSize, phase # "write"
      PROVE  phase # "failed" /\ (told => Len(got) = put)
  <2>1. Complete
    BY <1>6 DEF Complete, At
  <2>2. phase # "failed"
    BY <1>1, <2>1 DEF ReadPlace
  <2>3. ASSUME told PROVE Len(got) = put
    <3>1. eof /\ spill = <<>> /\ wanted = 0
      BY <1>1, <2>3 DEF ReadPhase
    <3>2. page = <<>>
      BY <1>1, <3>1 DEF ReadPhase
    <3>3. Total = put
      BY <1>1, <2>1, <3>1 DEF ReadPlace
    <3>4. Len(page) = 0 /\ Len(spill) = 0
      BY <3>1, <3>2
    <3> QED
      BY <1>3, <3>3, <3>4 DEF Total
  <2> QED
    BY <2>2, <2>3
<1> QED
  BY <1>4, <1>5, <1>6 DEF BlocksReadBack

-----------------------------------------------------------------------------
(* What the two together promise                                           *)

\* Nothing but the original is read from a stream of segments, and what
\* arrives whole is read to its end (cipher/aead: StreamReader).
THEOREM SegmentsReadBack == GcmSpec => [](OnlyTheOriginal /\ IntactIsRead)
<1>1. GcmInv => OnlyTheOriginal /\ IntactIsRead
  BY HandedOriginal, IntactRead
<1> QED
  BY <1>1, GcmInvariant, PTL

LEMMA CbcInvariant == CbcSpec => []CbcInv
<1>1. CbcInit => CbcInv
  BY InitCbc
<1>2. CbcInv /\ [CbcNext]_bvars => CbcInv'
  BY CbcKept
<1> QED
  BY <1>1, <1>2, PTL DEF CbcSpec

\* A stream of chained blocks gives the data back, and only data, also when it
\* has been cut short (cipher/block: CbcBlockCipherDecryptReader).
THEOREM BlocksReturned == CbcSpec => []BlocksReadBack
<1>1. CbcInv => BlocksReadBack
  BY BlocksGiveData
<1> QED
  BY <1>1, CbcInvariant, PTL

LEMMA LayersKept ==
  ASSUME GcmInv, CbcInv, [Collection \/ Entries \/ Segments \/ BlockChain \/ Writing]_allvars
  PROVE  GcmInv' /\ CbcInv'
<1>1. [GcmNext]_gvars /\ [CbcNext]_bvars
  <2>1. CASE Collection
    BY <2>1 DEF Collection
  <2>2. CASE Entries
    BY <2>2 DEF Entries
  <2>3. CASE Segments
    BY <2>3 DEF Segments
  <2>4. CASE BlockChain
    BY <2>4 DEF BlockChain
  <2>5. CASE Writing
    BY <2>5 DEF Writing
  <2>6. CASE UNCHANGED allvars
    BY <2>6 DEF allvars
  <2> QED
    BY <2>1, <2>2, <2>3, <2>4, <2>5, <2>6
<1> QED
  BY <1>1, GcmKept, CbcKept

\* Both at once, as the run entry_layers checks them: whatever an entry was
\* encrypted with, nothing but its original data is read back.
THEOREM OriginalsRead == LayersSpec => []ReadsTheOriginal
<1>1. LayersInit => GcmInv /\ CbcInv
  BY GcmInitially, InitCbc DEF LayersInit
<1>2. GcmInv /\ CbcInv /\ [Collection \/ Entries \/ Segments \/ BlockChain \/ Writing]_allvars
        => GcmInv' /\ CbcInv'
  BY LayersKept
<1>3. GcmInv /\ CbcInv => ReadsTheOriginal
  BY HandedOriginal, IntactRead, BlocksGiveData DEF ReadsTheOriginal
<1> QED
  BY <1>1, <1>2, <1>3, PTL DEF LayersSpec
=============================================================================
