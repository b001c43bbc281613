--------------------------- MODULE SplitPartsProofs ---------------------------
(***************************************************************************)
(* Proofs about SplitParts, and about SplitRoundTrip, which reads back what *)
(* a sink has left, for every set of part sizes and of chunks.             *)
(*                                                                         *)
(* BudgetInv ties the budget that is left to the bytes already in the      *)
(* current part; with the types it is inductive and bounds every part.     *)
(* OrderInv, inductive relative to it, says where the pending data stands  *)
(* behind the last fragment and that a part is left only once it has one.  *)
(* RTInv adds what closes an archive, what the part files may have become, *)
(* and where in them the reader stands with what it has got.               *)
(***************************************************************************)
EXTENDS MCArchives, Induction, FiniteSetTheorems

\* What each step of the sink may rely on about the current part.
BudgetInv ==
  /\ pc = "new" => out = <<>> /\ written = <<>> /\ accepted = <<>>
  /\ pc \notin {"new", "failed"} =>
       /\ chunk_budget >= MIN_CHUNK_BYTES_SIZE
       /\ out # <<>> /\ parts = Len(out) /\ ~out[current].torn
       /\ remaining <= chunk_budget
  /\ pc \in {"idle", "value", "stream", "anxt"} =>
       /\ out[current].end = "open"
       /\ out[current].size + remaining = PART_HEADER_BYTES + chunk_budget
  /\ pc = "aend" =>
       /\ out[current].end = "anxt"
       /\ out[current].size + MIN_CHUNK_BYTES_SIZE <= max_part_bytes
  /\ pc = "open" => out[current].end = "next"
  /\ pc = "done" => out[current].end = "last"
  /\ pc \in {"aend", "open"} => parts < U32Max
  /\ pc = "value" => BytesLen(pending) <= remaining
  /\ pc \in {"anxt", "aend", "open"} /\ ret = "value" =>
       BytesLen(pending) <= chunk_budget

SizeInv == TypeOK /\ BudgetInv /\ PartsBounded

USE DEF MIN_CHUNK_BYTES_SIZE, PART_HEADER_BYTES, SPLIT_ARCHIVE_OVERHEAD_BYTES,
        MIN_SPLIT_PART_BYTES, chunk_budget, current, Steps, Endings

LEMMA SizeInit == Init => SizeInv
  BY MaxPartBytesAssumption, U32MaxAssumption
  DEF Init, SizeInv, TypeOK, BudgetInv, PartsBounded, Nothing, Piece
-----------------------------------------------------------------------------
(* What a write does to the part files.                                    *)

LEMMA GrowEffect ==
  ASSUME out \in Seq(PartRecord), out # <<>>,
         NEW n \in Nat, NEW e \in Endings, NEW t \in BOOLEAN, Grow(n, e, t)
  PROVE  /\ out' \in Seq(PartRecord) /\ Len(out') = Len(out)
         /\ \A i \in DOMAIN out : i # Len(out) => out'[i] = out[i]
         /\ out'[Len(out)].number = out[Len(out)].number
         /\ out'[Len(out)].size = out[Len(out)].size + n
         /\ out'[Len(out)].end = e /\ out'[Len(out)].torn = t
<1>1. Len(out) \in DOMAIN out /\ out[Len(out)] \in PartRecord
  OBVIOUS
<1>2. DEFINE r == [number |-> out[Len(out)].number, size |-> out[Len(out)].size + n,
                   end |-> e, torn |-> t]
<1>3. r \in PartRecord
  BY <1>1 DEF PartRecord
<1>4. out' = [out EXCEPT ![Len(out)] = r]
  BY DEF Grow
<1> HIDE DEF r
<1>5. /\ out' \in Seq(PartRecord) /\ Len(out') = Len(out)
      /\ \A i \in DOMAIN out : i # Len(out) => out'[i] = out[i]
      /\ out'[Len(out)] = r
  BY <1>1, <1>3, <1>4
<1> QED
  BY <1>5 DEF r

LEMMA AppendEffect ==
  ASSUME out \in Seq(PartRecord), NEW r \in PartRecord, out' = Append(out, r)
  PROVE  /\ out' \in Seq(PartRecord) /\ Len(out') = Len(out) + 1
         /\ \A i \in DOMAIN out : out'[i] = out[i]
         /\ out'[Len(out')] = r
  OBVIOUS

LEMMA PartTyped ==
  ASSUME NEW r \in PartRecord
  PROVE  r.number \in Nat /\ r.size \in Nat /\ r.end \in Endings /\ r.torn \in BOOLEAN
  BY DEF PartRecord

LEMMA PieceTyped ==
  ASSUME NEW c \in Piece
  PROVE  c.id \in Nat /\ c.off \in Nat /\ c.len \in Nat
  BY DEF Piece

LEMMA NewParts ==
  ASSUME NEW n \in Nat
  PROVE  EmptyPart(n) \in PartRecord /\ TornHeader(n) \in PartRecord
  BY DEF EmptyPart, TornHeader, PartRecord

\* When one part grows and stays within the bound, all do.
LEMMA BoundGrown ==
  ASSUME NEW s \in Seq(PartRecord), NEW t \in Seq(PartRecord), NEW m \in Nat,
         s # <<>>, Len(t) = Len(s), t[Len(s)].size <= m,
         \A i \in DOMAIN s : i # Len(s) => t[i] = s[i],
         \A i \in DOMAIN s : s[i].size <= m
  PROVE  \A i \in DOMAIN t : t[i].size <= m
  OBVIOUS
-----------------------------------------------------------------------------
(* The budget is respected.                                                *)

LEMMA SizeStep == SizeInv /\ [Next]_vars => SizeInv'
<1> SUFFICES ASSUME SizeInv, [Next]_vars PROVE SizeInv'
  OBVIOUS
<1> USE MaxPartBytesAssumption, InputsAssumption, U32MaxAssumption
<1>0. /\ TypeOK /\ BudgetInv /\ PartsBounded
      /\ max_part_bytes \in Nat /\ out \in Seq(PartRecord) /\ parts \in Nat
      /\ remaining \in Nat /\ pending.len \in Nat /\ pending.off \in Nat /\ pending.id \in Nat
  BY PieceTyped DEF SizeInv, TypeOK
<1>p. ASSUME out # <<>>
      PROVE  /\ out[Len(out)] \in PartRecord /\ out[Len(out)].size \in Nat
             /\ out[Len(out)].end \in Endings
  BY <1>0, <1>p, PartTyped
<1>f. ASSUME Fail, UNCHANGED out PROVE SizeInv'
  BY <1>0, <1>f DEF Fail, SizeInv, TypeOK, BudgetInv, PartsBounded
<1>g. ASSUME Fail, NEW n \in Nat, NEW e \in Endings, NEW t \in BOOLEAN, out # <<>>,
             Grow(n, e, t), out[Len(out)].size + n <= max_part_bytes
      PROVE  SizeInv'
  <2>1. /\ out' \in Seq(PartRecord) /\ Len(out') = Len(out)
        /\ \A i \in DOMAIN out : i # Len(out) => out'[i] = out[i]
        /\ out'[Len(out)].size = out[Len(out)].size + n
    BY <1>0, <1>g, GrowEffect
  <2>2. PartsBounded'
    <3>1. out'[Len(out)].size <= max_part_bytes /\ max_part_bytes' = max_part_bytes
      BY <1>g, <2>1 DEF Fail
    <3>2. \A i \in DOMAIN out : out[i].size <= max_part_bytes
      BY <1>0 DEF PartsBounded
    <3>3. out \in Seq(PartRecord) /\ max_part_bytes \in Nat
      BY <1>0
    <3>4. \A i \in DOMAIN out' : out'[i].size <= max_part_bytes
      BY <1>g, <2>1, <3>1, <3>2, <3>3, BoundGrown
    <3> QED
      BY <3>1, <3>4 DEF PartsBounded
  <2>3. TypeOK'
    BY <1>0, <1>g, <2>1 DEF Fail, TypeOK
  <2>4. BudgetInv'
    BY <1>g DEF Fail, BudgetInv
  <2> QED
    BY <2>2, <2>3, <2>4 DEF SizeInv
<1>h. ASSUME max_part_bytes >= MIN_SPLIT_PART_BYTES, NEW n \in Nat, OpenFails(n)
      PROVE  SizeInv'
  <2>1. CASE UNCHANGED out
    BY <1>f, <1>h, <2>1 DEF OpenFails
  <2>2. CASE Fail /\ out' = Append(out, TornHeader(n))
    <3>1. /\ out' \in Seq(PartRecord) /\ Len(out') = Len(out) + 1
          /\ \A i \in DOMAIN out : out'[i] = out[i]
          /\ out'[Len(out')] = TornHeader(n)
      BY <1>0, <2>2, NewParts, AppendEffect
    <3>2. PartsBounded'
      BY <1>0, <1>h, <2>2, <3>1 DEF PartsBounded, TornHeader, Fail
    <3> QED
      BY <1>0, <2>2, <3>1, <3>2 DEF Fail, SizeInv, TypeOK, BudgetInv
  <2> QED
    BY <1>h, <2>1, <2>2 DEF OpenFails
<1>1. CASE NewRejected
  BY <1>f, <1>1 DEF NewRejected
<1>2. CASE New
  <2>1. EmptyPart(0) \in PartRecord /\ out' = <<EmptyPart(0)>>
    BY <1>2, NewParts DEF New
  <2>2. TypeOK'
    BY <1>0, <1>2, <2>1 DEF New, TypeOK
  <2>3. BudgetInv' /\ PartsBounded'
    BY <1>0, <1>2, <2>1 DEF New, EmptyPart, BudgetInv, PartsBounded
  <2> QED
    BY <2>2, <2>3 DEF SizeInv
<1>3. ASSUME NEW c \in Inputs, PutChunk(c) PROVE SizeInv'
  <2>1. c.len \in Nat /\ accepted' \in Seq(Inputs) /\ pending' \in Piece
    BY <1>0, <1>3 DEF PutChunk, TypeOK, Piece
  <2>2. TypeOK' /\ PartsBounded'
    BY <1>0, <1>3, <2>1 DEF PutChunk, TypeOK, PartsBounded
  <2>3. BudgetInv'
    <3>1. /\ pc = "idle" /\ pc' \in {"value", "stream", "anxt", "failed"}
          /\ pending'.len = c.len
          /\ UNCHANGED <<max_part_bytes, remaining, parts, out>>
      BY <1>3 DEF PutChunk
    <3>2. pc' = "value" => c.len + MIN_CHUNK_BYTES_SIZE <= remaining
      BY <1>3 DEF PutChunk, BytesLen
    <3>3. pc' = "anxt" => c.len + MIN_CHUNK_BYTES_SIZE <= chunk_budget
      BY <1>0, <1>3, <2>1 DEF PutChunk, TooLarge, BytesLen
    <3> QED
      BY <1>0, <2>1, <3>1, <3>2, <3>3 DEF BytesLen, BudgetInv
  <2> QED
    BY <2>2, <2>3 DEF SizeInv
<1>w. ASSUME pc \in {"value", "stream"}, NEW n \in Nat, n <= pending.len,
             n + MIN_CHUNK_BYTES_SIZE <= remaining, WriteFragment(n)
      PROVE  /\ out' \in Seq(PartRecord) /\ Len(out') = Len(out)
             /\ \A i \in DOMAIN out : i # Len(out) => out'[i] = out[i]
             /\ out'[Len(out)].size = out[Len(out)].size + (n + MIN_CHUNK_BYTES_SIZE)
             /\ out'[Len(out)].end = out[Len(out)].end /\ ~out'[Len(out)].torn
             /\ written' \in Seq(Fragment) /\ pending' \in Piece
             /\ remaining' = remaining - (n + MIN_CHUNK_BYTES_SIZE) /\ pending'.len = pending.len - n
             /\ max_part_bytes' = max_part_bytes => PartsBounded'
  <2>1. out # <<>> /\ out[Len(out)] \in PartRecord /\ out[Len(out)].size \in Nat
        /\ out[Len(out)].size + remaining = PART_HEADER_BYTES + chunk_budget
    BY <1>0, <1>p, <1>w DEF BudgetInv
  <2>2. Grow(n + MIN_CHUNK_BYTES_SIZE, out[Len(out)].end, FALSE)
    BY <1>w DEF WriteFragment, GrowOpen
  <2>n. n + MIN_CHUNK_BYTES_SIZE \in Nat
    OBVIOUS
  <2>e. out[Len(out)].end \in Endings
    BY <1>p, <2>1
  <2>s. out \in Seq(PartRecord)
    BY <1>0
  <2>3. /\ out' \in Seq(PartRecord) /\ Len(out') = Len(out)
        /\ \A i \in DOMAIN out : i # Len(out) => out'[i] = out[i]
        /\ out'[Len(out)].size = out[Len(out)].size + (n + MIN_CHUNK_BYTES_SIZE)
        /\ out'[Len(out)].end = out[Len(out)].end /\ out'[Len(out)].torn = FALSE
    BY <2>1, <2>2, <2>n, <2>e, <2>s, GrowEffect
  <2>4. remaining' = remaining - (n + MIN_CHUNK_BYTES_SIZE) /\ pending' = Rest(n)
    BY <1>w DEF WriteFragment
  <2>5. pending' \in Piece /\ pending'.len = pending.len - n
    BY <1>0, <1>w, <2>4 DEF Rest, TypeOK, Piece
  <2>6. written' \in Seq(Fragment)
    BY <1>0, <1>w DEF WriteFragment, TypeOK, Fragment
  <2>7. max_part_bytes' = max_part_bytes => PartsBounded'
    <3>0. remaining \in Nat /\ max_part_bytes \in Nat /\ n + MIN_CHUNK_BYTES_SIZE <= remaining
      BY <1>0, <1>w
    <3>1. out'[Len(out)].size <= max_part_bytes
      BY <2>1, <2>3, <3>0
    <3>2. \A i \in DOMAIN out : out[i].size <= max_part_bytes
      BY <1>0 DEF PartsBounded
    <3>3. out \in Seq(PartRecord) /\ max_part_bytes \in Nat
      BY <1>0
    <3>4. \A i \in DOMAIN out' : out'[i].size <= max_part_bytes
      BY <2>1, <2>3, <3>1, <3>2, <3>3, BoundGrown
    <3> QED
      BY <3>4 DEF PartsBounded
  <2> QED
    BY <2>1, <2>3, <2>4, <2>5, <2>6, <2>7 DEF PartRecord
<1>4. CASE WriteValue
  <2>1. BytesLen(pending) <= remaining /\ pending.len \in Nat /\ pc \in {"value", "stream"}
    BY <1>0, <1>4 DEF WriteValue, BudgetInv
  <2>2. pending \in Piece /\ WriteFragment(pending.len)
    BY <1>0, <1>4 DEF WriteValue, TypeOK
  <2>3. /\ out' \in Seq(PartRecord) /\ Len(out') = Len(out)
        /\ out'[Len(out)].size = out[Len(out)].size + BytesLen(pending)
        /\ out'[Len(out)].end = out[Len(out)].end /\ ~out'[Len(out)].torn
        /\ written' \in Seq(Fragment) /\ pending' \in Piece
        /\ remaining' = remaining - (BytesLen(pending))
        /\ max_part_bytes' = max_part_bytes => PartsBounded'
    BY <1>w, <2>1, <2>2 DEF BytesLen, Piece
  <2>4. TypeOK' /\ PartsBounded'
    <3>1. remaining' \in Nat
      BY <1>0, <2>1, <2>3 DEF BytesLen
    <3>2. /\ UNCHANGED <<max_part_bytes, parts, accepted>> /\ pc' = "idle"
          /\ ret' = ret
      BY <1>4 DEF WriteValue
    <3> QED
      BY <1>0, <2>3, <3>1, <3>2 DEF TypeOK
  <2>5. BudgetInv'
    <3>1. /\ chunk_budget >= MIN_CHUNK_BYTES_SIZE /\ out # <<>> /\ parts = Len(out)
          /\ remaining <= chunk_budget /\ out[Len(out)].end = "open"
          /\ out[Len(out)].size + remaining = PART_HEADER_BYTES + chunk_budget
      BY <1>0, <2>1 DEF BudgetInv
    <3>0. /\ remaining \in Nat /\ max_part_bytes \in Nat
          /\ out[Len(out)].size \in Nat /\ BytesLen(pending) \in Nat
      <4>1. out[Len(out)].size \in Nat
        BY <1>p, <3>1
      <4> QED
        BY <1>0, <2>1, <4>1 DEF BytesLen
    <3>2. /\ remaining' <= chunk_budget
          /\ out'[Len(out)].size + remaining' = PART_HEADER_BYTES + chunk_budget
      BY <2>3, <3>0, <3>1
    <3>3. pc' = "idle" /\ UNCHANGED <<max_part_bytes, parts>>
      BY <1>4 DEF WriteValue
    <3> QED
      BY <2>3, <3>1, <3>2, <3>3 DEF BudgetInv
  <2> QED
    BY <2>4, <2>5 DEF SizeInv
<1>5. CASE CutStream
  <2>1. CutLen \in Nat /\ CutLen + MIN_CHUNK_BYTES_SIZE = remaining /\ CutLen < pending.len
    BY <1>0, <1>5 DEF CutStream, CanCut, CutLen, BytesLen
  <2>2. pending \in Piece /\ pc = "stream" /\ WriteFragment(CutLen)
    BY <1>0, <1>5 DEF CutStream, TypeOK
  <2>3. /\ out' \in Seq(PartRecord) /\ Len(out') = Len(out)
        /\ out'[Len(out)].size = out[Len(out)].size + remaining
        /\ out'[Len(out)].end = out[Len(out)].end /\ ~out'[Len(out)].torn
        /\ written' \in Seq(Fragment) /\ pending' \in Piece
        /\ remaining' = remaining - (remaining)
        /\ max_part_bytes' = max_part_bytes => PartsBounded'
    BY <1>w, <2>1, <2>2 DEF BytesLen, Piece
  <2>4. TypeOK' /\ PartsBounded'
    BY <1>0, <1>5, <2>1, <2>3 DEF CutStream, TypeOK, BytesLen
  <2>5. BudgetInv'
    BY <1>0, <1>p, <1>5, <2>1, <2>3 DEF CutStream, BudgetInv, BytesLen
  <2> QED
    BY <2>4, <2>5 DEF SizeInv
<1>6. CASE SkipPart
  BY <1>0, <1>6 DEF SkipPart, BytesLen, SizeInv, TypeOK, BudgetInv, PartsBounded
<1>7. CASE StreamRejected
  BY <1>f, <1>7 DEF StreamRejected
<1>8. CASE RollOverflow
  BY <1>f, <1>8 DEF RollOverflow
<1>m. ASSUME pc \in {"idle", "anxt", "aend"}, NEW e \in Endings, GrowMarker(e)
      PROVE  /\ out' \in Seq(PartRecord) /\ Len(out') = Len(out) /\ out # <<>>
             /\ \A i \in DOMAIN out : i # Len(out) => out'[i] = out[i]
             /\ out'[Len(out)].size = out[Len(out)].size + MIN_CHUNK_BYTES_SIZE
             /\ out'[Len(out)].end = e /\ ~out'[Len(out)].torn
             /\ out[Len(out)].size + MIN_CHUNK_BYTES_SIZE <= max_part_bytes
             /\ max_part_bytes' = max_part_bytes => PartsBounded'
  <2>1. out # <<>> /\ out[Len(out)] \in PartRecord
        /\ out[Len(out)].size + MIN_CHUNK_BYTES_SIZE <= max_part_bytes
    BY <1>0, <1>p, <1>m DEF BudgetInv
  <2>2. Grow(MIN_CHUNK_BYTES_SIZE, e, FALSE)
    BY <1>m DEF GrowMarker
  <2>3. /\ out' \in Seq(PartRecord) /\ Len(out') = Len(out)
        /\ \A i \in DOMAIN out : i # Len(out) => out'[i] = out[i]
        /\ out'[Len(out)].size = out[Len(out)].size + MIN_CHUNK_BYTES_SIZE
        /\ out'[Len(out)].end = e /\ out'[Len(out)].torn = FALSE
    BY <1>0, <2>1, <2>2, GrowEffect
  <2>4. max_part_bytes' = max_part_bytes => PartsBounded'
    <3>1. out'[Len(out)].size <= max_part_bytes
      BY <2>1, <2>3
    <3>2. \A i \in DOMAIN out : out[i].size <= max_part_bytes
      BY <1>0 DEF PartsBounded
    <3>3. out \in Seq(PartRecord) /\ max_part_bytes \in Nat
      BY <1>0
    <3>4. \A i \in DOMAIN out' : out'[i].size <= max_part_bytes
      BY <2>1, <2>3, <3>1, <3>2, <3>3, BoundGrown
    <3> QED
      BY <3>4 DEF PartsBounded
  <2> QED
    BY <2>1, <2>3, <2>4
<1>9. CASE RollAnxt
  <2>1. out[Len(out)] \in PartRecord /\ out[Len(out)].size \in Nat /\ GrowMarker("anxt")
    BY <1>0, <1>p, <1>9 DEF RollAnxt, BudgetInv
  <2>2. /\ out' \in Seq(PartRecord) /\ Len(out') = Len(out) /\ out # <<>>
        /\ out'[Len(out)].size = out[Len(out)].size + MIN_CHUNK_BYTES_SIZE
        /\ out'[Len(out)].end = "anxt" /\ ~out'[Len(out)].torn
        /\ PartsBounded'
    BY <1>9, <1>m, <2>1 DEF RollAnxt
  <2>3. TypeOK'
    BY <1>0, <1>9, <2>2 DEF RollAnxt, TypeOK
  <2>4. BudgetInv'
    <3>1. /\ pc = "anxt" /\ pc' = "aend" /\ ~CounterFull
          /\ UNCHANGED <<ret, max_part_bytes, remaining, parts, pending>>
      BY <1>9 DEF RollAnxt
    <3>2. /\ chunk_budget >= MIN_CHUNK_BYTES_SIZE /\ parts = Len(out)
          /\ remaining <= chunk_budget
          /\ out[Len(out)].size + remaining = PART_HEADER_BYTES + chunk_budget
          /\ ret = "value" => BytesLen(pending) <= chunk_budget
      BY <1>0, <3>1 DEF BudgetInv
    <3>3. out'[Len(out)].size + MIN_CHUNK_BYTES_SIZE <= max_part_bytes
      BY <1>0, <2>1, <2>2, <3>2
    <3>4. parts < U32Max
      BY <1>0, <3>1 DEF CounterFull, TypeOK
    <3> QED
      BY <2>2, <3>1, <3>2, <3>3, <3>4 DEF BytesLen, BudgetInv
  <2> QED
    BY <2>2, <2>3, <2>4 DEF SizeInv
<1>10. CASE RollAend
  <2>1. GrowMarker("next")
    BY <1>10 DEF RollAend
  <2>2. /\ out' \in Seq(PartRecord) /\ Len(out') = Len(out) /\ out # <<>>
        /\ out'[Len(out)].size = out[Len(out)].size + MIN_CHUNK_BYTES_SIZE
        /\ out'[Len(out)].end = "next" /\ ~out'[Len(out)].torn
        /\ PartsBounded'
    BY <1>10, <1>m, <2>1 DEF RollAend
  <2>3. TypeOK'
    BY <1>0, <1>10, <2>2 DEF RollAend, TypeOK
  <2>4. BudgetInv'
    BY <1>0, <1>10, <2>1, <2>2 DEF RollAend, CounterFull, BytesLen, TypeOK, BudgetInv
  <2> QED
    BY <2>2, <2>3, <2>4 DEF SizeInv
<1>11. CASE RollOpen
  <2>1. /\ out' \in Seq(PartRecord) /\ Len(out') = Len(out) + 1
        /\ \A i \in DOMAIN out : out'[i] = out[i]
        /\ out'[Len(out')] = EmptyPart(parts)
    BY <1>0, <1>11, NewParts, AppendEffect DEF RollOpen, NextNumber
  <2>2. PartsBounded'
    BY <1>0, <1>11, <2>1 DEF RollOpen, PartsBounded, BudgetInv, EmptyPart
  <2>3. TypeOK'
    BY <1>0, <1>11, <2>1 DEF RollOpen, TypeOK, BudgetInv
  <2>4. BudgetInv'
    BY <1>0, <1>11, <2>1, SMTT(30)
       DEF RollOpen, TypeOK, BudgetInv, EmptyPart, BytesLen
  <2> QED
    BY <2>2, <2>3, <2>4 DEF SizeInv
<1>12. CASE Finalize
  <2>1. GrowMarker("last")
    BY <1>12 DEF Finalize
  <2>2. /\ out' \in Seq(PartRecord) /\ Len(out') = Len(out) /\ out # <<>>
        /\ out'[Len(out)].size = out[Len(out)].size + MIN_CHUNK_BYTES_SIZE
        /\ out'[Len(out)].end = "last" /\ ~out'[Len(out)].torn
        /\ PartsBounded'
    BY <1>12, <1>m, <2>1 DEF Finalize
  <2>3. TypeOK'
    BY <1>0, <1>12, <2>2 DEF Finalize, TypeOK
  <2>4. BudgetInv'
    BY <1>0, <1>12, <2>1, <2>2 DEF Finalize, CounterFull, BytesLen, TypeOK, BudgetInv
  <2> QED
    BY <2>2, <2>3, <2>4 DEF SizeInv
<1>13. CASE NewFails
  BY <1>h, <1>13 DEF NewFails
<1>14. CASE RollOpenFails
  BY <1>0, <1>h, <1>14 DEF RollOpenFails, NextNumber, BudgetInv
<1>15. CASE WriteFails
  <2>1. out # <<>> /\ out[Len(out)] \in PartRecord /\ out[Len(out)].size \in Nat
        /\ out[Len(out)].end \in Endings
    BY <1>0, <1>p, <1>15 DEF WriteFails, BudgetInv
  <2>2. NextWriteBytes \in Nat /\ NextWriteBytes > 0
        /\ out[Len(out)].size + NextWriteBytes <= max_part_bytes
    <3>1. CASE pc \in {"value", "stream"}
      <4>1. /\ out[Len(out)].size + remaining <= max_part_bytes
            /\ remaining \in Nat /\ pending.len \in Nat /\ max_part_bytes \in Nat
        BY <1>0, <2>1, <3>1 DEF BudgetInv
      <4>2. BytesLen(pending) \in Nat /\ BytesLen(pending) > 0
        BY <4>1 DEF BytesLen
      <4>3. BytesLen(pending) <= remaining \/ remaining > 0
        BY <1>0, <1>15, <3>1, <4>1 DEF WriteFails, CanCut, BudgetInv
      <4>4. NextWriteBytes = IF BytesLen(pending) <= remaining
                             THEN BytesLen(pending) ELSE remaining
        BY <3>1 DEF NextWriteBytes
      <4> QED
        BY <2>1, <4>1, <4>2, <4>3, <4>4
    <3>2. CASE pc \in {"idle", "anxt", "aend"}
      <4>1. NextWriteBytes = MIN_CHUNK_BYTES_SIZE
        BY <3>2 DEF NextWriteBytes
      <4>2. CASE pc = "aend"
        BY <1>0, <4>1, <4>2 DEF BudgetInv
      <4>3. CASE pc \in {"idle", "anxt"}
        <5>1. out[Len(out)].size + remaining = PART_HEADER_BYTES + chunk_budget
          BY <1>0, <4>3 DEF BudgetInv
        <5> QED
          BY <1>0, <2>1, <4>1, <5>1
      <4> QED
        BY <3>2, <4>2, <4>3
    <3> QED
      BY <1>15, <3>1, <3>2 DEF WriteFails
  <2>3. PICK t \in {0, NextWriteBytes - 1} : Grow(t, out[Len(out)].end, t > 0)
    BY <1>15 DEF WriteFails
  <2>4. t \in Nat /\ (t > 0) \in BOOLEAN /\ out[Len(out)].end \in Endings
        /\ out[Len(out)].size + t <= max_part_bytes
    BY <2>1, <2>2, <2>3, <1>0
  <2> QED
    BY <1>g, <1>15, <2>1, <2>3, <2>4 DEF WriteFails
<1>16. CASE FlushFails
  <2>1. PICK e \in {"next", "last"} : GrowMarker(e)
    BY <1>16 DEF FlushFails
  <2>2. out # <<>> /\ out[Len(out)].size + MIN_CHUNK_BYTES_SIZE <= max_part_bytes
    BY <1>16, <1>m, <2>1 DEF FlushFails
  <2> QED
    BY <1>g, <1>16, <2>1, <2>2 DEF FlushFails, GrowMarker
<1>17. CASE UNCHANGED vars
  BY <1>0, <1>17 DEF vars, BytesLen, SizeInv, TypeOK, BudgetInv, PartsBounded
<1> QED
  BY <1>1, <1>2, <1>3, <1>4, <1>5, <1>6, <1>7, <1>8, <1>9, <1>10, <1>11,
     <1>12, <1>13, <1>14, <1>15, <1>16, <1>17 DEF Next, PutStep, Faults

\* The variables keep their types.
THEOREM TypeCorrect == Spec => []TypeOK
  BY SizeInit, SizeStep, PTL DEF Spec, SizeInv

\* No part outgrows max_part_bytes, whatever is written and wherever it fails.
THEOREM PartsStayBounded == Spec => []PartsBounded
  BY SizeInit, SizeStep, PTL DEF Spec, SizeInv
-----------------------------------------------------------------------------
(* The order of the fragments and the chain of the parts.                  *)

Busy == {"value", "stream", "anxt", "aend", "open"}
Rolling == {"anxt", "aend", "open"}
HasFragment(i) == \E k \in DOMAIN written : written[k].part = i

\* Fragments belong to chunks and parts that are there, and follow each other.
FragmentsInv ==
  /\ \A k \in DOMAIN written :
       written[k].id \in DOMAIN accepted /\ written[k].part \in DOMAIN out
  /\ written # <<>> => FirstFragment(written[1])
  /\ \A k \in 2..Len(written) : Follows(written[k - 1], written[k])
  /\ \A j, k \in DOMAIN written : j <= k => written[j].part <= written[k].part
  /\ OnlyStreamsCut

\* What is pending is the rest of the last chunk, and goes on where the last
\* fragment stops; between two calls nothing is.
PendingInv ==
  /\ pc \in {"idle", "done"} =>
       IF written = <<>> THEN accepted = <<>>
       ELSE written[Len(written)].id = Len(accepted) /\ EndsChunk(written[Len(written)])
  /\ pc \in Busy =>
       /\ accepted # <<>> /\ pending.id = Len(accepted)
       /\ pending.off + pending.len = accepted[Len(accepted)].len
       /\ Goes(pending)
       /\ pending.off > 0 => pending.len > 0
       /\ pc = "stream" \/ (pc \in Rolling /\ ret = "stream") \/ pending.off > 0
            => accepted[Len(accepted)].ty \in StreamTypes

\* A part is left only when it has a fragment: a budget that is not whole is
\* a sign of one, and one that is too small is not whole.
PartsInv ==
  /\ \A i \in DOMAIN out : out[i].number = i - 1
  /\ \A i \in 1..(Len(out) - 1) : out[i].end = "next" /\ ~out[i].torn
  /\ NoEmptyPart
  /\ pc \in {"idle", "value", "stream"} /\ remaining < chunk_budget => HasFragment(current)
  /\ pc = "anxt" => HasFragment(current)

OrderInv == FragmentsInv /\ PendingInv /\ PartsInv

SeqTypes == /\ out \in Seq(PartRecord) /\ written \in Seq(Fragment)
            /\ accepted \in Seq(Inputs)

LEMMA FragmentsKept ==
  ASSUME SeqTypes, out' \in Seq(PartRecord), Len(out) <= Len(out'), FragmentsInv,
         UNCHANGED <<written, accepted>>
  PROVE  FragmentsInv'
<1>1. DOMAIN out \subseteq DOMAIN out'
  BY DEF SeqTypes
<1> QED
  BY <1>1 DEF FragmentsInv, OnlyStreamsCut, FirstFragment, Follows, EndsChunk, IsStream

\* One more chunk leaves the fragments of the earlier ones as they are.
LEMMA FragmentsAccept ==
  ASSUME SeqTypes, FragmentsInv, NEW c \in Inputs, accepted' = Append(accepted, c),
         UNCHANGED <<written, out>>
  PROVE  FragmentsInv'
<1>1. /\ DOMAIN accepted \subseteq DOMAIN accepted'
      /\ \A i \in DOMAIN accepted : accepted'[i] = accepted[i]
  BY DEF SeqTypes
<1>2. \A k \in DOMAIN written : written[k].id \in DOMAIN accepted
  BY DEF FragmentsInv
<1>3. \A k \in 2..Len(written) : k - 1 \in DOMAIN written /\ k \in DOMAIN written
  BY DEF SeqTypes
<1>4. \A k \in DOMAIN written : EndsChunk(written[k])' = EndsChunk(written[k])
  BY <1>1, <1>2 DEF EndsChunk
<1>5. \A k \in 2..Len(written') : Follows(written[k - 1], written[k])'
  BY <1>3, <1>4 DEF Follows, FragmentsInv
<1>6. OnlyStreamsCut'
  BY <1>1, <1>2 DEF OnlyStreamsCut, IsStream, FragmentsInv
<1> QED
  BY <1>1, <1>2, <1>5, <1>6 DEF FragmentsInv, FirstFragment

\* A fragment that goes on where the last one stops, into the current part.
LEMMA FragmentsGrow ==
  ASSUME SeqTypes, FragmentsInv, UNCHANGED accepted,
         out' \in Seq(PartRecord), Len(out') = Len(out), Len(out) > 0,
         NEW g \in Fragment, written' = Append(written, g), Goes(g),
         g.id \in DOMAIN accepted, g.part = Len(out),
         g.len < accepted[g.id].len => IsStream(g) /\ g.len > 0
  PROVE  FragmentsInv'
<1>1. /\ written' \in Seq(Fragment) /\ Len(written') = Len(written) + 1
      /\ \A k \in DOMAIN written : written'[k] = written[k]
      /\ written'[Len(written) + 1] = g
      /\ DOMAIN written' = DOMAIN written \cup {Len(written) + 1}
      /\ DOMAIN written = 1..Len(written) /\ Len(written) \in Nat
  BY DEF SeqTypes
<1>2. DOMAIN out' = DOMAIN out /\ Len(out) \in DOMAIN out
  BY DEF SeqTypes
<1>3. \A k \in DOMAIN written' :
        written'[k].id \in DOMAIN accepted /\ written'[k].part \in DOMAIN out'
  BY <1>1, <1>2 DEF FragmentsInv
<1>4. FirstFragment(written'[1])
  <2>1. CASE written = <<>>
    BY <1>1, <2>1 DEF Goes
  <2>2. CASE written # <<>>
    <3>1. 1 \in DOMAIN written /\ written'[1] = written[1]
      BY <1>1, <2>2 DEF SeqTypes
    <3> QED
      BY <2>2, <3>1 DEF FragmentsInv
  <2> QED
    BY <2>1, <2>2
<1>5. ASSUME NEW k \in 2..Len(written') PROVE Follows(written'[k - 1], written'[k])
  <2>1. CASE k = Len(written) + 1
    <3>1. written # <<>> /\ k - 1 = Len(written) /\ Len(written) \in DOMAIN written
      BY <1>1, <1>5, <2>1
    <3>2. written'[k - 1] = written[Len(written)] /\ written'[k] = g
      BY <1>1, <2>1, <3>1
    <3> QED
      BY <3>1, <3>2 DEF Goes
  <2>2. CASE k # Len(written) + 1
    <3>1. k \in 2..Len(written) /\ k - 1 \in DOMAIN written /\ k \in DOMAIN written
      BY <1>1, <1>5, <2>2
    <3> QED
      BY <1>1, <3>1 DEF FragmentsInv
  <2> QED
    BY <2>1, <2>2
<1>6. \A k \in DOMAIN written : written[k].part \in Nat /\ written[k].part <= Len(out)
  BY <1>2 DEF FragmentsInv, SeqTypes
<1>7. ASSUME NEW j \in DOMAIN written', NEW k \in DOMAIN written', j <= k
      PROVE  written'[j].part <= written'[k].part
  <2>1. CASE k \in DOMAIN written
    <3>1. j \in DOMAIN written
      BY <1>1, <1>7, <2>1
    <3> QED
      BY <1>1, <1>7, <2>1, <3>1 DEF FragmentsInv
  <2>2. CASE k = Len(written) + 1
    BY <1>1, <1>6, <1>7, <2>2 DEF SeqTypes
  <2> QED
    BY <1>1, <2>1, <2>2
<1>8. ASSUME NEW k \in DOMAIN written', written'[k].len < accepted[written'[k].id].len
      PROVE  IsStream(written'[k]) /\ written'[k].len > 0
  <2>1. CASE k \in DOMAIN written
    BY <1>1, <1>8, <2>1 DEF FragmentsInv, OnlyStreamsCut
  <2>2. CASE k = Len(written) + 1
    BY <1>1, <1>8, <2>2
  <2> QED
    BY <1>1, <2>1, <2>2
<1>9. \A k \in 2..Len(written') : Follows(written[k - 1], written[k])'
  BY <1>5 DEF Follows, EndsChunk
<1>10. OnlyStreamsCut'
  BY <1>8 DEF OnlyStreamsCut, IsStream
<1> QED
  BY <1>3, <1>4, <1>7, <1>9, <1>10 DEF FragmentsInv, FirstFragment

\* The current part grows: it has a fragment by the time it gets its marker.
LEMMA PartsGrow ==
  ASSUME SeqTypes, out # <<>>, NEW n \in Nat, NEW e \in Endings, NEW t \in BOOLEAN,
         Grow(n, e, t), PartsInv, DOMAIN written \subseteq DOMAIN written',
         \A k \in DOMAIN written : written'[k] = written[k],
         e \in {"anxt", "next"} => HasFragment(current)'
  PROVE  /\ \A i \in DOMAIN out' : out'[i].number = i - 1
         /\ \A i \in 1..(Len(out') - 1) : out'[i].end = "next" /\ ~out'[i].torn
         /\ NoEmptyPart'
<1>1. /\ out' \in Seq(PartRecord) /\ Len(out') = Len(out)
      /\ \A i \in DOMAIN out : i # Len(out) => out'[i] = out[i]
      /\ out'[Len(out)].number = out[Len(out)].number
      /\ out'[Len(out)].end = e
  BY GrowEffect DEF SeqTypes
<1>2. DOMAIN out = 1..Len(out) /\ DOMAIN out' = DOMAIN out /\ Len(out) \in Nat
  BY <1>1 DEF SeqTypes
<1>3. \A i \in DOMAIN out' : out'[i].number = i - 1
  BY <1>1, <1>2 DEF PartsInv
<1>4. \A i \in 1..(Len(out') - 1) : out'[i].end = "next" /\ ~out'[i].torn
  BY <1>1, <1>2 DEF PartsInv
<1>5. NoEmptyPart'
  <2> SUFFICES ASSUME NEW i \in DOMAIN out', out'[i].end \in {"anxt", "next"}
               PROVE  \E k \in DOMAIN written' : written'[k].part = i
    BY DEF NoEmptyPart
  <2>1. CASE i = Len(out)
    BY <1>1, <2>1 DEF HasFragment
  <2>2. CASE i # Len(out)
    BY <1>1, <1>2, <2>2 DEF PartsInv, NoEmptyPart
  <2> QED
    BY <2>1, <2>2
<1> QED
  BY <1>3, <1>4, <1>5

\* A new part comes behind one that is closed.
LEMMA PartsAppend ==
  ASSUME SeqTypes, PartsInv, UNCHANGED written, NEW r \in PartRecord,
         out' = Append(out, r), r.number = Len(out), r.end = "open",
         out # <<>> => out[Len(out)].end = "next" /\ ~out[Len(out)].torn
  PROVE  /\ \A i \in DOMAIN out' : out'[i].number = i - 1
         /\ \A i \in 1..(Len(out') - 1) : out'[i].end = "next" /\ ~out'[i].torn
         /\ NoEmptyPart'
<1>1. /\ out' \in Seq(PartRecord) /\ Len(out') = Len(out) + 1
      /\ \A i \in DOMAIN out : out'[i] = out[i]
      /\ out'[Len(out) + 1] = r
      /\ DOMAIN out = 1..Len(out) /\ DOMAIN out' = 1..(Len(out) + 1) /\ Len(out) \in Nat
  BY DEF SeqTypes
<1>2. \A i \in DOMAIN out' : out'[i].number = i - 1
  BY <1>1 DEF PartsInv
<1>3. \A i \in 1..(Len(out') - 1) : out'[i].end = "next" /\ ~out'[i].torn
  BY <1>1 DEF PartsInv
<1>4. NoEmptyPart'
  BY <1>1 DEF PartsInv, NoEmptyPart
<1> QED
  BY <1>2, <1>3, <1>4

LEMMA OrderInit == Init => OrderInv
  BY DEF Init, OrderInv, FragmentsInv, PendingInv, PartsInv, NoEmptyPart, OnlyStreamsCut,
         Busy, Rolling

LEMMA OrderStep == SizeInv /\ OrderInv /\ [Next]_vars => OrderInv'
<1> SUFFICES ASSUME SizeInv, OrderInv, [Next]_vars PROVE OrderInv'
  OBVIOUS
<1> USE MaxPartBytesAssumption, InputsAssumption, U32MaxAssumption DEF Busy, Rolling
<1>0. /\ TypeOK /\ BudgetInv /\ SeqTypes
      /\ FragmentsInv /\ PendingInv /\ PartsInv
      /\ max_part_bytes \in Nat /\ remaining \in Nat /\ pending \in Piece
      /\ pending.len \in Nat /\ pending.off \in Nat /\ pending.id \in Nat
  BY PieceTyped DEF SizeInv, TypeOK, OrderInv, SeqTypes
<1>t. /\ out' \in Seq(PartRecord) /\ written' \in Seq(Fragment) /\ accepted' \in Seq(Inputs)
  BY SizeStep DEF SizeInv, TypeOK
<1>u. ASSUME UNCHANGED <<written, accepted>>, Len(out) <= Len(out') PROVE FragmentsInv'
  BY <1>0, <1>t, <1>u, FragmentsKept
<1>l. ASSUME out # <<>>, NEW n \in Nat, NEW e \in Endings, NEW t \in BOOLEAN, Grow(n, e, t)
      PROVE  Len(out') = Len(out)
  BY <1>0, <1>l, GrowEffect DEF SeqTypes
<1>h. ASSUME UNCHANGED <<written, out>> PROVE \A i : HasFragment(i)' = HasFragment(i)
  BY <1>h DEF HasFragment
<1>f. ASSUME Fail, UNCHANGED out PROVE OrderInv'
  <2>1. FragmentsInv'
    BY <1>0, <1>f, <1>u DEF Fail, SeqTypes
  <2>2. PendingInv' /\ PartsInv'
    BY <1>0, <1>f DEF Fail, PendingInv, PartsInv, NoEmptyPart
  <2> QED
    BY <2>1, <2>2 DEF OrderInv
<1>g. ASSUME Fail, out # <<>>, NEW n \in Nat, NEW e \in Endings, NEW t \in BOOLEAN,
             Grow(n, e, t), e \in {"anxt", "next"} => HasFragment(Len(out))
      PROVE  OrderInv'
  <2>1. UNCHANGED <<written, accepted>> /\ Len(out') = Len(out) /\ pc' = "failed"
    BY <1>g, <1>l DEF Fail
  <2>2. FragmentsInv'
    BY <1>0, <2>1, <1>u DEF SeqTypes
  <2>3. PartsInv'
    <3>1. e \in {"anxt", "next"} => HasFragment(current)'
      BY <1>g, <2>1 DEF HasFragment
    <3> QED
      BY <1>0, <1>g, <2>1, <3>1, PartsGrow DEF PartsInv
  <2>4. PendingInv'
    BY <2>1 DEF PendingInv
  <2> QED
    BY <2>2, <2>3, <2>4 DEF OrderInv
<1>a. ASSUME Fail, NEW r \in PartRecord, out' = Append(out, r), r.number = Len(out),
             r.end = "open", out # <<>> => out[Len(out)].end = "next" /\ ~out[Len(out)].torn
      PROVE  OrderInv'
  <2>1. UNCHANGED <<written, accepted>> /\ Len(out') = Len(out) + 1 /\ pc' = "failed"
    BY <1>0, <1>a DEF Fail, SeqTypes
  <2>2. FragmentsInv'
    BY <1>0, <2>1, <1>u DEF SeqTypes
  <2>3. PartsInv' /\ PendingInv'
    BY <1>0, <1>a, <2>1, PartsAppend DEF PartsInv, PendingInv
  <2> QED
    BY <2>2, <2>3 DEF OrderInv
<1>1. CASE NewRejected
  BY <1>f, <1>1 DEF NewRejected
<1>2. CASE New
  <2>1. /\ out = <<>> /\ written = <<>> /\ accepted = <<>>
        /\ out' = <<EmptyPart(0)>> /\ pc' = "idle" /\ UNCHANGED <<written, accepted, max_part_bytes>>
        /\ remaining' = chunk_budget
    BY <1>0, <1>2 DEF New, BudgetInv
  <2>2. FragmentsInv' /\ PendingInv'
    BY <2>1 DEF FragmentsInv, PendingInv, OnlyStreamsCut
  <2>3. PartsInv'
    BY <1>0, <2>1 DEF PartsInv, NoEmptyPart, EmptyPart
  <2> QED
    BY <2>2, <2>3 DEF OrderInv
<1>3. ASSUME NEW c \in Inputs, PutChunk(c) PROVE OrderInv'
  <2>1. /\ pc = "idle" /\ accepted' = Append(accepted, c)
        /\ pending' = [id |-> Len(accepted) + 1, off |-> 0, len |-> c.len]
        /\ pc' \in {"value", "stream", "anxt", "failed"}
        /\ pc' = "stream" => c.ty \in StreamTypes
        /\ pc' = "anxt" => ret' = "value"
        /\ UNCHANGED <<max_part_bytes, remaining, parts, out, written>>
    BY <1>3 DEF PutChunk
  <2>2. /\ Len(accepted') = Len(accepted) + 1 /\ accepted' # <<>>
        /\ accepted'[Len(accepted')] = c /\ c.len \in Nat
        /\ \A i \in DOMAIN accepted : accepted'[i] = accepted[i]
        /\ Len(accepted) \in Nat
    <3>1. c.len \in Nat
      BY <1>3
    <3>2. accepted \in Seq(Inputs) /\ accepted' = Append(accepted, c)
      BY <1>0, <2>1 DEF SeqTypes
    <3> QED
      BY <3>1, <3>2
  <2>3. FragmentsInv'
    BY <1>0, <2>1, FragmentsAccept
  <2>4. Goes(pending)'
    <3>1. CASE written = <<>>
      <4>1. accepted = <<>>
        BY <1>0, <2>1, <3>1 DEF PendingInv
      <4> QED
        BY <2>1, <2>2, <3>1, <4>1 DEF Goes, FirstFragment
    <3>2. CASE written # <<>>
      <4>1. /\ written[Len(written)].id = Len(accepted) /\ EndsChunk(written[Len(written)])
            /\ Len(written) \in DOMAIN written
        BY <1>0, <2>1, <3>2 DEF PendingInv, SeqTypes
      <4>2. written[Len(written)].id \in DOMAIN accepted
        BY <1>0, <4>1 DEF FragmentsInv
      <4>3. EndsChunk(written[Len(written)])'
        BY <2>1, <2>2, <4>1, <4>2 DEF EndsChunk
      <4> QED
        BY <2>1, <3>2, <4>1, <4>3 DEF Goes, Follows
    <3> QED
      BY <3>1, <3>2
  <2>5. PendingInv'
    BY <2>1, <2>2, <2>4 DEF PendingInv, Goes
  <2>6. PartsInv'
    <3>1. pc' = "anxt" => c.len + 12 > remaining /\ c.len + 12 <= chunk_budget
      BY <1>0, <1>3, <2>2 DEF PutChunk, BytesLen, TooLarge
    <3>2. pc' = "anxt" => HasFragment(current)
      BY <1>0, <2>1, <2>2, <3>1 DEF PartsInv
    <3> QED
      BY <1>0, <2>1, <3>2, <1>h DEF PartsInv, NoEmptyPart
  <2> QED
    BY <2>3, <2>5, <2>6 DEF OrderInv
<1>w. ASSUME pc \in {"value", "stream"}, NEW n \in Nat, n <= pending.len, WriteFragment(n),
             n < pending.len => n > 0 /\ pc = "stream", UNCHANGED <<max_part_bytes, accepted>>
      PROVE  /\ FragmentsInv'
             /\ \A i \in DOMAIN out' : out'[i].number = i - 1
             /\ \A i \in 1..(Len(out') - 1) : out'[i].end = "next" /\ ~out'[i].torn
             /\ NoEmptyPart' /\ HasFragment(current)'
             /\ written' # <<>> /\ Len(out') = Len(out)
             /\ written'[Len(written')] =
                  [part |-> Len(out), id |-> pending.id, off |-> pending.off, len |-> n]
  <2> DEFINE g == [part |-> Len(out), id |-> pending.id, off |-> pending.off, len |-> n]
  <2>1. /\ out # <<>> /\ out[Len(out)].end = "open" /\ Len(out) \in Nat
        /\ written' = Append(written, g)
        /\ Grow(n + MIN_CHUNK_BYTES_SIZE, "open", FALSE)
    <3>1. out # <<>> /\ out[Len(out)].end = "open"
      BY <1>0, <1>w DEF BudgetInv
    <3>2. Len(out) \in Nat
      BY <1>0 DEF SeqTypes
    <3> QED
      BY <1>w, <3>1, <3>2 DEF WriteFragment, GrowOpen
  <2>2. n + MIN_CHUNK_BYTES_SIZE \in Nat /\ Len(out') = Len(out) /\ "open" \in Endings
    <3>1. n + MIN_CHUNK_BYTES_SIZE \in Nat /\ "open" \in Endings /\ FALSE \in BOOLEAN
      BY <1>w
    <3> QED
      BY <2>1, <3>1, <1>l
  <2>3. g \in Fragment
    BY <1>0, <2>1 DEF Fragment
  <2>4. /\ pending.id = Len(accepted) /\ accepted # <<>> /\ Len(accepted) \in DOMAIN accepted
        /\ pending.off + pending.len = accepted[Len(accepted)].len
    BY <1>0, <1>w DEF PendingInv, SeqTypes
  <2>5. Goes(g)
    BY <1>0, <1>w DEF PendingInv, Goes, Follows, FirstFragment
  <2>6. g.len < accepted[g.id].len => IsStream(g) /\ g.len > 0
    <3>1. CASE n < pending.len
      BY <1>0, <1>w, <2>4, <3>1 DEF PendingInv, IsStream
    <3>2. CASE n = pending.len
      BY <1>0, <1>w, <2>4, <3>2 DEF PendingInv, IsStream
    <3> QED
      BY <1>0, <1>w, <3>1, <3>2
  <2>7. FragmentsInv'
    <3>1. Len(out) > 0 /\ UNCHANGED accepted /\ g.part = Len(out) /\ g.id \in DOMAIN accepted
      BY <1>0, <1>w, <2>1, <2>4 DEF SeqTypes
    <3> QED
      BY <1>0, <1>t, <2>1, <2>2, <2>3, <2>5, <2>6, <3>1, FragmentsGrow
  <2>8. /\ written' # <<>> /\ Len(written') = Len(written) + 1 /\ Len(written) \in Nat
        /\ written'[Len(written')] = g /\ Len(written') \in DOMAIN written'
        /\ DOMAIN written \subseteq DOMAIN written'
        /\ \A k \in DOMAIN written : written'[k] = written[k]
    BY <1>0, <2>1, <2>3 DEF SeqTypes
  <2>9. HasFragment(current)'
    BY <2>2, <2>8 DEF HasFragment
  <2> HIDE DEF g
  <2>10. /\ \A i \in DOMAIN out' : out'[i].number = i - 1
         /\ \A i \in 1..(Len(out') - 1) : out'[i].end = "next" /\ ~out'[i].torn
         /\ NoEmptyPart'
    BY <1>0, <2>1, <2>2, <2>8, PartsGrow
  <2> QED
    BY <2>2, <2>7, <2>8, <2>9, <2>10 DEF g
<1>4. CASE WriteValue
  <2>1. /\ pc \in {"value", "stream"} /\ WriteFragment(pending.len) /\ pc' = "idle"
        /\ UNCHANGED <<max_part_bytes, accepted>>
    BY <1>4 DEF WriteValue
  <2>2. /\ FragmentsInv'
        /\ \A i \in DOMAIN out' : out'[i].number = i - 1
        /\ \A i \in 1..(Len(out') - 1) : out'[i].end = "next" /\ ~out'[i].torn
        /\ NoEmptyPart' /\ HasFragment(current)' /\ written' # <<>>
        /\ written'[Len(written')] =
             [part |-> Len(out), id |-> pending.id, off |-> pending.off, len |-> pending.len]
    BY <1>0, <1>w, <2>1
  <2>3. PendingInv'
    <3>1. pending.id = Len(accepted) /\ pending.off + pending.len = accepted[Len(accepted)].len
      BY <1>0, <2>1 DEF PendingInv
    <3> QED
      BY <2>1, <2>2, <3>1 DEF PendingInv, EndsChunk
  <2>4. PartsInv'
    BY <2>1, <2>2 DEF PartsInv
  <2> QED
    BY <2>2, <2>3, <2>4 DEF OrderInv
<1>5. CASE CutStream
  <2>1. /\ pc = "stream" /\ WriteFragment(CutLen) /\ pc' = "anxt" /\ ret' = "stream"
        /\ UNCHANGED <<max_part_bytes, accepted>> /\ pending' = Rest(CutLen)
        /\ CutLen \in Nat /\ CutLen > 0 /\ CutLen < pending.len
    BY <1>0, <1>5 DEF CutStream, CanCut, CutLen, BytesLen, WriteFragment
  <2>2. /\ FragmentsInv'
        /\ \A i \in DOMAIN out' : out'[i].number = i - 1
        /\ \A i \in 1..(Len(out') - 1) : out'[i].end = "next" /\ ~out'[i].torn
        /\ NoEmptyPart' /\ HasFragment(current)' /\ written' # <<>>
        /\ written'[Len(written')] =
             [part |-> Len(out), id |-> pending.id, off |-> pending.off, len |-> CutLen]
    BY <1>0, <1>w, <2>1
  <2>3. /\ accepted # <<>> /\ pending.id = Len(accepted) 
        /\ pending.off + pending.len = accepted[Len(accepted)].len
        /\ accepted[Len(accepted)].ty \in StreamTypes
    BY <1>0, <2>1 DEF PendingInv
  <2>4. /\ pending'.id = pending.id /\ pending'.off = pending.off + CutLen
        /\ pending'.len = pending.len - CutLen
    BY <2>1 DEF Rest
  <2>5. Goes(pending)'
    BY <1>0, <2>1, <2>2, <2>3, <2>4 DEF Goes, Follows, EndsChunk
  <2>6. PendingInv'
    BY <1>0, <2>1, <2>3, <2>4, <2>5 DEF PendingInv
  <2>7. PartsInv'
    BY <2>1, <2>2 DEF PartsInv
  <2> QED
    BY <2>2, <2>6, <2>7 DEF OrderInv
<1>6. CASE SkipPart
  <2>1. /\ pc = "stream" /\ pc' = "anxt" /\ ret' = "stream" /\ remaining < chunk_budget
        /\ UNCHANGED <<max_part_bytes, remaining, parts, out, written, pending, accepted>>
    BY <1>0, <1>6 DEF SkipPart, CanCut
  <2>2. FragmentsInv'
    BY <1>0, <2>1, <1>u DEF SeqTypes
  <2>3. PendingInv'
    BY <1>0, <2>1 DEF PendingInv, Goes, Follows, EndsChunk
  <2>4. PartsInv'
    BY <1>0, <2>1, <1>h DEF PartsInv, NoEmptyPart
  <2> QED
    BY <2>2, <2>3, <2>4 DEF OrderInv
<1>7. CASE StreamRejected
  BY <1>f, <1>7 DEF StreamRejected
<1>8. CASE RollOverflow
  BY <1>f, <1>8 DEF RollOverflow
<1>m. ASSUME NEW e \in Endings, GrowMarker(e), pc \in {"idle", "anxt", "aend"},
             e = "anxt" => pc = "anxt", e = "next" => pc = "aend",
             UNCHANGED <<written, accepted>>
      PROVE  /\ out # <<>> /\ FragmentsInv' /\ Grow(MIN_CHUNK_BYTES_SIZE, e, FALSE)
             /\ e \in {"anxt", "next"} => HasFragment(Len(out))
             /\ \A i \in DOMAIN out' : out'[i].number = i - 1
             /\ \A i \in 1..(Len(out') - 1) : out'[i].end = "next" /\ ~out'[i].torn
             /\ NoEmptyPart'
  <2>1. out # <<>> /\ Grow(MIN_CHUNK_BYTES_SIZE, e, FALSE) /\ MIN_CHUNK_BYTES_SIZE \in Nat
    BY <1>0, <1>m DEF BudgetInv, GrowMarker
  <2>2. Len(out') = Len(out) /\ Len(out) \in DOMAIN out
    <3>1. Len(out) \in DOMAIN out /\ FALSE \in BOOLEAN
      BY <1>0, <2>1 DEF SeqTypes
    <3> QED
      BY <1>l, <1>m, <2>1, <3>1
  <2>3. e \in {"anxt", "next"} => HasFragment(Len(out))
    <3>1. pc = "aend" => out[Len(out)].end = "anxt"
      BY <1>0 DEF BudgetInv
    <3> QED
      BY <1>0, <1>m, <2>2, <3>1 DEF PartsInv, NoEmptyPart, HasFragment
  <2>4. FragmentsInv'
    BY <1>0, <1>m, <2>2, <1>u DEF SeqTypes
  <2>5. e \in {"anxt", "next"} => HasFragment(current)'
    BY <1>m, <2>2, <2>3 DEF HasFragment
  <2>6. DOMAIN written \subseteq DOMAIN written' /\ \A k \in DOMAIN written : written'[k] = written[k]
    BY <1>m
  <2> QED
    BY <1>0, <2>1, <2>3, <2>4, <2>5, <2>6, PartsGrow
<1>k. ASSUME UNCHANGED <<written, accepted, pending, ret>>, pc \in Busy, pc' \in Busy,
             pc' = "stream" => pc = "stream" \/ (ret = "stream" /\ pc \in Rolling),
             pc' \in Rolling => pc \in Rolling
      PROVE  PendingInv'
  BY <1>0, <1>k DEF PendingInv, Goes, Follows, EndsChunk
<1>9. CASE RollAnxt
  <2>1. /\ pc = "anxt" /\ pc' = "aend" /\ GrowMarker("anxt")
        /\ UNCHANGED <<ret, written, pending, accepted>>
    BY <1>9 DEF RollAnxt
  <2>2. FragmentsInv' /\ PartsInv'
    BY <2>1, <1>m DEF PartsInv
  <2> QED
    BY <2>1, <2>2, <1>k DEF OrderInv
<1>10. CASE RollAend
  <2>1. /\ pc = "aend" /\ pc' = "open" /\ GrowMarker("next")
        /\ UNCHANGED <<ret, written, pending, accepted>>
    BY <1>10 DEF RollAend
  <2>2. FragmentsInv' /\ PartsInv'
    BY <2>1, <1>m DEF PartsInv
  <2> QED
    BY <2>1, <2>2, <1>k DEF OrderInv
<1>11. CASE RollOpen
  <2>1. /\ pc = "open" /\ pc' = ret /\ ret \in {"value", "stream"}
        /\ out' = Append(out, EmptyPart(parts)) /\ remaining' = chunk_budget
        /\ UNCHANGED <<ret, max_part_bytes, written, pending, accepted>>
    BY <1>0, <1>11 DEF RollOpen, NextNumber, TypeOK
  <2>2. /\ parts = Len(out) /\ out[Len(out)].end = "next" /\ ~out[Len(out)].torn
        /\ parts \in Nat
    BY <1>0, <2>1 DEF BudgetInv, SeqTypes
  <2>3. EmptyPart(parts) \in PartRecord /\ EmptyPart(parts).number = Len(out)
        /\ EmptyPart(parts).end = "open"
    BY <2>2, NewParts DEF EmptyPart
  <2>4. /\ \A i \in DOMAIN out' : out'[i].number = i - 1
        /\ \A i \in 1..(Len(out') - 1) : out'[i].end = "next" /\ ~out'[i].torn
        /\ NoEmptyPart'
    BY <1>0, <2>1, <2>2, <2>3, PartsAppend
  <2>5. FragmentsInv'
    BY <1>0, <2>1, <2>3, <1>u DEF SeqTypes
  <2>6. PartsInv'
    <3>1. remaining' = chunk_budget'
      BY <2>1
    <3>2. chunk_budget' \in Int
      BY <1>0, <2>1
    <3> QED
      BY <2>1, <2>4, <3>1, <3>2 DEF PartsInv
  <2> QED
    BY <2>1, <2>5, <2>6, <1>k DEF OrderInv
<1>12. CASE Finalize
  <2>1. /\ pc = "idle" /\ pc' = "done" /\ GrowMarker("last")
        /\ UNCHANGED <<ret, written, pending, accepted>>
    BY <1>12 DEF Finalize
  <2>2. FragmentsInv' /\ PartsInv'
    BY <2>1, <1>m DEF PartsInv
  <2>3. PendingInv'
    BY <1>0, <2>1 DEF PendingInv, EndsChunk
  <2> QED
    BY <2>2, <2>3 DEF OrderInv
<1>13. CASE NewFails
  <2>1. out = <<>> /\ OpenFails(0)
    BY <1>0, <1>13 DEF NewFails, BudgetInv
  <2>2. TornHeader(0) \in PartRecord /\ TornHeader(0).number = Len(out) /\ TornHeader(0).end = "open"
    BY <2>1, NewParts DEF TornHeader
  <2> QED
    BY <2>1, <2>2, <1>a, <1>f DEF OpenFails
<1>14. CASE RollOpenFails
  <2>1. /\ OpenFails(parts) /\ parts = Len(out) /\ parts \in Nat
        /\ out[Len(out)].end = "next" /\ ~out[Len(out)].torn
    BY <1>0, <1>14 DEF RollOpenFails, NextNumber, BudgetInv, SeqTypes
  <2>2. TornHeader(parts) \in PartRecord /\ TornHeader(parts).number = Len(out)
        /\ TornHeader(parts).end = "open"
    BY <2>1, NewParts DEF TornHeader
  <2> QED
    BY <2>1, <2>2, <1>a, <1>f DEF OpenFails
<1>15. CASE WriteFails
  <2>1. out # <<>> /\ out[Len(out)] \in PartRecord /\ out[Len(out)].end \in Endings
        /\ Len(out) \in DOMAIN out
    BY <1>0, <1>15, PartTyped DEF WriteFails, BudgetInv, SeqTypes
  <2>2. NextWriteBytes - 1 \in Nat
    <3>1. CASE pc \in {"value", "stream"}
      <4>1. BytesLen(pending) <= remaining \/ remaining > 0
        BY <1>0, <1>15, <3>1 DEF WriteFails, CanCut, BudgetInv
      <4> QED
        BY <1>0, <3>1, <4>1 DEF NextWriteBytes, BytesLen
    <3>2. CASE pc \notin {"value", "stream"}
      BY <3>2 DEF NextWriteBytes
    <3> QED
      BY <3>1, <3>2
  <2>3. PICK t \in {0, NextWriteBytes - 1} : Grow(t, out[Len(out)].end, t > 0)
    BY <1>15 DEF WriteFails
  <2>4. out[Len(out)].end \in {"anxt", "next"} => HasFragment(Len(out))
    BY <1>0, <2>1 DEF PartsInv, NoEmptyPart, HasFragment
  <2>5. t \in Nat /\ (t > 0) \in BOOLEAN /\ Fail
    BY <1>15, <2>2, <2>3 DEF WriteFails
  <2> QED
    BY <2>1, <2>3, <2>4, <2>5, <1>g
<1>16. CASE FlushFails
  <2>1. PICK e \in {"next", "last"} : GrowMarker(e) /\ (e = "next" => pc = "aend")
    BY <1>16 DEF FlushFails
  <2>2. /\ Fail /\ pc \in {"aend", "idle"} /\ UNCHANGED <<written, accepted>>
        /\ e \in Endings
    BY <1>16, <2>1 DEF FlushFails, Fail
  <2>3. /\ out # <<>> /\ Grow(MIN_CHUNK_BYTES_SIZE, e, FALSE) /\ MIN_CHUNK_BYTES_SIZE \in Nat
        /\ e \in {"anxt", "next"} => HasFragment(Len(out))
    BY <1>m, <2>1, <2>2
  <2> QED
    BY <1>g, <2>2, <2>3
<1>17. CASE UNCHANGED vars
  BY <1>0, <1>17, <1>u DEF vars, SeqTypes, OrderInv, PendingInv, PartsInv, NoEmptyPart,
     HasFragment, Goes, Follows, EndsChunk
<1> QED
  BY <1>1, <1>2, <1>3, <1>4, <1>5, <1>6, <1>7, <1>8, <1>9, <1>10, <1>11,
     <1>12, <1>13, <1>14, <1>15, <1>16, <1>17 DEF Next, PutStep, Faults

LEMMA OrderImplies == SizeInv /\ OrderInv => PartsInOrder
<1> SUFFICES ASSUME SizeInv, OrderInv PROVE PartsInOrder
  OBVIOUS
<1>1. NothingLostOrReordered
  BY DEF OrderInv, FragmentsInv, PendingInv, NothingLostOrReordered
<1>2. pc = "done" => out[Len(out)].end = "last" /\ ~out[Len(out)].torn
  BY DEF SizeInv, BudgetInv
<1> QED
  BY <1>1, <1>2 DEF OrderInv, FragmentsInv, PartsInv, PartsInOrder, PartsChained

\* Concatenating the parts gives back what was written, in order, whatever the
\* size of the parts and wherever the sink fails; the parts form a chain, only
\* streams are cut, and rolling over never yields an empty part.
THEOREM PartsKeepOrder == Spec => []PartsInOrder
<1>1. SizeInv /\ OrderInv /\ [Next]_vars => (SizeInv /\ OrderInv)'
  BY SizeStep, OrderStep
<1> QED
  BY <1>1, SizeInit, OrderInit, OrderImplies, PTL DEF Spec
-----------------------------------------------------------------------------
(* The reader of the parts.                                                *)

Tokens == [ty: {"AHED"}, number: Nat] \cup [ty: {"ANXT", "AEND"}]
          \cup [ty: ChunkTypes, id: Nat, off: Nat, len: Nat]

\* Nothing is missing behind the last fragment, and no entry is open.
Complete ==
  /\ BetweenEntries(accepted)
  /\ IF written = <<>> THEN accepted = <<>>
     ELSE written[Len(written)].id = Len(accepted) /\ EndsChunk(written[Len(written)])

\* Only an archive that is complete gets its closing marker, and only the part
\* a failed sink opened last can lack its header.
ClosedInv ==
  /\ out # <<>> /\ out[Len(out)].end = "last" => Complete /\ pc \in {"done", "failed"}
  /\ \A i \in DOMAIN out :
       out[i].size >= PART_HEADER_BYTES \/ (pc = "failed" /\ i = Len(out))

\* No fragment goes beyond the end of its chunk.
WithinInv == \A k \in DOMAIN written :
  written[k].off + written[k].len <= accepted[written[k].id].len

SinkInv == SizeInv /\ OrderInv /\ ClosedInv /\ WithinInv

\* The parts stand in one stream, perhaps twice, or each in a file of its own.
Twofold == pc = "done" /\ files = Doubled(PartFiles)
InOne == Twofold \/ files \in Joined(PartFiles)
Whole == pc = "done" /\ files \in {PartFiles, Doubled(PartFiles)} \cup Joined(PartFiles)

\* A file of its own is the start of its part, or stands under a wrong name.
Delivered ==
  /\ out # <<>> /\ pc \in {"done", "failed"}
  /\ ~InOne =>
       /\ Len(files) \in 1..Len(out)
       /\ \A i \in 1..Len(files) :
            \/ \E c \in 0..Len(PartFile(i)) : files[i] = SubSeq(PartFile(i), 1, c)
            \/ i # 1 /\ \E j \in 2..Len(out) : j # i /\ files[i] = PartFile(j)

FragmentsOf(i) == FragmentsBefore(i + 1) - FragmentsBefore(i)
\* The parts from the i-th on, and what follows the i-th where it is read.
Onward(i) == FlattenSeq(SubSeq(PartFiles, i, Len(out)))
Behind(p, i) ==
  IF ~InOne THEN <<>>
  ELSE Onward(i + 1) \o (IF Twofold /\ p = 0 THEN Onward(1) ELSE <<>>)
CutAt(i) == IF InOne THEN Len(PartFile(i)) ELSE Len(files[i])

\* What is left of a stream behind q tokens of s, up to the c-th, and before a.
Left(s, q, c, a) == SubSeq(s, q + 1, c) \o a
\* The reader is in the i-th part, in its p-th pass but one, behind q tokens.
Stands(p, i, q, o, r, n) ==
  /\ i \in 1..Len(out) /\ out[i].size >= PART_HEADER_BYTES
  /\ n = i - 1
  /\ o = IF InOne THEN 1 ELSE i
  /\ i <= Len(files) \/ InOne
  /\ ~InOne => files[i] = SubSeq(PartFile(i), 1, CutAt(i))
  /\ CutAt(i) <= Len(PartFile(i))
  /\ q \in 1..CutAt(i)
  /\ r = Left(PartFile(i), q, CutAt(i), Behind(p, i))
Passed(i, q) ==
  FragmentsBefore(i) + IF q - 1 <= FragmentsOf(i) THEN q - 1 ELSE FragmentsOf(i)

\* It has got the items of p passes and of the first r0 fragments, and holds
\* those up to the r-th.
ClosersTo(r) == {k \in 1..r : Closes(Framed[k])}
Got(p, r0, r, its, b) ==
  /\ r \in 0..Len(written) /\ r0 \in 0..r
  /\ its \in Seq(Seq(Tokens))
  /\ FlattenSeq(its) = (IF p = 1 THEN Framed ELSE <<>>) \o SubSeq(Framed, 1, r0)
  /\ b = SubSeq(Framed, r0 + 1, r)
  /\ r0 # 0 => Closes(Framed[r0])
  /\ \A k \in (r0 + 1)..r : ~Closes(Framed[k])
  /\ Len(its) = p * Written + Cardinality(ClosersTo(r0))
  /\ \A k \in DOMAIN its : {c \in DOMAIN its[k] : Closes(its[k][c])} = {Len(its[k])}
  /\ p \in 0..1
  /\ p = 1 => Twofold /\ concatenated /\ Complete

\* What the reader has seen of the part it is in.
InItems(p, i, q, o, r, n, x, its, b) ==
  /\ Stands(p, i, q, o, r, n)
  /\ x <=> out[i].end \in {"anxt", "next"} /\ q >= FragmentsOf(i) + 2
  /\ out[i].end \in {"next", "last"} => q < Len(PartFile(i))
  /\ \E r0 \in 0..Len(written) : Got(p, r0, Passed(i, q), its, b)
AtEnd(p, i, o, r, n, x, its, b) ==
  /\ Stands(p, i, Len(PartFile(i)), o, r, n)
  /\ out[i].end \in {"next", "last"}
  /\ x <=> out[i].end = "next"
  /\ \E r0 \in 0..Len(written) : Got(p, r0, FragmentsBefore(i + 1), its, b)
AllRead(p, its, b) ==
  /\ out[Len(out)].end = "last"
  /\ Twofold /\ concatenated => p = 1
  /\ \E r0 \in 0..Len(written) : Got(p, r0, Len(written), its, b)
SomeRead(its, b) ==
  \E p \in 0..1 : \E r \in 0..Len(written) : \E r0 \in 0..r : Got(p, r0, r, its, b)

\* Where the reader is, what is before it, and what it has got so far.
At(s, o, r, n, x, b, its) ==
  /\ s \in {"idle", "items", "end", "ok", "error"}
  /\ s = "idle"  => o = 0 /\ its = <<>> /\ b = <<>>
  /\ s = "items" => \E p \in 0..1 : \E i \in 1..Len(out) : \E q \in 1..Len(PartFile(i)) :
                      InItems(p, i, q, o, r, n, x, its, b)
  /\ s = "end"   => \E p \in 0..1 : \E i \in 1..Len(out) : AtEnd(p, i, o, r, n, x, its, b)
  /\ s = "ok"    => \E p \in 0..1 : AllRead(p, its, b)
  /\ s = "error" => SomeRead(its, b) /\ ~Whole

ReaderInv ==
  IF files = <<>> THEN rpc = "idle" /\ opened = 0 /\ items = <<>> /\ buf = <<>>
  ELSE Delivered /\ At(rpc, opened, rest, number, next_archive, buf, items)
RTInv == SinkInv /\ ReaderInv
-----------------------------------------------------------------------------
(* Sequences and sets.                                                     *)

\* A set of numbers that has every positive one below each of its own.
LEMMA InitialSegment ==
  ASSUME NEW n \in Nat, NEW S \in SUBSET (1..n), \A x \in S : \A y \in 1..x : y \in S
  PROVE  Cardinality(S) \in 0..n /\ S = 1..Cardinality(S)
<1> DEFINE B == {k \in Nat : \A x \in S : x <= k}
<1>1. n \in B /\ B \subseteq Nat
  OBVIOUS
<1>2. PICK m \in B : \A k \in B : m <= k
  BY <1>1, LeastElement
<1>3. m \in Nat /\ m <= n /\ \A x \in S : x <= m
  BY <1>1, <1>2
<1>4. m # 0 => m \in S
  <2> SUFFICES ASSUME m # 0, m \notin S PROVE FALSE
    OBVIOUS
  <2>1. m - 1 \in B
    BY <1>3
  <2> QED
    BY <1>2, <1>3, <2>1
<1>5. S = 1..m
  <2>1. \A x \in S : x \in 1..m
    BY <1>3
  <2>2. \A y \in 1..m : m # 0
    BY <1>3
  <2> QED
    BY <1>4, <2>1, <2>2
<1>6. Cardinality(1..m) = m
  BY <1>3, FS_Interval
<1> QED
  BY <1>3, <1>5, <1>6

LEMMA SameElements ==
  ASSUME NEW T, NEW p \in Seq(T), NEW q \in Seq(T), Len(p) = Len(q), \A k \in 1..Len(p) : p[k] = q[k]
  PROVE  p = q
  OBVIOUS

LEMMA ConcatParts ==
  ASSUME NEW T, NEW p \in Seq(T), NEW q \in Seq(T)
  PROVE  /\ p \o q \in Seq(T) /\ Len(p \o q) = Len(p) + Len(q)
         /\ \A k \in 1..Len(p) : (p \o q)[k] = p[k]
         /\ \A k \in 1..Len(q) : (p \o q)[Len(p) + k] = q[k]
  OBVIOUS

LEMMA OneBehind ==
  ASSUME NEW T, NEW s \in Seq(T), NEW x \in T
  PROVE  /\ s \o <<x>> \in Seq(T) /\ Len(s \o <<x>>) = Len(s) + 1
         /\ (s \o <<x>>)[Len(s) + 1] = x
         /\ \A k \in 1..Len(s) : (s \o <<x>>)[k] = s[k]
<1> DEFINE w == <<x>>
<1>1. w \in Seq(T) /\ Len(w) = 1 /\ w[1] = x
  OBVIOUS
<1> HIDE DEF w
<1>2. 1 \in 1..Len(w)
  BY <1>1
<1> QED
  BY <1>1, <1>2, ConcatParts DEF w

LEMMA FlattenOne ==
  ASSUME NEW T, NEW x \in Seq(T)
  PROVE  FlattenSeq(<<x>>) = x
<1>1. <<>> \in Seq(Seq(T)) /\ Append(<<>>, x) = <<x>> /\ <<>> \o x = x
  OBVIOUS
<1>2. FlattenSeq(Append(<<>>, x)) = FlattenSeq(<<>>) \o x
  BY <1>1, FlattenAppend
<1> QED
  BY <1>1, <1>2, FlattenEmpty

LEMMA FlattenTyped ==
  ASSUME NEW T, NEW ss \in Seq(Seq(T))
  PROVE  FlattenSeq(ss) \in Seq(T)
<1>1. <<>> \in Seq(T)
  OBVIOUS
<1> QED
  BY <1>1, FlattenAppend

LEMMA Associates == \A T : \A p, q, r \in Seq(T) : (p \o q) \o r = p \o (q \o r)
  BY ConcatAssociative

LEMMA ConcatAppend ==
  ASSUME NEW T, NEW s \in Seq(T), NEW v \in Seq(T), NEW x \in T
  PROVE  s \o Append(v, x) = Append(s \o v, x) /\ s \o v \in Seq(T)
<1> DEFINE a == s \o Append(v, x)
           b == Append(s \o v, x)
<1>1. a \in Seq(T) /\ b \in Seq(T) /\ Len(a) = Len(b) /\ s \o v \in Seq(T)
  OBVIOUS
<1>2. \A k \in 1..Len(a) : a[k] = b[k]
  OBVIOUS
<1> HIDE DEF a, b
<1>3. a = b
  BY <1>1, <1>2, SeqEqual
<1> QED
  BY <1>1, <1>3 DEF a, b

LEMMA FlattenConcatAppend ==
  ASSUME NEW T, NEW s \in Seq(Seq(T)), NEW v \in Seq(Seq(T)), NEW x \in Seq(T),
         FlattenSeq(s \o v) = FlattenSeq(s) \o FlattenSeq(v)
  PROVE  FlattenSeq(s \o Append(v, x)) = FlattenSeq(s) \o FlattenSeq(Append(v, x))
<1> DEFINE a == FlattenSeq(s)
           b == FlattenSeq(v)
<1>1. a \in Seq(T) /\ b \in Seq(T)
  BY FlattenTyped
<1>2. FlattenSeq(Append(v, x)) = b \o x
  BY FlattenAppend
<1>3. s \o Append(v, x) = Append(s \o v, x) /\ s \o v \in Seq(Seq(T))
  BY ConcatAppend
<1>4. FlattenSeq(s \o Append(v, x)) = (a \o b) \o x
  <2> DEFINE z == s \o v
  <2>1. z \in Seq(Seq(T)) /\ FlattenSeq(z) = a \o b
    BY <1>3
  <2> HIDE DEF z
  <2>2. FlattenSeq(Append(z, x)) = FlattenSeq(z) \o x
    BY <2>1, FlattenAppend
  <2> QED
    BY <1>3, <2>1, <2>2, Zenon DEF z
<1> HIDE DEF a, b
<1>5. (a \o b) \o x = a \o (b \o x)
  BY <1>1, Associates
<1> QED
  BY <1>2, <1>4, <1>5 DEF a

\* One after the other, or both at once.
LEMMA FlattenConcat ==
  ASSUME NEW T, NEW s \in Seq(Seq(T)), NEW t \in Seq(Seq(T))
  PROVE  FlattenSeq(s \o t) = FlattenSeq(s) \o FlattenSeq(t)
<1> DEFINE Good(n) == \A u \in Seq(Seq(T)) : Len(u) = n =>
                        FlattenSeq(s \o u) = FlattenSeq(s) \o FlattenSeq(u)
           G == {n \in Nat : Good(n)}
<1>1. Good(0)
  <2> SUFFICES ASSUME NEW u \in Seq(Seq(T)), Len(u) = 0
               PROVE  FlattenSeq(s \o u) = FlattenSeq(s) \o FlattenSeq(u)
    OBVIOUS
  <2>1. u = <<>> /\ s \o u = s
    OBVIOUS
  <2>2. FlattenSeq(s) \in Seq(T)
    BY FlattenTyped
  <2> DEFINE f == FlattenSeq(s)
  <2> HIDE DEF f
  <2>3. f \o <<>> = f
    BY <2>2 DEF f
  <2> QED
    BY <2>1, <2>3, FlattenEmpty DEF f
<1>2. ASSUME NEW n \in Nat, Good(n) PROVE Good(n + 1)
  <2> SUFFICES ASSUME NEW u \in Seq(Seq(T)), Len(u) = n + 1
               PROVE  FlattenSeq(s \o u) = FlattenSeq(s) \o FlattenSeq(u)
    OBVIOUS
  <2>1. PICK v \in Seq(Seq(T)), x \in Seq(T) : u = Append(v, x)
    <3>1. u # <<>>
      OBVIOUS
    <3> QED
      BY <3>1, SequenceEmptyOrAppend
  <2>2. Len(v) = n
    BY <2>1
  <2>3. FlattenSeq(s \o v) = FlattenSeq(s) \o FlattenSeq(v)
    BY <1>2, <2>2
  <2> QED
    BY <2>1, <2>3, FlattenConcatAppend
<1> HIDE DEF Good
<1>3. Nat \subseteq G
  <2>1. 0 \in G /\ \A n \in Nat : n \in G => n + 1 \in G
    BY <1>1, <1>2
  <2> HIDE DEF G
  <2> QED
    BY <2>1, SetInduction
<1> QED
  BY <1>3 DEF Good

LEMMA HeadAndTail ==
  ASSUME NEW T, NEW x \in T, NEW e \in Seq(T)
  PROVE  /\ <<x>> \o e \in Seq(T) /\ <<x>> \o e # <<>>
         /\ (<<x>> \o e)[1] = x /\ Tail(<<x>> \o e) = e
         /\ Len(<<x>> \o e) = Len(e) + 1
<1> DEFINE w == <<x>>
           r == w \o e
<1>1. w \in Seq(T) /\ Len(w) = 1 /\ w[1] = x
  OBVIOUS
<1> HIDE DEF w
<1>2. /\ r \in Seq(T) /\ Len(r) = Len(e) + 1 /\ r[1] = x /\ Len(e) \in Nat
      /\ \A k \in 1..Len(e) : r[k + 1] = e[k]
  <2>1. /\ w \o e \in Seq(T) /\ Len(w \o e) = Len(w) + Len(e)
        /\ \A i \in 1..(Len(w) + Len(e)) : (w \o e)[i] = IF i <= Len(w) THEN w[i] ELSE e[i - Len(w)]
    BY <1>1, ConcatProperties
  <2> HIDE DEF r
  <2>2. /\ r \in Seq(T) /\ Len(r) = Len(w) + Len(e)
        /\ \A i \in 1..(Len(w) + Len(e)) : r[i] = IF i <= Len(w) THEN w[i] ELSE e[i - Len(w)]
    BY <2>1 DEF r
  <2>3. Len(e) \in Nat
    OBVIOUS
  <2>4. \A k \in 1..Len(e) : k + 1 \in 1..(Len(w) + Len(e)) /\ ~(k + 1 <= Len(w)) /\ (k + 1) - Len(w) = k
    BY <1>1, <2>3
  <2> QED
    BY <1>1, <2>2, <2>3, <2>4
<1> HIDE DEF r
<1>3. r # <<>>
  BY <1>2
<1>4. /\ Tail(r) \in Seq(T) /\ Len(Tail(r)) = Len(r) - 1
      /\ \A k \in 1..Len(Tail(r)) : Tail(r)[k] = r[k + 1]
  BY <1>2, <1>3, HeadTailProperties
<1>5. Len(Tail(r)) = Len(e)
  BY <1>2, <1>4
<1>6. Tail(r) = e
  BY <1>2, <1>4, <1>5, SeqEqual
<1> QED
  BY <1>2, <1>3, <1>6 DEF r, w

LEMMA HeadOfThree ==
  ASSUME NEW T, NEW x \in T, NEW d \in Seq(T), NEW a \in Seq(T)
  PROVE  (<<x>> \o d) \o a = <<x>> \o (d \o a)
<1> DEFINE w == <<x>>
<1>1. w \in Seq(T)
  OBVIOUS
<1> HIDE DEF w
<1>2. (w \o d) \o a = w \o (d \o a)
  BY <1>1, Associates
<1> QED
  BY <1>2 DEF w

\* What is left starts with the next token of s, or with a.
LEMMA TakeToken ==
  ASSUME NEW T, NEW s \in Seq(T), NEW a \in Seq(T), NEW c \in 0..Len(s), NEW q \in 0..c
  PROVE  /\ Left(s, q, c, a) \in Seq(T)
         /\ q < c => /\ Left(s, q, c, a) # <<>> /\ Left(s, q, c, a)[1] = s[q + 1]
                     /\ Tail(Left(s, q, c, a)) = Left(s, q + 1, c, a)
         /\ q = c => Left(s, q, c, a) = a
<1> DEFINE b == SubSeq(s, q + 1, c)
           r == Left(s, q, c, a)
<1>1. b \in Seq(T) /\ r = b \o a
  BY DEF Left
<1>2. r \in Seq(T)
  BY <1>1, ConcatProperties
<1>3. ASSUME q = c PROVE r = a
  <2>1. b = <<>>
    BY <1>3
  <2> HIDE DEF b
  <2> QED
    BY <1>1, <2>1
<1>4. ASSUME q < c PROVE r # <<>> /\ r[1] = s[q + 1] /\ Tail(r) = Left(s, q + 1, c, a)
  <2> DEFINE d == SubSeq(s, (q + 1) + 1, c)
             x == s[q + 1]
             w == <<x>>
             e == d \o a
  <2>1. x \in T /\ d \in Seq(T) /\ w \in Seq(T) /\ q + 1 \in 1..Len(s) /\ c \in (q + 1)..Len(s)
    BY <1>4
  <2>2. b = w \o d
    BY <2>1, SubSeqRecursiveFirst
  <2>3. e = Left(s, q + 1, c, a) /\ e \in Seq(T)
    BY <2>1, ConcatProperties DEF Left
  <2> HIDE DEF b, d, w, x
  <2>4. r = (w \o d) \o a
    BY <1>1, <2>2
  <2>5. x \in T /\ d \in Seq(T)
    BY <2>1
  <2>6. (w \o d) \o a = w \o (d \o a)
    BY <2>5, HeadOfThree DEF w
  <2>7. r = w \o e
    BY <2>4, <2>6
  <2> HIDE DEF r, e
  <2>8. r = <<x>> \o e
    BY <2>7 DEF w
  <2>9. x \in T /\ e \in Seq(T)
    BY <2>1, <2>3
  <2>10. r # <<>> /\ r[1] = x /\ Tail(r) = e
    BY <2>8, <2>9, HeadAndTail
  <2> QED
    BY <2>3, <2>10 DEF x
<1> QED
  BY <1>2, <1>3, <1>4

LEMMA FirstToken ==
  ASSUME NEW T, NEW s \in Seq(T), NEW a \in Seq(T), s # <<>>
  PROVE  /\ s \o a # <<>> /\ (s \o a)[1] = s[1]
         /\ Tail(s \o a) = Left(s, 1, Len(s), a)
<1> DEFINE c == Len(s)
<1>1. c \in 0..Len(s) /\ 0 \in 0..c /\ 0 < c /\ 0 + 1 = 1
  OBVIOUS
<1>2. SubSeq(s, 0 + 1, c) = s
  OBVIOUS
<1> HIDE DEF c
<1>3. Left(s, 0, c, a) # <<>>
  BY <1>1, TakeToken
<1>5. Left(s, 0, c, a)[1] = s[1]
  BY <1>1, TakeToken
<1>6. Tail(Left(s, 0, c, a)) = Left(s, 1, c, a)
  BY <1>1, TakeToken
<1>4. Left(s, 0, c, a) = s \o a
  BY <1>2, Zenon DEF Left
<1> QED
  BY <1>3, <1>4, <1>5, <1>6, Zenon DEF c

\* One element, then a sequence, then another.
LEMMA ThreeJoined ==
  ASSUME NEW T, NEW x \in T, NEW s \in Seq(T), NEW m \in Seq(T)
  PROVE  /\ (<<x>> \o s) \o m \in Seq(T)
         /\ Len((<<x>> \o s) \o m) = 1 + Len(s) + Len(m)
         /\ ((<<x>> \o s) \o m)[1] = x
         /\ \A k \in 1..Len(s) : ((<<x>> \o s) \o m)[1 + k] = s[k]
         /\ \A k \in 1..Len(m) : ((<<x>> \o s) \o m)[1 + Len(s) + k] = m[k]
<1> DEFINE w == <<x>>
           u == w \o s
           p == u \o m
<1>1. w \in Seq(T) /\ Len(w) = 1 /\ w[1] = x /\ Len(s) \in Nat /\ Len(m) \in Nat
  OBVIOUS
<1> HIDE DEF w
<1>2. /\ u \in Seq(T) /\ Len(u) = 1 + Len(s) /\ u[1] = x
      /\ \A k \in 1..Len(s) : u[1 + k] = s[k]
  <2>1. /\ u \in Seq(T) /\ Len(u) = Len(w) + Len(s) /\ \A k \in 1..Len(w) : u[k] = w[k]
        /\ \A k \in 1..Len(s) : u[Len(w) + k] = s[k]
    <3>1. w \in Seq(T)
      BY <1>1
    <3>2. u \in Seq(T) /\ Len(u) = Len(w) + Len(s)
      BY <3>1, ConcatParts
    <3>3. \A k \in 1..Len(w) : u[k] = w[k]
      BY <3>1, ConcatParts
    <3>4. \A k \in 1..Len(s) : u[Len(w) + k] = s[k]
      BY <3>1, ConcatParts
    <3> QED
      BY <3>2, <3>3, <3>4
  <2> HIDE DEF u
  <2>2. 1 \in 1..Len(w)
    BY <1>1
  <2> QED
    BY <1>1, <2>1, <2>2
<1> HIDE DEF u
<1>3. /\ p \in Seq(T) /\ Len(p) = Len(u) + Len(m) /\ \A k \in 1..Len(u) : p[k] = u[k]
      /\ \A k \in 1..Len(m) : p[Len(u) + k] = m[k]
  <2>1. u \in Seq(T)
    BY <1>2
  <2>2. p \in Seq(T) /\ Len(p) = Len(u) + Len(m)
    BY <2>1, ConcatParts
  <2>3. \A k \in 1..Len(u) : p[k] = u[k]
    BY <2>1, ConcatParts
  <2>4. \A k \in 1..Len(m) : p[Len(u) + k] = m[k]
    BY <2>1, ConcatParts
  <2> QED
    BY <2>2, <2>3, <2>4
<1> HIDE DEF p
<1>4. p \in Seq(T) /\ Len(p) = 1 + Len(s) + Len(m)
  BY <1>1, <1>2, <1>3
<1>5. p[1] = x /\ \A k \in 1..Len(s) : p[1 + k] = s[k]
  <2>1. 1 \in 1..Len(u) /\ \A k \in 1..Len(s) : 1 + k \in 1..Len(u)
    BY <1>1, <1>2
  <2> QED
    BY <1>2, <1>3, <2>1
<1>6. \A k \in 1..Len(m) : p[1 + Len(s) + k] = m[k]
  BY <1>2, <1>3
<1> QED
  BY <1>4, <1>5, <1>6 DEF p, u, w
-----------------------------------------------------------------------------
(* What the sink leaves behind.                                            *)

LEMMA ClosedInit == Init => ClosedInv
  BY DEF Init, ClosedInv

LEMMA CompleteKept == UNCHANGED <<accepted, written>> => Complete' = Complete
  BY DEF Complete, EndsChunk

\* A part that grows keeps its header, and all others theirs.
LEMMA HeadersGrow ==
  ASSUME out \in Seq(PartRecord), out # <<>>,
         NEW n \in Nat, NEW e \in Endings, NEW t \in BOOLEAN, Grow(n, e, t),
         \A i \in DOMAIN out : out[i].size >= PART_HEADER_BYTES
  PROVE  /\ \A i \in DOMAIN out' : out'[i].size >= PART_HEADER_BYTES
         /\ Len(out') = Len(out) /\ out'[Len(out')].end = e
<1>1. /\ out' \in Seq(PartRecord) /\ Len(out') = Len(out)
      /\ \A i \in DOMAIN out : i # Len(out) => out'[i] = out[i]
      /\ out'[Len(out)].size = out[Len(out)].size + n
      /\ out'[Len(out)].end = e
  BY GrowEffect
<1>2. Len(out) \in DOMAIN out /\ DOMAIN out' = DOMAIN out /\ \A i \in DOMAIN out : out[i].size \in Nat
  BY <1>1, PartTyped
<1> QED
  BY <1>1, <1>2

LEMMA HeadersAppend ==
  ASSUME out \in Seq(PartRecord), NEW r \in PartRecord, out' = Append(out, r), r.end = "open",
         \A i \in DOMAIN out : out[i].size >= PART_HEADER_BYTES
  PROVE  /\ \A i \in DOMAIN out' : i # Len(out') => out'[i].size >= PART_HEADER_BYTES
         /\ out'[Len(out')] = r
<1>1. /\ Len(out') = Len(out) + 1 /\ out' \in Seq(PartRecord)
      /\ \A i \in DOMAIN out : out'[i] = out[i]
      /\ out'[Len(out')] = r
  BY AppendEffect
<1>2. \A i \in DOMAIN out' : i # Len(out') => i \in DOMAIN out
  BY <1>1
<1> QED
  BY <1>1, <1>2

LEMMA ClosedStep ==
  ASSUME SizeInv, OrderInv, ClosedInv, Next, AddEntries
  PROVE  ClosedInv'
<1> USE MaxPartBytesAssumption, InputsAssumption, U32MaxAssumption
<1>0. /\ TypeOK /\ BudgetInv /\ PendingInv /\ out \in Seq(PartRecord)
      /\ remaining \in Nat /\ pending \in Piece /\ max_part_bytes \in Nat
      /\ pending.len \in Nat /\ pending.off \in Nat /\ pending.id \in Nat
  BY PieceTyped DEF SizeInv, OrderInv, TypeOK
<1> DEFINE Live == pc \notin {"new", "failed", "done"}
<1>1. Live => /\ out # <<>> /\ out[Len(out)].end # "last" /\ out[Len(out)].end \in Endings
              /\ \A i \in DOMAIN out : out[i].size >= PART_HEADER_BYTES
  <2> SUFFICES ASSUME Live PROVE /\ out # <<>> /\ out[Len(out)].end # "last"
                                 /\ out[Len(out)].end \in Endings
                                 /\ \A i \in DOMAIN out : out[i].size >= PART_HEADER_BYTES
    OBVIOUS
  <2>1. out # <<>> /\ pc \in {"idle", "value", "stream", "anxt", "aend", "open"}
    BY <1>0 DEF BudgetInv, TypeOK
  <2>2. out[Len(out)].end # "last"
    BY <1>0, <2>1 DEF BudgetInv
  <2>3. Len(out) \in DOMAIN out
    BY <1>0, <2>1
  <2> QED
    BY <1>0, <2>1, <2>2, <2>3, PartTyped DEF ClosedInv
<1> HIDE DEF Live
<1>2. pc = "new" => out = <<>>
  BY <1>0 DEF BudgetInv
<1>3. \A n : EmptyPart(n).end = "open" /\ TornHeader(n).end = "open"
             /\ EmptyPart(n).size = PART_HEADER_BYTES
  BY DEF EmptyPart, TornHeader
<1>g. ASSUME Live, NEW n \in Nat, NEW e \in Endings, NEW t \in BOOLEAN, Grow(n, e, t),
             e = "last" => Complete' /\ pc' \in {"done", "failed"}
      PROVE  ClosedInv'
  <2>1. /\ \A i \in DOMAIN out' : out'[i].size >= PART_HEADER_BYTES
        /\ out'[Len(out')].end = e
    BY <1>0, <1>1, <1>g, HeadersGrow
  <2> QED
    BY <1>g, <2>1 DEF ClosedInv
<1>a. ASSUME pc = "new" \/ Live, NEW r \in PartRecord, out' = Append(out, r), r.end = "open",
             r.size >= PART_HEADER_BYTES \/ pc' = "failed"
      PROVE  ClosedInv'
  <2>1. \A i \in DOMAIN out : out[i].size >= PART_HEADER_BYTES
    BY <1>1, <1>2, <1>a
  <2>2. /\ \A i \in DOMAIN out' : i # Len(out') => out'[i].size >= PART_HEADER_BYTES
        /\ out'[Len(out')] = r
    BY <1>0, <1>a, <2>1, HeadersAppend
  <2> QED
    BY <1>a, <2>2 DEF ClosedInv
<1>u. ASSUME pc = "new" \/ Live, UNCHANGED out PROVE ClosedInv'
  <2>1. CASE pc = "new"
    BY <1>2, <1>u, <2>1 DEF ClosedInv
  <2>2. CASE Live
    BY <1>1, <1>u, <2>2 DEF ClosedInv
  <2> QED
    BY <1>u, <2>1, <2>2
<1>o. ASSUME pc = "new" \/ Live, NEW n \in Nat, OpenFails(n) PROVE ClosedInv'
  <2>1. TornHeader(n) \in PartRecord
    BY NewParts
  <2> QED
    BY <1>3, <1>a, <1>o, <1>u, <2>1 DEF OpenFails, Fail
<1>4. CASE NewRejected
  BY <1>4, <1>u DEF NewRejected
<1>5. CASE New
  <2>1. EmptyPart(0) \in PartRecord
    BY NewParts
  <2>2. pc = "new" /\ out' = Append(out, EmptyPart(0))
    BY <1>2, <1>5 DEF New
  <2> QED
    BY <1>3, <1>a, <2>1, <2>2
<1>6. CASE \E c \in Inputs : PutChunk(c)
  BY <1>6, <1>u DEF PutChunk, Live
<1>7. CASE WriteValue
  <2>1. Live /\ pending.len + MIN_CHUNK_BYTES_SIZE \in Nat
    BY <1>0, <1>7 DEF WriteValue, Live
  <2> QED
    BY <1>1, <1>7, <1>g, <2>1 DEF WriteValue, WriteFragment, GrowOpen
<1>8. CASE CutStream
  <2>1. Live /\ CutLen + MIN_CHUNK_BYTES_SIZE \in Nat
    BY <1>0, <1>8 DEF CutStream, Live, CutLen, CanCut
  <2> QED
    BY <1>1, <1>8, <1>g, <2>1 DEF CutStream, WriteFragment, GrowOpen
<1>9. CASE SkipPart \/ StreamRejected \/ RollOverflow
  BY <1>9, <1>u DEF SkipPart, StreamRejected, RollOverflow, Live
<1>10. CASE RollAnxt
  BY <1>10, <1>g DEF RollAnxt, GrowMarker, Live
<1>11. CASE RollAend
  BY <1>11, <1>g DEF RollAend, GrowMarker, Live
<1>12. CASE RollOpen
  <2>1. Live /\ EmptyPart(NextNumber) \in PartRecord
    BY <1>0, <1>12, NewParts DEF RollOpen, Live, NextNumber, TypeOK
  <2> QED
    BY <1>3, <1>12, <1>a, <2>1 DEF RollOpen
<1>13. CASE Finalize
  <2>1. Live /\ GrowMarker("last") /\ pc' = "done" /\ UNCHANGED <<accepted, written>>
    BY <1>13 DEF Finalize, Live
  <2>2. Complete
    BY <1>0, <1>13, <2>1 DEF Finalize, AddEntries, PendingInv, Complete
  <2> QED
    BY <1>g, <2>1, <2>2, CompleteKept DEF GrowMarker
<1>14. CASE NewFails
  BY <1>14, <1>o DEF NewFails
<1>15. CASE RollOpenFails
  <2>1. Live /\ NextNumber \in Nat
    BY <1>0, <1>15 DEF RollOpenFails, Live, NextNumber, TypeOK
  <2> QED
    BY <1>15, <1>o, <2>1 DEF RollOpenFails
<1>16. CASE WriteFails
  <2>1. Live
    BY <1>16 DEF WriteFails, Live
  <2>2. PICK t \in {0, NextWriteBytes - 1} : Grow(t, out[current].end, t > 0)
    BY <1>16 DEF WriteFails
  <2>3. NextWriteBytes - 1 \in Nat
    <3>1. CASE pc = "value"
      BY <1>0, <3>1 DEF NextWriteBytes, BytesLen, BudgetInv
    <3>2. CASE pc = "stream"
      BY <1>0, <1>16, <3>2 DEF WriteFails, NextWriteBytes, BytesLen, CanCut
    <3>3. CASE pc \notin {"value", "stream"}
      BY <3>3 DEF NextWriteBytes
    <3> QED
      BY <3>1, <3>2, <3>3
  <2>4. t \in Nat
    BY <2>2, <2>3
  <2> DEFINE e == out[Len(out)].end
             b == t > 0
  <2>5. Grow(t, e, b) /\ e \in Endings /\ e # "last" /\ b \in BOOLEAN
    BY <1>1, <2>1, <2>2
  <2> HIDE DEF e, b
  <2> QED
    BY <1>g, <2>1, <2>4, <2>5
<1>17. CASE FlushFails
  <2>1. Live /\ pc' = "failed" /\ UNCHANGED <<accepted, written>>
        /\ GrowMarker(IF pc = "aend" THEN "next" ELSE "last")
    BY <1>17 DEF FlushFails, Live, Fail
  <2>2. pc # "aend" => Complete
    BY <1>0, <1>17, <2>1 DEF FlushFails, AddEntries, PendingInv, Complete
  <2> QED
    BY <1>g, <2>1, <2>2, CompleteKept DEF GrowMarker
<1> QED
  BY <1>4, <1>5, <1>6, <1>7, <1>8, <1>9, <1>10, <1>11, <1>12, <1>13, <1>14, <1>15, <1>16, <1>17
  DEF Next, PutStep, Faults

LEMMA WithinInit == Init => WithinInv
  BY DEF Init, WithinInv

LEMMA WithinStep ==
  ASSUME SizeInv, OrderInv, WithinInv, Next
  PROVE  WithinInv'
<1> USE InputsAssumption
<1>0. /\ out \in Seq(PartRecord) /\ written \in Seq(Fragment) /\ accepted \in Seq(Inputs)
      /\ pending \in Piece /\ PendingInv /\ remaining \in Nat
      /\ \A k \in DOMAIN written : written[k].id \in DOMAIN accepted
  BY DEF SizeInv, OrderInv, TypeOK, FragmentsInv
<1>1. ASSUME UNCHANGED <<written, accepted>> PROVE WithinInv'
  BY <1>1 DEF WithinInv
<1>2. ASSUME pc \in {"value", "stream"}, NEW n \in Nat, n <= pending.len,
             WriteFragment(n), UNCHANGED accepted
      PROVE  WithinInv'
  <2> DEFINE g == [part |-> Len(out), id |-> pending.id, off |-> pending.off, len |-> n]
  <2>1. written' = Append(written, g)
    BY <1>2 DEF WriteFragment
  <2>2. /\ pending.off \in Nat /\ pending.len \in Nat /\ pending.id = Len(accepted)
        /\ pending.off + pending.len = accepted[Len(accepted)].len
    BY <1>0, <1>2, PieceTyped DEF PendingInv, Busy
  <2>3. g.id = Len(accepted) /\ g.off = pending.off /\ g.len = n /\ g \in Fragment
    BY <1>0, <2>2 DEF Fragment
  <2>4. g.off + g.len <= accepted[g.id].len
    BY <1>2, <2>2, <2>3
  <2> HIDE DEF g
  <2>5. \A k \in DOMAIN written' : (k \in DOMAIN written /\ written'[k] = written[k]) \/ written'[k] = g
    BY <1>0, <2>1, <2>3
  <2>6. accepted' = accepted
    BY <1>2
  <2> QED
    BY <2>4, <2>5, <2>6 DEF WithinInv
<1>3. ASSUME NEW c \in Inputs, PutChunk(c) PROVE WithinInv'
  <2>1. written' = written /\ accepted' = Append(accepted, c)
    BY <1>3 DEF PutChunk
  <2>2. \A j \in DOMAIN accepted : accepted'[j] = accepted[j]
    BY <1>0, <2>1
  <2>3. \A k \in DOMAIN written : accepted'[written[k].id] = accepted[written[k].id]
    BY <1>0, <2>2
  <2> QED
    BY <2>1, <2>3 DEF WithinInv
<1>4. CASE WriteValue
  <2>1. pending.len \in Nat /\ pending.len <= pending.len
    BY <1>0, PieceTyped
  <2> QED
    BY <1>2, <1>4, <2>1 DEF WriteValue
<1>5. CASE CutStream
  <2>1. pending.len \in Nat /\ remaining \in Nat
    BY <1>0, PieceTyped
  <2>2. CutLen \in Nat /\ CutLen <= pending.len
    BY <1>5, <2>1 DEF CutStream, CutLen, CanCut, BytesLen
  <2> QED
    BY <1>2, <1>5, <2>2 DEF CutStream
<1>6. CASE NewRejected \/ New \/ Finalize \/ SkipPart \/ StreamRejected \/ RollOverflow
           \/ RollAnxt \/ RollAend \/ RollOpen \/ Faults
  <2>1. UNCHANGED <<written, accepted>>
    BY <1>6 DEF NewRejected, New, Finalize, SkipPart, StreamRejected, RollOverflow, RollAnxt,
                RollAend, RollOpen, Faults, NewFails, RollOpenFails, WriteFails, FlushFails,
                OpenFails, Fail
  <2> QED
    BY <1>1, <2>1
<1> QED
  BY <1>3, <1>4, <1>5, <1>6 DEF Next, PutStep

LEMMA SinkInit == Init => SinkInv
  BY SizeInit, OrderInit, ClosedInit, WithinInit DEF SinkInv

LEMMA SinkStep == SinkInv /\ Next /\ AddEntries => SinkInv'
  BY SizeStep, OrderStep, ClosedStep, WithinStep DEF SinkInv
-----------------------------------------------------------------------------
(* What stands in the part files.                                          *)

\* What the invariants of the sink say of the variables they are about.
LEMMA SinkTypes ==
  ASSUME SinkInv
  PROVE  /\ out \in Seq(PartRecord) /\ written \in Seq(Fragment) /\ accepted \in Seq(Inputs)
         /\ FragmentsInv /\ PartsInv /\ ClosedInv
         /\ \A k \in DOMAIN written :
              /\ written[k].id \in DOMAIN accepted /\ written[k].part \in DOMAIN out
              /\ written[k].id \in Nat /\ written[k].off \in Nat /\ written[k].len \in Nat
              /\ written[k].part \in Nat
         /\ \A i \in DOMAIN accepted : accepted[i].ty \in ChunkTypes /\ accepted[i].len \in Nat
<1>1. /\ out \in Seq(PartRecord) /\ written \in Seq(Fragment) /\ accepted \in Seq(Inputs)
      /\ FragmentsInv /\ PartsInv /\ ClosedInv
  BY DEF SinkInv, SizeInv, TypeOK, OrderInv
<1>2. ASSUME NEW k \in DOMAIN written
      PROVE  /\ written[k].id \in DOMAIN accepted /\ written[k].part \in DOMAIN out
             /\ written[k].id \in Nat /\ written[k].off \in Nat /\ written[k].len \in Nat
             /\ written[k].part \in Nat
  <2>1. written[k] \in Fragment
    BY <1>1
  <2> QED
    BY <1>1, <2>1 DEF FragmentsInv, Fragment
<1>3. ASSUME NEW i \in DOMAIN accepted
      PROVE  accepted[i].ty \in ChunkTypes /\ accepted[i].len \in Nat
  <2>1. accepted[i] \in [ty: ChunkTypes, len: Nat]
    BY <1>1, InputsAssumption
  <2> QED
    BY <2>1
<1> QED
  BY <1>1, <1>2, <1>3

LEMMA FramedFacts ==
  ASSUME SinkInv
  PROVE  /\ Framed \in Seq(Tokens) /\ Len(Framed) = Len(written)
         /\ DOMAIN Framed = 1..Len(written) /\ Len(written) \in Nat
         /\ \A k \in 1..Len(written) :
              /\ Framed[k].ty = accepted[written[k].id].ty /\ Framed[k].ty \in ChunkTypes
              /\ Framed[k].id = written[k].id /\ Framed[k].off = written[k].off
              /\ Framed[k].len = written[k].len
<1>1. /\ written \in Seq(Fragment)
      /\ \A k \in DOMAIN written :
           /\ written[k].id \in DOMAIN accepted
           /\ written[k].id \in Nat /\ written[k].off \in Nat /\ written[k].len \in Nat
      /\ \A i \in DOMAIN accepted : accepted[i].ty \in ChunkTypes
  BY SinkTypes
<1> DEFINE t(k) == [ty |-> accepted[written[k].id].ty, id |-> written[k].id,
                    off |-> written[k].off, len |-> written[k].len]
<1>2. ASSUME NEW k \in DOMAIN written
      PROVE  /\ t(k) \in Tokens /\ t(k).ty = accepted[written[k].id].ty /\ t(k).ty \in ChunkTypes
             /\ t(k).id = written[k].id /\ t(k).off = written[k].off /\ t(k).len = written[k].len
  BY <1>1 DEF Tokens
<1>3. Framed = [k \in DOMAIN written |-> t(k)]
  BY DEF Framed
<1>4. DOMAIN written = 1..Len(written) /\ Len(written) \in Nat
  BY <1>1
<1> HIDE DEF t
<1>5. Framed \in Seq(Tokens) /\ Len(Framed) = Len(written) /\ DOMAIN Framed = 1..Len(written)
      /\ \A k \in 1..Len(written) : Framed[k] = t(k)
  BY <1>2, <1>3, <1>4
<1> QED
  BY <1>2, <1>4, <1>5

\* The fragments of the parts before the i-th are the first of all.
LEMMA BeforeFacts ==
  ASSUME SinkInv, NEW i \in Nat
  PROVE  /\ FragmentsBefore(i) \in 0..Len(written)
         /\ FragmentsBefore(i + 1) \in FragmentsBefore(i)..Len(written)
         /\ FragmentsOf(i) \in Nat /\ FragmentsBefore(i) + FragmentsOf(i) = FragmentsBefore(i + 1)
         /\ i = 1 => FragmentsBefore(i) = 0
         /\ i = Len(out) => FragmentsBefore(i + 1) = Len(written)
<1> DEFINE n == Len(written)
           S(j) == {k \in DOMAIN written : written[k].part < j}
<1>1. /\ n \in Nat /\ DOMAIN written = 1..n /\ Len(out) \in Nat /\ DOMAIN out = 1..Len(out)
      /\ \A k \in 1..n : written[k].part \in 1..Len(out)
      /\ \A j, k \in 1..n : j <= k => written[j].part <= written[k].part
  BY SinkTypes DEF FragmentsInv
<1>2. ASSUME NEW j \in Nat
      PROVE  FragmentsBefore(j) \in 0..n /\ S(j) = 1..FragmentsBefore(j)
  <2>1. S(j) \in SUBSET (1..n)
    BY <1>1
  <2>2. \A x \in S(j) : \A y \in 1..x : y \in S(j)
    <3> SUFFICES ASSUME NEW x \in S(j), NEW y \in 1..x PROVE y \in S(j)
      OBVIOUS
    <3>1. y \in 1..n /\ x \in 1..n /\ y <= x
      BY <1>1
    <3>2. written[y].part <= written[x].part /\ written[x].part < j
          /\ written[y].part \in Nat /\ written[x].part \in Nat
      BY <1>1, <3>1
    <3> QED
      BY <1>1, <3>1, <3>2
  <2>3. FragmentsBefore(j) = Cardinality(S(j))
    BY DEF FragmentsBefore
  <2> HIDE DEF S
  <2> QED
    BY <1>1, <2>1, <2>2, <2>3, InitialSegment
<1> DEFINE b == FragmentsBefore(i)
           d == FragmentsBefore(i + 1)
<1>3. b \in 0..n /\ d \in 0..n /\ S(i) = 1..b /\ S(i + 1) = 1..d
  <2>1. i \in Nat /\ i + 1 \in Nat
    OBVIOUS
  <2> HIDE DEF S, n
  <2> QED
    BY <1>2, <2>1
<1>4. S(i) \subseteq S(i + 1)
  <2>1. \A k \in DOMAIN written : written[k].part \in Nat
    BY <1>1
  <2> QED
    BY <2>1
<1> HIDE DEF n, b, d
<1>5. b <= d
  <2>1. CASE b = 0
    BY <1>3, <2>1
  <2>2. CASE b # 0
    <3>1. b \in 1..b
      BY <1>3, <2>2
    <3>2. b \in 1..d
      BY <1>3, <1>4, <3>1
    <3> QED
      BY <1>3, <3>2
  <2> QED
    BY <2>1, <2>2
<1>6. i = 1 => b = 0
  <2> SUFFICES ASSUME i = 1, b # 0 PROVE FALSE
    OBVIOUS
  <2>1. 1 \in 1..b
    BY <1>3
  <2>2. 1 \in S(i)
    BY <1>3, <2>1
  <2> QED
    BY <1>1, <2>2
<1>7. i = Len(out) => d = n
  <2> SUFFICES ASSUME i = Len(out), d # n PROVE FALSE
    OBVIOUS
  <2>1. n \in 1..n
    BY <1>1, <1>3
  <2>2. n \in S(i + 1)
    BY <1>1, <2>1
  <2>3. n \in 1..d
    BY <1>3, <2>2
  <2> QED
    BY <1>1, <1>3, <2>3
<1>8. b \in 0..n /\ d \in b..n /\ d - b \in Nat /\ b + (d - b) = d
  BY <1>1, <1>3, <1>5
<1> QED
  BY <1>6, <1>7, <1>8 DEF FragmentsOf, b, d, n

MarkersOf(e) == IF e = "open" THEN 0 ELSE IF e = "next" THEN 2 ELSE 1

LEMMA MarkerFacts ==
  ASSUME NEW e \in Endings
  PROVE  /\ Markers[e] \in Seq(Tokens) /\ Len(Markers[e]) = MarkersOf(e) /\ MarkersOf(e) \in 0..2
         /\ e \in {"anxt", "next"} => Markers[e][1].ty = "ANXT"
         /\ e = "next" => Markers[e][2].ty = "AEND"
         /\ e = "last" => Markers[e][1].ty = "AEND"
<1> DEFINE x == [ty |-> "ANXT"]
           y == [ty |-> "AEND"]
<1>1. x \in Tokens /\ y \in Tokens /\ x.ty = "ANXT" /\ y.ty = "AEND"
  BY DEF Tokens
<1> DEFINE f == [open |-> <<>>, anxt |-> <<x>>, next |-> <<x, y>>, last |-> <<y>>]
<1>2. Markers = f
  BY DEF Markers
<1> HIDE DEF x, y
<1>3. f["open"] = <<>> /\ f["anxt"] = <<x>> /\ f["next"] = <<x, y>> /\ f["last"] = <<y>>
  OBVIOUS
<1> HIDE DEF f
<1>4. e \in {"open", "anxt", "next", "last"}
  OBVIOUS
<1> DEFINE g == Markers[e]
<1>5. CASE e = "open"
  <2>1. g = <<>> /\ Len(g) = 0 /\ g \in Seq(Tokens)
    <3>1. g = <<>>
      BY <1>2, <1>3, <1>5, Zenon
    <3> HIDE DEF g
    <3> QED
      BY <1>1, <3>1
  <2> HIDE DEF g
  <2> QED
    BY <1>5, <2>1 DEF MarkersOf, g
<1>6. CASE e = "anxt"
  <2>1. g = <<x>> /\ Len(g) = 1 /\ g \in Seq(Tokens) /\ g[1] = x
    <3>1. g = <<x>>
      BY <1>1, <1>2, <1>3, <1>6, Zenon
    <3> HIDE DEF g
    <3> QED
      BY <1>1, <3>1
  <2> HIDE DEF g
  <2> QED
    BY <1>1, <1>6, <2>1 DEF MarkersOf, g
<1>7. CASE e = "next"
  <2>1. g = <<x, y>> /\ Len(g) = 2 /\ g \in Seq(Tokens) /\ g[1] = x /\ g[2] = y
    <3>1. g = <<x, y>>
      BY <1>1, <1>2, <1>3, <1>7, Zenon
    <3> HIDE DEF g
    <3> QED
      BY <1>1, <3>1
  <2> HIDE DEF g
  <2> QED
    BY <1>1, <1>7, <2>1 DEF MarkersOf, g
<1>8. CASE e = "last"
  <2>1. g = <<y>> /\ Len(g) = 1 /\ g \in Seq(Tokens) /\ g[1] = y
    <3>1. g = <<y>>
      BY <1>1, <1>2, <1>3, <1>8, Zenon
    <3> HIDE DEF g
    <3> QED
      BY <1>1, <3>1
  <2> HIDE DEF g
  <2> QED
    BY <1>1, <1>8, <2>1 DEF MarkersOf, g
<1> QED
  BY <1>4, <1>5, <1>6, <1>7, <1>8

\* A part: its header, its fragments, its markers.
LEMMA PartShape ==
  ASSUME SinkInv, NEW i \in DOMAIN out, out[i].size >= PART_HEADER_BYTES
  PROVE  /\ PartFile(i) \in Seq(Tokens)
         /\ Len(PartFile(i)) = 1 + FragmentsOf(i) + MarkersOf(out[i].end)
         /\ PartFile(i)[1].ty = "AHED" /\ PartFile(i)[1].number = i - 1
         /\ \A k \in 1..FragmentsOf(i) : PartFile(i)[1 + k] = Framed[FragmentsBefore(i) + k]
         /\ \A m \in 1..MarkersOf(out[i].end) :
              PartFile(i)[1 + FragmentsOf(i) + m] = Markers[out[i].end][m]
<1> DEFINE b == FragmentsBefore(i)
           d == FragmentsBefore(i + 1)
           n == FragmentsOf(i)
           hd == [ty |-> "AHED", number |-> out[i].number]
           h == <<hd>>
           s == SubSeq(Framed, b + 1, d)
           m == Markers[out[i].end]
<1>1. i \in Nat /\ out[i].number = i - 1 /\ out[i].end \in Endings /\ i - 1 \in Nat
  <2>1. out[i] \in PartRecord /\ i \in Nat /\ i # 0 /\ out[i].number = i - 1
    BY SinkTypes DEF PartsInv
  <2> QED
    BY <2>1, PartTyped
<1>2. b \in 0..Len(written) /\ d \in b..Len(written) /\ n = d - b /\ n \in Nat
  BY <1>1, BeforeFacts DEF FragmentsOf
<1>4. s \in Seq(Tokens) /\ Len(s) = n /\ \A k \in 1..n : s[k] = Framed[b + k]
  <2>1. Framed \in Seq(Tokens) /\ Len(Framed) = Len(written)
    BY FramedFacts
  <2> HIDE DEF b, d, n
  <2>2. \A k \in (b + 1)..d : Framed[k] \in Tokens
    BY <1>2, <2>1
  <2>3. /\ s \in Seq(Tokens) /\ Len(s) = IF b + 1 <= d THEN d - (b + 1) + 1 ELSE 0
        /\ \A k \in 1..(d - (b + 1) + 1) : s[k] = Framed[(b + 1) + k - 1]
    BY <1>2, <2>2, SubSeqProperties
  <2>4. n = d - (b + 1) + 1 /\ \A k \in 1..n : (b + 1) + k - 1 = b + k
    BY <1>2
  <2> QED
    BY <1>2, <2>3, <2>4
<1>5. m \in Seq(Tokens) /\ Len(m) = MarkersOf(out[i].end) /\ MarkersOf(out[i].end) \in 0..2
  BY <1>1, MarkerFacts
<1>6. PartFile(i) = (h \o s) \o m
  <2>1. out[i].size \in Nat
    BY SinkTypes, PartTyped
  <2>2. ~(out[i].size < PART_HEADER_BYTES)
    BY <2>1
  <2> HIDE DEF PART_HEADER_BYTES
  <2> QED
    BY <2>2 DEF PartFile
<1>7. hd \in Tokens /\ hd.ty = "AHED" /\ hd.number = i - 1
  BY <1>1 DEF Tokens
<1> HIDE DEF b, d, n, hd, s, m
<1> DEFINE p == (<<hd>> \o s) \o m
<1>8. PartFile(i) = p
  BY <1>6
<1>9. /\ p \in Seq(Tokens) /\ Len(p) = 1 + Len(s) + Len(m) /\ p[1] = hd
      /\ \A k \in 1..Len(s) : p[1 + k] = s[k]
      /\ \A k \in 1..Len(m) : p[1 + Len(s) + k] = m[k]
  BY <1>4, <1>5, <1>7, ThreeJoined
<1> HIDE DEF p
<1> QED
  BY <1>4, <1>5, <1>7, <1>8, <1>9 DEF b, n, m
-----------------------------------------------------------------------------
(* The streams the reader is handed.                                       *)

LEMMA PartsSeq ==
  ASSUME SinkInv
  PROVE  /\ PartFiles \in Seq(Seq(Tokens)) /\ Len(PartFiles) = Len(out)
         /\ DOMAIN out = 1..Len(out) /\ Len(out) \in Nat
         /\ \A i \in 1..Len(out) : PartFiles[i] = PartFile(i) /\ PartFile(i) \in Seq(Tokens)
<1>1. out \in Seq(PartRecord) /\ DOMAIN out = 1..Len(out) /\ Len(out) \in Nat
  BY SinkTypes
<1>2. ASSUME NEW i \in DOMAIN out PROVE PartFile(i) \in Seq(Tokens)
  <2>1. CASE out[i].size < PART_HEADER_BYTES
    <3> HIDE DEF PART_HEADER_BYTES
    <3>1. PartFile(i) = <<>>
      BY <2>1 DEF PartFile
    <3> QED
      BY <3>1
  <2>2. CASE ~(out[i].size < PART_HEADER_BYTES)
    <3>1. out[i].size \in Nat
      BY <1>1, PartTyped
    <3> QED
      BY <2>2, <3>1, PartShape
  <2> QED
    BY <2>1, <2>2
<1>3. PartFiles = [i \in 1..Len(out) |-> PartFile(i)]
  BY <1>1 DEF PartFiles
<1> QED
  BY <1>1, <1>2, <1>3

LEMMA OnwardFacts ==
  ASSUME SinkInv, NEW i \in 1..(Len(out) + 1)
  PROVE  /\ Onward(i) \in Seq(Tokens)
         /\ i = Len(out) + 1 => Onward(i) = <<>>
         /\ i <= Len(out) => Onward(i) = PartFile(i) \o Onward(i + 1)
<1> DEFINE n == Len(out)
           f == PartFiles
<1>1. /\ f \in Seq(Seq(Tokens)) /\ Len(f) = n /\ n \in Nat
      /\ \A j \in 1..n : f[j] = PartFile(j)
  BY PartsSeq
<1>2. \A j : Onward(j) = FlattenSeq(SubSeq(f, j, n))
  BY DEF Onward
<1> HIDE DEF f, n
<1>3. \A j \in 1..(n + 1) : SubSeq(f, j, n) \in Seq(Seq(Tokens))
  BY <1>1
<1>4. i \in 1..(n + 1)
  BY DEF n
<1>5. Onward(i) \in Seq(Tokens)
  BY <1>2, <1>3, <1>4, FlattenTyped
<1>6. ASSUME i = n + 1 PROVE Onward(i) = <<>>
  <2>1. SubSeq(f, i, n) = <<>>
    BY <1>1, <1>6
  <2> QED
    BY <1>2, <2>1, FlattenEmpty
<1>7. ASSUME i <= n PROVE Onward(i) = PartFile(i) \o Onward(i + 1)
  <2> DEFINE x == f[i]
             w == <<x>>
             v == SubSeq(f, i + 1, n)
  <2>1. i \in 1..n /\ i + 1 \in 1..(n + 1) /\ n \in i..n
    BY <1>1, <1>4, <1>7
  <2>2. x \in Seq(Tokens) /\ w \in Seq(Seq(Tokens)) /\ v \in Seq(Seq(Tokens))
    BY <1>1, <1>3, <2>1
  <2>3. SubSeq(f, i, n) = w \o v
    BY <1>1, <2>1, SubSeqRecursiveFirst
  <2>4. FlattenSeq(w) = x
    BY <2>2, FlattenOne
  <2> HIDE DEF x, w, v
  <2>5. FlattenSeq(w \o v) = FlattenSeq(w) \o FlattenSeq(v)
    BY <2>2, FlattenConcat
  <2>6. Onward(i) = x \o FlattenSeq(v)
    BY <1>2, <2>3, <2>4, <2>5
  <2> QED
    BY <1>1, <1>2, <2>1, <2>6 DEF x, v
<1> QED
  BY <1>5, <1>6, <1>7 DEF n

LEMMA StreamFacts ==
  ASSUME SinkInv
  PROVE  /\ Doubled(PartFiles) = <<Onward(1) \o Onward(1)>>
         /\ Joined(PartFiles) = {<<Onward(1)>>}
<1>1. PartFiles \in Seq(Seq(Tokens)) /\ Len(PartFiles) = Len(out)
  BY PartsSeq
<1>2. SubSeq(PartFiles, 1, Len(out)) = PartFiles
  BY <1>1, SubSeqFull
<1>3. Onward(1) = FlattenSeq(PartFiles)
  BY <1>2 DEF Onward
<1>4. FlattenSeq(PartFiles \o PartFiles) = FlattenSeq(PartFiles) \o FlattenSeq(PartFiles)
  BY <1>1, FlattenConcat
<1> QED
  BY <1>3, <1>4 DEF Doubled, Joined

\* A stream that holds the parts in one, if it is one, starts with the first.
LEMMA OneStream ==
  ASSUME SinkInv, InOne
  PROVE  /\ Len(files) = 1
         /\ files[1] = Onward(1) \o (IF Twofold THEN Onward(1) ELSE <<>>)
<1>1. Onward(1) \in Seq(Tokens)
  <2>1. 1 \in 1..(Len(out) + 1)
    BY PartsSeq
  <2> QED
    BY <2>1, OnwardFacts
<1> DEFINE g == Onward(1)
           h == g \o g
<1>2. Twofold => files = <<h>>
  BY StreamFacts DEF Twofold
<1>3. ~Twofold => files = <<g>>
  BY StreamFacts DEF InOne
<1>4. g = g \o <<>>
  BY <1>1, ConcatEmptySeq
<1> HIDE DEF g, h
<1>5. \A y : Len(<<y>>) = 1 /\ <<y>>[1] = y
  OBVIOUS
<1>6. CASE Twofold
  BY <1>2, <1>5, <1>6 DEF h, g
<1>7. CASE ~Twofold
  BY <1>3, <1>4, <1>5, <1>7 DEF g
<1> QED
  BY <1>6, <1>7

LEMMA BehindTyped ==
  ASSUME SinkInv, NEW p \in 0..1, NEW i \in 1..Len(out)
  PROVE  Behind(p, i) \in Seq(Tokens)
<1>1. 1 \in 1..(Len(out) + 1) /\ i + 1 \in 1..(Len(out) + 1)
  BY PartsSeq
<1>2. Onward(1) \in Seq(Tokens) /\ Onward(i + 1) \in Seq(Tokens) /\ <<>> \in Seq(Tokens)
  BY <1>1, OnwardFacts
<1> DEFINE t == IF Twofold /\ p = 0 THEN Onward(1) ELSE <<>>
           u == Onward(i + 1)
<1>3. t \in Seq(Tokens) /\ u \in Seq(Tokens) /\ u \o t \in Seq(Tokens)
  BY <1>2, ConcatProperties
<1> QED
  BY <1>2, <1>3 DEF Behind

\* What is next where the reader stands, and where it stands behind it.
LEMMA NextToken ==
  ASSUME SinkInv, NEW p \in 0..1, NEW i, NEW q, NEW o, NEW r, NEW n, Stands(p, i, q, o, r, n)
  PROVE  /\ i \in 1..Len(out) /\ q \in Nat /\ CutAt(i) \in Nat /\ q <= CutAt(i)
         /\ CutAt(i) <= Len(PartFile(i)) /\ r \in Seq(Tokens)
         /\ q < CutAt(i) => /\ r # <<>> /\ r[1] = PartFile(i)[q + 1]
                            /\ Stands(p, i, q + 1, o, Tail(r), n)
         /\ q = CutAt(i) => r = Behind(p, i)
<1> DEFINE c == CutAt(i)
           s == PartFile(i)
           a == Behind(p, i)
<1>1. i \in 1..Len(out) /\ s \in Seq(Tokens) /\ a \in Seq(Tokens)
  BY PartsSeq, BehindTyped DEF Stands
<1>2. InOne \/ files[i] = SubSeq(s, 1, c)
  BY DEF Stands
<1>3. c \in Nat
  <2>1. CASE InOne
    BY <1>1, <2>1 DEF CutAt
  <2>2. CASE ~InOne
    <3>1. 1..c # {} /\ q \in 1..c /\ c = Len(files[i])
      BY <2>2 DEF Stands, CutAt
    <3>2. files[i] = SubSeq(s, 1, c)
      BY <1>2, <2>2
    <3> QED
      BY <3>1, <3>2
  <2> QED
    BY <2>1, <2>2
<1>4. c \in 0..Len(s) /\ q \in 0..c /\ q \in 1..c
  <2>1. c <= Len(s) /\ q \in 1..c
    BY DEF Stands
  <2> HIDE DEF c, s
  <2> QED
    BY <1>1, <1>3, <2>1
<1>5. r = Left(s, q, c, a)
  BY DEF Stands
<1> HIDE DEF c, s, a
<1> DEFINE l == Left(s, q, c, a)
<1>6. /\ l \in Seq(Tokens)
      /\ q < c => l # <<>> /\ l[1] = s[q + 1] /\ Tail(l) = Left(s, q + 1, c, a)
      /\ q = c => l = a
  BY <1>1, <1>4, TakeToken
<1> HIDE DEF l
<1>8. r = l
  BY <1>5 DEF l
<1>9. /\ r \in Seq(Tokens)
      /\ q < c => r # <<>> /\ r[1] = s[q + 1] /\ Tail(r) = Left(s, q + 1, c, a)
      /\ q = c => r = a
  BY <1>6, <1>8, Zenon
<1>7. ASSUME q < c PROVE Stands(p, i, q + 1, o, Tail(r), n)
  <2>1. q + 1 \in 1..c
    BY <1>3, <1>4, <1>7
  <2> QED
    BY <1>9, <1>7, <2>1 DEF Stands, c, s, a
<1> QED
  BY <1>1, <1>3, <1>4, <1>9, <1>7 DEF c, s, a

\* What the tokens of a part are.
LEMMA TokenAt ==
  ASSUME SinkInv, NEW i \in DOMAIN out, out[i].size >= PART_HEADER_BYTES,
         NEW q \in Nat, q # 0, q < Len(PartFile(i))
  PROVE  LET t == PartFile(i)[q + 1]
             n == FragmentsOf(i)
         IN /\ q <= n => /\ FragmentsBefore(i) + q \in 1..Len(written)
                         /\ t = Framed[FragmentsBefore(i) + q]
                         /\ Passed(i, q) = FragmentsBefore(i) + q - 1
                         /\ Passed(i, q + 1) = FragmentsBefore(i) + q
            /\ q > n => Passed(i, q) = FragmentsBefore(i + 1) /\ Passed(i, q + 1) = FragmentsBefore(i + 1)
            /\ q = n + 1 => \/ out[i].end \in {"anxt", "next"} /\ t.ty = "ANXT"
                            \/ out[i].end = "last" /\ t.ty = "AEND" /\ q + 1 = Len(PartFile(i))
            /\ q > n + 1 => out[i].end = "next" /\ q + 1 = Len(PartFile(i)) /\ t.ty = "AEND"
<1> DEFINE n == FragmentsOf(i)
           b == FragmentsBefore(i)
           e == out[i].end
           m == MarkersOf(e)
           s == PartFile(i)
<1>1. i \in Nat /\ e \in Endings
  BY SinkTypes, PartTyped
<1>2. b \in Nat /\ n \in Nat /\ b + n = FragmentsBefore(i + 1) /\ b + n <= Len(written) /\ Len(written) \in Nat
  <2>1. /\ b \in 0..Len(written) /\ FragmentsBefore(i + 1) \in b..Len(written)
        /\ n \in Nat /\ b + n = FragmentsBefore(i + 1)
    BY <1>1, BeforeFacts
  <2>2. Len(written) \in Nat
    BY SinkTypes
  <2> HIDE DEF b, n
  <2> QED
    BY <2>1, <2>2
<1>3. /\ Len(s) = 1 + n + m
      /\ \A k \in 1..n : s[1 + k] = Framed[b + k]
      /\ \A k \in 1..m : s[1 + n + k] = Markers[e][k]
  BY PartShape
<1>4. /\ m \in 0..2
      /\ e \in {"anxt", "next"} => Markers[e][1].ty = "ANXT"
      /\ e = "next" => Markers[e][2].ty = "AEND"
      /\ e = "last" => Markers[e][1].ty = "AEND"
      /\ m = IF e = "open" THEN 0 ELSE IF e = "next" THEN 2 ELSE 1
  BY <1>1, MarkerFacts DEF MarkersOf
<1>5. Passed(i, q) = b + (IF q - 1 <= n THEN q - 1 ELSE n)
      /\ Passed(i, q + 1) = b + (IF (q + 1) - 1 <= n THEN (q + 1) - 1 ELSE n)
  BY DEF Passed
<1> HIDE DEF n, b, e, m, s
<1>6. CASE q <= n
  <2>1. q \in 1..n /\ 1 + q = q + 1 /\ b + q \in 1..Len(written) /\ q - 1 <= n /\ (q + 1) - 1 = q
    BY <1>2, <1>6
  <2>2. s[q + 1] = Framed[b + q]
    BY <1>3, <2>1
  <2>3. Passed(i, q) = b + q - 1 /\ Passed(i, q + 1) = b + q
    BY <1>2, <1>5, <1>6, <2>1
  <2> QED
    BY <1>2, <1>6, <2>1, <2>2, <2>3 DEF n, b, s
<1>7. CASE q > n
  <2>1. Passed(i, q) = b + n /\ Passed(i, q + 1) = b + n
    BY <1>2, <1>5, <1>7
  <2>2. q < 1 + n + m
    BY <1>3 DEF s
  <2>3. ASSUME q = n + 1
        PROVE  \/ e \in {"anxt", "next"} /\ s[q + 1].ty = "ANXT"
               \/ e = "last" /\ s[q + 1].ty = "AEND" /\ q + 1 = Len(s)
    <3>1. 1 \in 1..m /\ e # "open" /\ q + 1 = 1 + n + 1
      BY <1>2, <1>4, <2>2, <2>3
    <3>2. s[q + 1] = Markers[e][1]
      BY <1>3, <3>1
    <3>3. e \in {"anxt", "next", "last"}
      BY <1>1, <3>1
    <3>4. e = "last" => m = 1
      BY <1>4
    <3> QED
      BY <1>2, <1>3, <1>4, <2>3, <3>2, <3>3, <3>4
  <2>4. ASSUME q > n + 1
        PROVE  e = "next" /\ q + 1 = Len(s) /\ s[q + 1].ty = "AEND"
    <3>1. m = 2 /\ q + 1 = 1 + n + 2 /\ 2 \in 1..m
      BY <1>2, <1>4, <2>2, <2>4
    <3>2. s[q + 1] = Markers[e][2] /\ e = "next"
      BY <1>3, <1>4, <3>1
    <3> QED
      BY <1>3, <1>4, <3>1, <3>2
  <2>5. ~(q <= n)
    BY <1>2, <1>7
  <2> QED
    BY <1>2, <2>1, <2>3, <2>4, <2>5 DEF n, b, e, s
<1> QED
  BY <1>2, <1>6, <1>7

\* A reader that has come to the end of what it was given is behind the part
\* of a writer that failed, or in a part that is cut short.
LEMMA NothingLeft ==
  ASSUME SinkInv, NEW p \in 0..1, NEW i, NEW q, NEW o, NEW r, NEW n, NEW x, NEW b, NEW its,
         InItems(p, i, q, o, r, n, x, its, b), q = CutAt(i)
  PROVE  r = <<>> /\ ~Whole
<1>1. /\ Stands(p, i, q, o, r, n)
      /\ out[i].end \in {"next", "last"} => q < Len(PartFile(i))
  BY DEF InItems
<1>2. i \in 1..Len(out) /\ r = Behind(p, i)
  BY <1>1, NextToken
<1>3. /\ out \in Seq(PartRecord) /\ DOMAIN out = 1..Len(out) /\ Len(out) \in Nat
      /\ \A j \in 1..(Len(out) - 1) : out[j].end = "next"
      /\ pc = "done" => out[Len(out)].end = "last"
  <2>1. SinkInv => PartsChained
    BY OrderImplies DEF SinkInv, PartsInOrder
  <2> QED
    BY <2>1, SinkTypes DEF PartsChained
<1>4. pc = "done" => out[i].end \in {"next", "last"}
  BY <1>2, <1>3
<1>5. CASE InOne
  <2>1. q = Len(PartFile(i))
    BY <1>5 DEF CutAt
  <2>2. out[i].end \notin {"next", "last"}
    <3> DEFINE l == Len(PartFile(i))
    <3>1. l \in Nat
      BY <1>2, PartsSeq
    <3> HIDE DEF l
    <3>2. q = l /\ ~(l < l)
      BY <2>1, <3>1 DEF l
    <3> QED
      BY <1>1, <3>2 DEF l
  <2>3. pc # "done" /\ i = Len(out)
    <3>1. i \in 1..(Len(out) - 1) => out[i].end = "next"
      BY <1>3
    <3>2. i \notin 1..(Len(out) - 1)
      BY <2>2, <3>1
    <3>3. i = Len(out)
      <4>1. Len(out) \in Nat /\ i \in 1..Len(out)
        BY <1>2, <1>3
      <4> QED
        BY <3>2, <4>1
    <3>4. pc # "done"
      BY <1>4, <2>2
    <3> QED
      BY <3>3, <3>4
  <2>4. ~Twofold /\ ~Whole
    BY <2>3 DEF Twofold, Whole
  <2>5. Onward(i + 1) = <<>>
    <3>1. i + 1 \in 1..(Len(out) + 1) /\ i + 1 = Len(out) + 1
      BY <1>3, <2>3
    <3> QED
      BY <3>1, OnwardFacts
  <2> HIDE DEF Twofold
  <2>6. Behind(p, i) = <<>> \o <<>>
    BY <1>5, <2>4, <2>5 DEF Behind
  <2>7. <<>> \o <<>> = <<>>
    OBVIOUS
  <2> QED
    BY <1>2, <2>4, <2>6, <2>7
<1>6. CASE ~InOne
  <2>1. r = <<>>
    BY <1>2, <1>6 DEF Behind
  <2>2. ASSUME Whole PROVE FALSE
    <3>1. pc = "done" /\ files = PartFiles
      BY <1>6, <2>2 DEF Whole, InOne, Twofold
    <3>2. files[i] = PartFile(i)
      BY <1>2, <3>1, PartsSeq
    <3>3. q = Len(PartFile(i))
      BY <1>6, <3>2 DEF CutAt
    <3> DEFINE l == Len(PartFile(i))
    <3>4. l \in Nat
      BY <1>2, PartsSeq
    <3> HIDE DEF l
    <3>5. q = l /\ ~(l < l)
      BY <3>3, <3>4 DEF l
    <3> QED
      BY <1>1, <1>4, <3>1, <3>5 DEF l
  <2> QED
    BY <2>1, <2>2
<1> QED
  BY <1>5, <1>6
-----------------------------------------------------------------------------
(* What the reader has got.                                                *)

LEMMA GotTyped ==
  ASSUME SinkInv, NEW p, NEW r0, NEW r, NEW its, NEW b, Got(p, r0, r, its, b)
  PROVE  /\ Len(written) \in Nat /\ r \in 0..Len(written) /\ r0 \in 0..r /\ b \in Seq(Tokens)
         /\ b = SubSeq(Framed, r0 + 1, r)
         /\ r # r0 => ~Closes(Framed[r])
<1>1. Framed \in Seq(Tokens) /\ Len(Framed) = Len(written) /\ Len(written) \in Nat
  BY FramedFacts
<1>2. r \in 0..Len(written) /\ r0 \in 0..r /\ b = SubSeq(Framed, r0 + 1, r)
      /\ \A k \in (r0 + 1)..r : ~Closes(Framed[k])
  BY DEF Got
<1>3. \A k \in (r0 + 1)..r : Framed[k] \in Tokens
  BY <1>1, <1>2
<1>4. b \in Seq(Tokens)
  BY <1>1, <1>2, <1>3, SubSeqProperties
<1>5. r # r0 => r \in (r0 + 1)..r
  BY <1>1, <1>2
<1> QED
  BY <1>1, <1>2, <1>4, <1>5

\* One more fragment.
LEMMA OneMore ==
  ASSUME SinkInv, NEW r \in 0..Len(written), NEW r0 \in 0..r, r # Len(written)
  PROVE  /\ Append(SubSeq(Framed, r0 + 1, r), Framed[r + 1]) = SubSeq(Framed, r0 + 1, r + 1)
         /\ SubSeq(Framed, r0 + 1, r + 1) \in Seq(Tokens)
         /\ Len(SubSeq(Framed, r0 + 1, r + 1)) = r + 1 - r0
         /\ \A k \in 1..(r + 1 - r0) : SubSeq(Framed, r0 + 1, r + 1)[k] = Framed[r0 + k]
<1>1. Framed \in Seq(Tokens) /\ Len(Framed) = Len(written) /\ Len(written) \in Nat
  BY FramedFacts
<1> DEFINE f == Framed
           n == Len(written)
           s == SubSeq(f, r0 + 1, r)
           t == SubSeq(f, r0 + 1, r + 1)
<1>2. n \in Nat /\ r \in 0..n /\ r + 1 \in 1..n /\ r0 + 1 \in 1..n /\ r + 1 \in (r0 + 1)..n
  BY <1>1
<1> HIDE DEF f, n
<1>3. f \in Seq(Tokens) /\ Len(f) = n
  BY <1>1 DEF f, n
<1>4. \A k \in (r0 + 1)..(r + 1) : f[k] \in Tokens
  BY <1>2, <1>3
<1>5. /\ s \in Seq(Tokens) /\ Len(s) = r - r0
      /\ t \in Seq(Tokens) /\ Len(t) = r + 1 - r0
      /\ \A k \in 1..(r - r0) : s[k] = f[r0 + k]
      /\ \A k \in 1..(r + 1 - r0) : t[k] = f[r0 + k]
  <2>1. r0 + 1 \in Int /\ r \in Int /\ r + 1 \in Int /\ \A k \in (r0 + 1)..r : f[k] \in Tokens
    BY <1>2, <1>4
  <2>2. /\ s \in Seq(Tokens) /\ Len(s) = IF r0 + 1 <= r THEN r - (r0 + 1) + 1 ELSE 0
        /\ \A k \in 1..(r - (r0 + 1) + 1) : s[k] = f[(r0 + 1) + k - 1]
    BY <2>1, SubSeqProperties
  <2>3. /\ t \in Seq(Tokens) /\ Len(t) = IF r0 + 1 <= r + 1 THEN (r + 1) - (r0 + 1) + 1 ELSE 0
        /\ \A k \in 1..((r + 1) - (r0 + 1) + 1) : t[k] = f[(r0 + 1) + k - 1]
    BY <1>4, <2>1, SubSeqProperties
  <2> HIDE DEF s, t
  <2>4. r - (r0 + 1) + 1 = r - r0 /\ (r + 1) - (r0 + 1) + 1 = r + 1 - r0
        /\ \A k \in Int : (r0 + 1) + k - 1 = r0 + k
    BY <1>2
  <2> QED
    BY <1>2, <2>2, <2>3, <2>4
<1> HIDE DEF s, t
<1> DEFINE x == f[r + 1]
           u == Append(s, x)
<1>6. x \in Tokens
  BY <1>2, <1>4
<1> HIDE DEF x
<1>7. u \in Seq(Tokens) /\ Len(u) = Len(t) /\ u[r - r0 + 1] = x /\ \A k \in 1..(r - r0) : u[k] = s[k]
  BY <1>2, <1>5, <1>6, AppendProperties
<1> HIDE DEF u
<1>8. \A k \in 1..Len(u) : u[k] = t[k]
  <2> SUFFICES ASSUME NEW k \in 1..Len(u) PROVE u[k] = t[k]
    OBVIOUS
  <2>1. k \in 1..(r + 1 - r0) /\ t[k] = f[r0 + k]
    BY <1>5, <1>7
  <2>2. CASE k \in 1..(r - r0)
    BY <1>5, <1>7, <2>1, <2>2
  <2>3. CASE k = r - r0 + 1
    <3>1. r0 + k = r + 1
      BY <1>2, <2>3
    <3> QED
      BY <1>7, <2>1, <2>3, <3>1 DEF x
  <2> QED
    BY <1>2, <2>1, <2>2, <2>3
<1>9. u = t
  BY <1>5, <1>7, <1>8, SeqEqual
<1> QED
  BY <1>5, <1>9 DEF u, t, s, x, f

LEMMA GotOther ==
  ASSUME SinkInv, NEW p, NEW r0, NEW r, NEW its, NEW b, Got(p, r0, r, its, b),
         r + 1 \in 1..Len(written), ~Closes(Framed[r + 1])
  PROVE  Got(p, r0, r + 1, its, Append(b, Framed[r + 1]))
<1>1. Len(written) \in Nat /\ r \in 0..Len(written) /\ r0 \in 0..r /\ b = SubSeq(Framed, r0 + 1, r)
  BY GotTyped
<1>2. r + 1 \in 0..Len(written) /\ r0 \in 0..(r + 1) /\ r # Len(written)
  BY <1>1
<1>3. Append(b, Framed[r + 1]) = SubSeq(Framed, r0 + 1, r + 1)
  BY <1>1, <1>2, OneMore
<1>4. \A k \in (r0 + 1)..(r + 1) : ~Closes(Framed[k])
  <2>1. \A k \in (r0 + 1)..(r + 1) : k \in (r0 + 1)..r \/ k = r + 1
    BY <1>1
  <2> QED
    BY <2>1 DEF Got
<1> QED
  BY <1>2, <1>3, <1>4 DEF Got

LEMMA ClosersFacts ==
  ASSUME SinkInv, NEW r \in 0..Len(written)
  PROVE  IsFiniteSet(ClosersTo(r)) /\ Cardinality(ClosersTo(r)) \in Nat
<1>1. r \in Nat
  BY SinkTypes
<1>2. IsFiniteSet(1..r) /\ ClosersTo(r) \in SUBSET (1..r)
  BY <1>1, FS_Interval DEF ClosersTo
<1> QED
  BY <1>2, FS_Subset, FS_CardinalityType

\* The item that a fragment closes.
LEMMA GotEnd ==
  ASSUME SinkInv, NEW p, NEW r0, NEW r, NEW its, NEW b, Got(p, r0, r, its, b),
         r + 1 \in 1..Len(written), Closes(Framed[r + 1])
  PROVE  Got(p, r + 1, r + 1, Append(its, Append(b, Framed[r + 1])), <<>>)
<1> DEFINE f == Framed
           y == Append(b, f[r + 1])
           new == Append(its, y)
<1>1. Len(written) \in Nat /\ r \in 0..Len(written) /\ r0 \in 0..r /\ b = SubSeq(f, r0 + 1, r)
  BY GotTyped
<1>2. r + 1 \in 0..Len(written) /\ r + 1 \in 0..(r + 1) /\ r # Len(written) /\ r + 1 # 0
  BY <1>1
<1>3. /\ y = SubSeq(f, r0 + 1, r + 1) /\ y \in Seq(Tokens) /\ Len(y) = r + 1 - r0
      /\ \A k \in 1..(r + 1 - r0) : y[k] = f[r0 + k]
  BY <1>1, <1>2, OneMore
<1>4. /\ its \in Seq(Seq(Tokens))
      /\ FlattenSeq(its) = (IF p = 1 THEN f ELSE <<>>) \o SubSeq(f, 1, r0)
      /\ \A k \in (r0 + 1)..r : ~Closes(f[k])
      /\ Len(its) = p * Written + Cardinality(ClosersTo(r0))
      /\ \A k \in DOMAIN its : {c \in DOMAIN its[k] : Closes(its[k][c])} = {Len(its[k])}
      /\ p \in 0..1
      /\ p = 1 => Twofold /\ concatenated /\ Complete
  BY DEF Got
<1>5. f \in Seq(Tokens) /\ Len(f) = Len(written)
  BY FramedFacts
<1> HIDE DEF y
<1>6. new \in Seq(Seq(Tokens)) /\ Len(new) = Len(its) + 1 /\ new[Len(its) + 1] = y
      /\ \A k \in 1..Len(its) : new[k] = its[k]
  <2>1. y \in Seq(Tokens) /\ its \in Seq(Seq(Tokens))
    BY <1>3, <1>4
  <2> QED
    BY <2>1, AppendProperties
<1>7. FlattenSeq(new) = (IF p = 1 THEN f ELSE <<>>) \o SubSeq(f, 1, r + 1)
  <2> DEFINE a == IF p = 1 THEN f ELSE <<>>
             s == SubSeq(f, 1, r0)
             t == SubSeq(f, 1, r + 1)
  <2>1. FlattenSeq(new) = FlattenSeq(its) \o y
    <3>1. its \in Seq(Seq(Tokens)) /\ y \in Seq(Tokens)
      BY <1>3, <1>4
    <3> QED
      BY <3>1, FlattenAppend
  <2>2. FlattenSeq(its) = a \o s
    BY <1>4
  <2>3. a \in Seq(Tokens)
    BY <1>5
  <2>4. s \in Seq(Tokens)
    BY <1>1, <1>5
  <2>5. s \o y = t
    <3>1. 1 \in 1..(Len(f) + 1) /\ r0 \in (1 - 1)..Len(f) /\ r + 1 \in r0..Len(f)
      BY <1>1, <1>2, <1>5
    <3> HIDE DEF f
    <3> QED
      BY <1>3, <1>5, <3>1, ConcatAdjacentSubSeq
  <2> HIDE DEF a, s, t
  <2>6. (a \o s) \o y = a \o (s \o y)
    <3>1. y \in Seq(Tokens)
      BY <1>3
    <3> HIDE DEF new
    <3> QED
      BY <2>3, <2>4, <3>1, Associates
  <2>7. FlattenSeq(new) = a \o t
    BY <2>1, <2>2, <2>5, <2>6, Zenon
  <2> QED
    BY <2>7 DEF a, t
<1>8. Len(new) = p * Written + Cardinality(ClosersTo(r + 1))
  <2>1. ClosersTo(r + 1) = ClosersTo(r0) \cup {r + 1} /\ r + 1 \notin ClosersTo(r0)
    <3>1. ASSUME NEW k \in 1..(r + 1), Closes(f[k]) PROVE (k \in 1..r0) \/ k = r + 1
      <4>1. k \notin (r0 + 1)..r
        BY <1>4, <3>1, Zenon
      <4>2. r \in Nat /\ r0 \in 0..r
        BY <1>1
      <4> QED
        BY <3>1, <4>1, <4>2
    <3>2. \A k \in 1..r0 : k \in 1..(r + 1) /\ k # r + 1
      BY <1>1
    <3>3. r + 1 \in 1..(r + 1) /\ Closes(f[r + 1])
      BY <1>1
    <3> QED
      BY <3>1, <3>2, <3>3 DEF ClosersTo
  <2>2. r0 \in 0..Len(written)
    BY <1>1
  <2>3. IsFiniteSet(ClosersTo(r0)) /\ Cardinality(ClosersTo(r0)) \in Nat
    BY <2>2, ClosersFacts
  <2>4. Cardinality(ClosersTo(r + 1)) = Cardinality(ClosersTo(r0)) + 1
    BY <2>1, <2>3, FS_AddElement
  <2> DEFINE c == Cardinality(ClosersTo(r0))
             w == p * Written
  <2>5. Len(its) = w + c /\ Len(its) \in Nat
    BY <1>4
  <2> HIDE DEF c, w
  <2>6. c \in Nat
    BY <2>3 DEF c
  <2>7. w \in Nat
    <3>1. p \in 0..1
      BY <1>4, Zenon
    <3>2. Written \in Nat
      <4>1. IsFiniteSet(DOMAIN accepted) /\ EntryEnds \in SUBSET DOMAIN accepted
        <5>1. accepted \in Seq(Inputs) /\ DOMAIN accepted = 1..Len(accepted) /\ Len(accepted) \in Nat
          BY SinkTypes
        <5> QED
          BY <5>1, FS_Interval DEF EntryEnds
      <4>2. IsFiniteSet(EntryEnds)
        BY <4>1, FS_Subset
      <4> QED
        BY <4>2, FS_CardinalityType DEF Written
    <3> QED
      BY <3>1, <3>2 DEF w
  <2>8. w + c + 1 = w + (c + 1)
    BY <2>6, <2>7
  <2> QED
    BY <1>6, <2>4, <2>5, <2>8 DEF c, w
<1>9. \A k \in DOMAIN new : {c \in DOMAIN new[k] : Closes(new[k][c])} = {Len(new[k])}
  <2>1. {c \in DOMAIN y : Closes(y[c])} = {Len(y)}
    <3>1. DOMAIN y = 1..(r + 1 - r0) /\ r0 + (r + 1 - r0) = r + 1
      BY <1>1, <1>3
    <3>2. ASSUME NEW c \in 1..(r + 1 - r0) PROVE Closes(y[c]) <=> c = r + 1 - r0
      <4>1. y[c] = f[r0 + c]
        BY <1>3
      <4>2. CASE c = r + 1 - r0
        BY <3>1, <4>1, <4>2
      <4>3. CASE c # r + 1 - r0
        <5>1. r0 + c \in (r0 + 1)..r
          BY <1>1, <4>3
        <5> QED
          BY <1>4, <4>1, <4>3, <5>1
      <4> QED
        BY <4>2, <4>3
    <3>3. r + 1 - r0 \in 1..(r + 1 - r0)
      BY <1>1
    <3> QED
      BY <1>3, <3>1, <3>2, <3>3
  <2>2. \A k \in DOMAIN new : (k \in DOMAIN its /\ new[k] = its[k]) \/ new[k] = y
    BY <1>4, <1>6
  <2> HIDE DEF new
  <2> QED
    BY <1>4, <2>1, <2>2
<1>10. SubSeq(f, (r + 1) + 1, r + 1) = <<>>
  BY <1>1, SubSeqEmpty
<1>11. \A k \in ((r + 1) + 1)..(r + 1) : ~Closes(f[k])
  BY <1>1
<1> HIDE DEF new
<1>12. Got(p, r + 1, r + 1, new, <<>>)
  BY <1>2, <1>4, <1>6, <1>7, <1>8, <1>9, <1>10, <1>11 DEF Got
<1> QED
  BY <1>12 DEF new, y
-----------------------------------------------------------------------------
(* What the reader does with the next token.                               *)

LEMMA Inside ==
  ASSUME SinkInv, NEW p \in 0..1, NEW i, NEW q, NEW o, NEW r, NEW n, NEW x, NEW b, NEW its,
         InItems(p, i, q, o, r, n, x, its, b), r # <<>>
  PROVE  /\ i \in DOMAIN out /\ i \in 1..Len(out) /\ out[i].size >= PART_HEADER_BYTES
         /\ q \in Nat /\ q # 0 /\ q < Len(PartFile(i)) /\ Len(PartFile(i)) \in Nat
         /\ q + 1 \in 1..Len(PartFile(i))
         /\ FragmentsOf(i) \in Nat /\ FragmentsBefore(i) \in Nat
         /\ Len(PartFile(i)) = 1 + FragmentsOf(i) + MarkersOf(out[i].end)
         /\ out[i].end \in Endings
         /\ r[1] = PartFile(i)[q + 1]
         /\ Stands(p, i, q + 1, o, Tail(r), n)
<1>1. Stands(p, i, q, o, r, n)
  BY DEF InItems
<1>2. /\ i \in 1..Len(out) /\ q \in Nat /\ CutAt(i) \in Nat /\ q <= CutAt(i)
      /\ CutAt(i) <= Len(PartFile(i))
      /\ q < CutAt(i) => r # <<>> /\ r[1] = PartFile(i)[q + 1] /\ Stands(p, i, q + 1, o, Tail(r), n)
  BY <1>1, NextToken
<1>3. q # CutAt(i)
  BY NothingLeft
<1>4. i \in DOMAIN out /\ PartFile(i) \in Seq(Tokens) /\ i \in Nat
  BY <1>2, PartsSeq
<1>5. q \in 1..CutAt(i) /\ out[i].size >= PART_HEADER_BYTES
  BY <1>1 DEF Stands
<1>6. /\ FragmentsOf(i) \in Nat /\ FragmentsBefore(i) \in Nat
      /\ Len(PartFile(i)) = 1 + FragmentsOf(i) + MarkersOf(out[i].end)
      /\ out[i].end \in Endings
  <2>1. FragmentsBefore(i) \in 0..Len(written) /\ FragmentsOf(i) \in Nat /\ Len(written) \in Nat
    BY <1>4, BeforeFacts, SinkTypes
  <2>2. out[i] \in PartRecord
    BY <1>4, SinkTypes
  <2> QED
    BY <1>4, <1>5, <2>1, <2>2, PartShape, PartTyped
<1> DEFINE l == Len(PartFile(i))
           c == CutAt(i)
<1>7. l \in Nat
  BY <1>4
<1> HIDE DEF l, c
<1>8. q < c /\ q < l /\ q + 1 \in 1..l /\ q # 0
  <2>1. q \in Nat /\ c \in Nat /\ q <= c /\ c <= l /\ q # c /\ q \in 1..c
    BY <1>2, <1>3, <1>5 DEF l, c
  <2> QED
    BY <1>7, <2>1
<1> QED
  BY <1>2, <1>4, <1>5, <1>6, <1>7, <1>8 DEF l, c

LEMMA FragmentRead ==
  ASSUME SinkInv, NEW p \in 0..1, NEW i, NEW q, NEW o, NEW r, NEW n, NEW x, NEW b, NEW its,
         InItems(p, i, q, o, r, n, x, its, b), r # <<>>, r[1].ty \notin {"ANXT", "AEND"}
  PROVE  /\ ~Closes(r[1]) => InItems(p, i, q + 1, o, Tail(r), n, x, its, Append(b, r[1]))
         /\ Closes(r[1]) => InItems(p, i, q + 1, o, Tail(r), n, x, Append(its, Append(b, r[1])), <<>>)
<1> DEFINE l == Len(PartFile(i))
           f == FragmentsOf(i)
           e == out[i].end
           bf == FragmentsBefore(i)
<1>1. /\ i \in DOMAIN out /\ out[i].size >= PART_HEADER_BYTES
      /\ q \in Nat /\ q # 0 /\ q < l /\ f \in Nat /\ bf \in Nat /\ e \in Endings
      /\ l = 1 + f + MarkersOf(e)
      /\ r[1] = PartFile(i)[q + 1]
      /\ Stands(p, i, q + 1, o, Tail(r), n)
  BY Inside
<1>2. /\ q <= f => /\ bf + q \in 1..Len(written)
                   /\ r[1] = Framed[bf + q]
                   /\ Passed(i, q) = bf + q - 1
                   /\ Passed(i, q + 1) = bf + q
      /\ q = f + 1 => r[1].ty \in {"ANXT", "AEND"}
      /\ q > f + 1 => r[1].ty = "AEND"
  BY <1>1, TokenAt
<1>3. /\ x <=> e \in {"anxt", "next"} /\ q >= f + 2
      /\ \E r0 \in 0..Len(written) : Got(p, r0, Passed(i, q), its, b)
  BY DEF InItems
<1> HIDE DEF l, f, e, bf
<1>4. q <= f
  BY <1>1, <1>2
<1>5. /\ x <=> e \in {"anxt", "next"} /\ q + 1 >= f + 2
      /\ e \in {"next", "last"} => q + 1 < l
  BY <1>1, <1>3, <1>4 DEF MarkersOf
<1>6. PICK r0 \in 0..Len(written) : Got(p, r0, Passed(i, q), its, b)
  BY <1>3
<1> DEFINE k == Passed(i, q)
<1>7. k + 1 \in 1..Len(written) /\ r[1] = Framed[k + 1] /\ Passed(i, q + 1) = k + 1
      /\ k + 1 \in 0..Len(written)
  <2>1. bf + q - 1 + 1 = bf + q
    BY <1>1
  <2>2. Len(written) \in Nat
    BY SinkTypes
  <2> QED
    BY <1>1, <1>2, <1>4, <2>1, <2>2
<1> HIDE DEF k
<1>8. Got(p, r0, k, its, b)
  BY <1>6 DEF k
<1>9. ASSUME ~Closes(r[1]) PROVE InItems(p, i, q + 1, o, Tail(r), n, x, its, Append(b, r[1]))
  <2>1. Got(p, r0, k + 1, its, Append(b, Framed[k + 1]))
    BY <1>7, <1>8, <1>9, GotOther
  <2>2. \E r1 \in 0..Len(written) : Got(p, r1, Passed(i, q + 1), its, Append(b, r[1]))
    BY <1>7, <2>1
  <2> QED
    BY <1>1, <1>5, <2>2, Zenon DEF InItems, l, f, e
<1>10. ASSUME Closes(r[1]) PROVE InItems(p, i, q + 1, o, Tail(r), n, x, Append(its, Append(b, r[1])), <<>>)
  <2>1. Got(p, k + 1, k + 1, Append(its, Append(b, Framed[k + 1])), <<>>)
    BY <1>7, <1>8, <1>10, GotEnd
  <2>2. \E r1 \in 0..Len(written) : Got(p, r1, Passed(i, q + 1), Append(its, Append(b, r[1])), <<>>)
    BY <1>7, <2>1
  <2> QED
    BY <1>1, <1>5, <2>2, Zenon DEF InItems, l, f, e
<1> QED
  BY <1>9, <1>10

LEMMA MarkerRead ==
  ASSUME SinkInv, NEW p \in 0..1, NEW i, NEW q, NEW o, NEW r, NEW n, NEW x, NEW b, NEW its,
         InItems(p, i, q, o, r, n, x, its, b), r # <<>>
  PROVE  /\ r[1].ty = "ANXT" => InItems(p, i, q + 1, o, Tail(r), n, TRUE, its, b)
         /\ r[1].ty = "AEND" => AtEnd(p, i, o, Tail(r), n, x, its, b)
<1> DEFINE l == Len(PartFile(i))
           f == FragmentsOf(i)
           e == out[i].end
           bf == FragmentsBefore(i)
<1>1. /\ i \in DOMAIN out /\ i \in 1..Len(out) /\ out[i].size >= PART_HEADER_BYTES
      /\ q \in Nat /\ q # 0 /\ q < l /\ f \in Nat /\ bf \in Nat /\ e \in Endings
      /\ l = 1 + f + MarkersOf(e)
      /\ r[1] = PartFile(i)[q + 1]
      /\ Stands(p, i, q + 1, o, Tail(r), n)
  BY Inside
<1> DEFINE t == PartFile(i)[q + 1]
<1>2. /\ q <= f => bf + q \in 1..Len(written) /\ t = Framed[bf + q]
      /\ q > f => Passed(i, q) = FragmentsBefore(i + 1) /\ Passed(i, q + 1) = FragmentsBefore(i + 1)
      /\ q = f + 1 => \/ e \in {"anxt", "next"} /\ t.ty = "ANXT"
                      \/ e = "last" /\ t.ty = "AEND" /\ q + 1 = l
      /\ q > f + 1 => e = "next" /\ q + 1 = l /\ t.ty = "AEND"
  BY <1>1, TokenAt
<1>3. /\ x <=> e \in {"anxt", "next"} /\ q >= f + 2
      /\ \E r0 \in 0..Len(written) : Got(p, r0, Passed(i, q), its, b)
  BY DEF InItems
<1>4. \A k \in 1..Len(written) : Framed[k].ty \in ChunkTypes
  BY FramedFacts
<1>8. r[1] = t
  BY <1>1
<1> HIDE DEF l, f, e, bf, t
<1>5. r[1].ty \in {"ANXT", "AEND"} => q > f
  <2>1. CASE q <= f
    <3>1. r[1].ty \in ChunkTypes
      BY <1>2, <1>4, <1>8, <2>1
    <3> QED
      BY <3>1 DEF ChunkTypes, StreamTypes
  <2>2. CASE q > f
    BY <2>2
  <2> QED
    BY <1>1, <2>1, <2>2
<1>6. ASSUME r[1].ty = "ANXT" PROVE InItems(p, i, q + 1, o, Tail(r), n, TRUE, its, b)
  <2>1. q = f + 1 /\ e \in {"anxt", "next"}
    BY <1>1, <1>2, <1>5, <1>6, <1>8
  <2>2. q + 1 >= f + 2 /\ (e \in {"next", "last"} => q + 1 < l)
    BY <1>1, <2>1 DEF MarkersOf
  <2>3. Passed(i, q + 1) = Passed(i, q)
    BY <1>2, <1>5, <1>6
  <2> QED
    BY <1>1, <1>3, <2>1, <2>2, <2>3 DEF InItems, l, f, e
<1>7. ASSUME r[1].ty = "AEND" PROVE AtEnd(p, i, o, Tail(r), n, x, its, b)
  <2>1. q + 1 = l /\ ((q = f + 1 /\ e = "last") \/ (q > f + 1 /\ e = "next"))
    BY <1>1, <1>2, <1>5, <1>7, <1>8
  <2>2. e \in {"next", "last"} /\ (x <=> e = "next")
    BY <1>1, <1>3, <2>1
  <2>3. Passed(i, q) = FragmentsBefore(i + 1)
    BY <1>2, <1>5, <1>7
  <2>4. Stands(p, i, l, o, Tail(r), n)
    BY <1>1, <2>1
  <2> QED
    BY <1>3, <2>2, <2>3, <2>4 DEF AtEnd, l, e
<1> QED
  BY <1>6, <1>7
-----------------------------------------------------------------------------
(* How the reader comes into a part.                                       *)

\* The stream that the i-th part is read from.
Source(p, i) == IF InOne THEN PartFile(i) \o Behind(p, i) ELSE files[i]

LEMMA EnteredParts ==
  ASSUME SinkInv, NEW p \in 0..1, NEW i \in 1..Len(out), NEW its, NEW b, NEW r0 \in 0..Len(written),
         Got(p, r0, FragmentsBefore(i), its, b), NEW o, NEW r, Stands(p, i, 1, o, r, i - 1)
  PROVE  InItems(p, i, 1, o, r, i - 1, FALSE, its, b)
<1> DEFINE l == Len(PartFile(i))
           f == FragmentsOf(i)
           e == out[i].end
           bf == FragmentsBefore(i)
<1>1. i \in DOMAIN out /\ i \in Nat /\ out[i].size >= PART_HEADER_BYTES
  BY PartsSeq DEF Stands
<1>2. bf \in Nat /\ f \in Nat /\ e \in Endings /\ l = 1 + f + MarkersOf(e)
  <2>1. bf \in 0..Len(written) /\ f \in Nat /\ Len(written) \in Nat
    BY <1>1, BeforeFacts, SinkTypes
  <2>2. out[i] \in PartRecord
    BY <1>1, SinkTypes
  <2> HIDE DEF bf
  <2> QED
    BY <1>1, <2>1, <2>2, PartShape, PartTyped
<1>3. Passed(i, 1) = bf + (IF 1 - 1 <= f THEN 1 - 1 ELSE f)
  BY DEF Passed
<1> HIDE DEF l, f, e, bf
<1>4. Passed(i, 1) = bf /\ ~(1 >= f + 2) /\ (e \in {"next", "last"} => 1 < l)
  BY <1>2, <1>3 DEF MarkersOf
<1>5. \E r1 \in 0..Len(written) : Got(p, r1, Passed(i, 1), its, b)
  BY <1>4 DEF bf
<1> QED
  BY <1>4, <1>5 DEF InItems, l, f, e

\* A stream that has the right number is the part.
LEMMA SourceStands ==
  ASSUME SinkInv, Delivered, NEW p \in 0..1, NEW i \in 1..Len(out), InOne \/ i <= Len(files),
         R!Starts(Source(p, i)), i = 1 \/ Source(p, i)[1].number = i - 1
  PROVE  /\ Stands(p, i, 1, IF InOne THEN 1 ELSE i, Tail(Source(p, i)), i - 1)
         /\ Source(p, i)[1].number = i - 1
<1> DEFINE s == PartFile(i)
           t == Source(p, i)
<1>1. /\ t # <<>> /\ t[1].ty = "AHED" /\ i \in DOMAIN out
      /\ s \in Seq(Tokens) /\ Len(s) \in Nat /\ Behind(p, i) \in Seq(Tokens)
      /\ out[i].size \in Nat /\ DOMAIN out = 1..Len(out)
  BY PartsSeq, BehindTyped, SinkTypes, PartTyped DEF R!Starts
<1>2. \A j \in 1..Len(out) : PartFile(j) # <<>> => /\ out[j].size >= PART_HEADER_BYTES
                                                   /\ PartFile(j)[1].number = j - 1
                                                   /\ PartFile(j)[1].ty = "AHED"
                                                   /\ PartFile(j) \in Seq(Tokens)
  <2> SUFFICES ASSUME NEW j \in 1..Len(out), PartFile(j) # <<>>
               PROVE  /\ out[j].size >= PART_HEADER_BYTES
                      /\ PartFile(j)[1].number = j - 1
                      /\ PartFile(j)[1].ty = "AHED"
                      /\ PartFile(j) \in Seq(Tokens)
    OBVIOUS
  <2>1. out[j].size >= PART_HEADER_BYTES
    <3>1. ~(out[j].size < PART_HEADER_BYTES)
      BY DEF PartFile
    <3>2. out[j].size \in Nat
      BY <1>1, SinkTypes, PartTyped
    <3> QED
      BY <3>1, <3>2
  <2> QED
    BY <1>1, <2>1, PartShape
<1>3. CASE InOne
  <2> DEFINE c == Len(s)
             a == Behind(p, i)
  <2>1. t = s \o a
    BY <1>3 DEF Source
  <2>2. s # <<>>
    <3> SUFFICES ASSUME s = <<>> PROVE FALSE
      OBVIOUS
    <3>1. out[i].size < PART_HEADER_BYTES
      <4>1. out[i].size >= PART_HEADER_BYTES => Len(s) = 1 + FragmentsOf(i) + MarkersOf(out[i].end)
        BY <1>1, PartShape
      <4>2. FragmentsOf(i) \in Nat /\ MarkersOf(out[i].end) \in Nat
        <5>1. i \in Nat
          OBVIOUS
        <5> QED
          BY <5>1, BeforeFacts DEF MarkersOf
      <4>3. Len(s) = 0
        OBVIOUS
      <4> QED
        BY <1>1, <4>1, <4>2, <4>3
    <3>2. pc = "failed" /\ i = Len(out)
      BY <1>1, <3>1, SinkTypes DEF ClosedInv
    <3>3. ~Twofold
      BY <3>2 DEF Twofold
    <3>4. Onward(i + 1) = <<>>
      <4>1. i + 1 \in 1..(Len(out) + 1) /\ i + 1 = Len(out) + 1
        BY <3>2
      <4> QED
        BY <4>1, OnwardFacts
    <3>5. a = <<>> \o <<>>
      BY <1>3, <3>3, <3>4 DEF Behind
    <3>6. t = <<>> \o (<<>> \o <<>>)
      BY <2>1, <3>5
    <3>7. <<>> \o (<<>> \o <<>>) = <<>>
      OBVIOUS
    <3> QED
      BY <1>1, <3>6, <3>7
  <2>3. out[i].size >= PART_HEADER_BYTES /\ s[1].number = i - 1
    BY <1>2, <2>2
  <2>4. /\ s \o a # <<>> /\ (s \o a)[1] = s[1] /\ Tail(s \o a) = Left(s, 1, c, a)
        /\ 1 \in 1..c
    <3>1. s \in Seq(Tokens) /\ a \in Seq(Tokens) /\ 1 \in 1..c
      BY <1>1, <2>2
    <3> HIDE DEF s, a
    <3> QED
      BY <2>2, <3>1, FirstToken
  <2>5. CutAt(i) = c /\ c <= c
    BY <1>1, <1>3 DEF CutAt
  <2>6. Tail(t) = Left(s, 1, c, a) /\ t[1] = s[1]
    BY <2>1, <2>4
  <2> QED
    BY <1>3, <2>3, <2>4, <2>5, <2>6 DEF Stands
<1>4. CASE ~InOne
  <2>1. t = files[i] /\ i \in 1..Len(files) /\ Behind(p, i) = <<>>
    BY <1>4 DEF Source, Behind, Delivered
  <2>2. \/ \E c \in 0..Len(s) : t = SubSeq(s, 1, c)
        \/ i # 1 /\ \E j \in 2..Len(out) : j # i /\ t = PartFile(j)
    BY <1>4, <2>1 DEF Delivered
  <2>3. ASSUME i # 1, NEW j \in 2..Len(out), j # i, t = PartFile(j) PROVE FALSE
    <3>1. j \in 1..Len(out) /\ PartFile(j) # <<>>
      BY <1>1, <2>3
    <3>2. t[1].number = j - 1
      BY <1>2, <2>3, <3>1
    <3>3. t[1].number = i - 1
      BY <2>3
    <3> QED
      BY <2>3, <3>2, <3>3
  <2>4. PICK c \in 0..Len(s) : t = SubSeq(s, 1, c)
    BY <2>2, <2>3
  <2>5. Len(t) = c /\ c # 0 /\ s # <<>>
    BY <1>1, <2>4
  <2>6. out[i].size >= PART_HEADER_BYTES /\ s[1].number = i - 1
    BY <1>2, <2>5
  <2> DEFINE g == SubSeq(s, 1, c)
  <2>7. g[1] = s[1] /\ Tail(g) = SubSeq(s, 2, c)
    BY <1>1, <2>5
  <2>8. CutAt(i) = c /\ c <= Len(s) /\ 1 \in 1..c
    BY <1>1, <1>4, <2>1, <2>5 DEF CutAt
  <2>9. Left(s, 1, c, <<>>) = SubSeq(s, 2, c)
    <3> DEFINE h == SubSeq(s, 2, c)
    <3>1. h \in Seq(Tokens)
      BY <1>1
    <3> HIDE DEF h
    <3>2. h \o <<>> = h
      BY <3>1
    <3> QED
      BY <3>2 DEF Left, h
  <2>10. Tail(t) = Left(s, 1, c, <<>>) /\ t[1] = s[1]
    <3> HIDE DEF t, s
    <3> QED
      BY <2>4, <2>7, <2>9, Zenon DEF g
  <2> QED
    BY <1>4, <2>1, <2>4, <2>6, <2>8, <2>10 DEF Stands
<1> QED
  BY <1>3, <1>4
-----------------------------------------------------------------------------
(* How many entries end in the first fragments.                            *)

\* The chunk of the r-th fragment, and the entries that end up to there.
Ended(r) == {j \in EntryEnds : r # 0 /\ (j < written[r].id
                                         \/ (j = written[r].id /\ EndsChunk(written[r])))}

\* What is written at r, and how it goes on.
LEMMA FragmentAt ==
  ASSUME SinkInv, NEW r \in 1..Len(written)
  PROVE  /\ r \in DOMAIN written /\ written[r].id \in DOMAIN accepted
         /\ written[r].id \in Nat /\ written[r].off \in Nat /\ written[r].len \in Nat
         /\ accepted[written[r].id].len \in Nat
         /\ written[r].off + written[r].len <= accepted[written[r].id].len
         /\ Closes(Framed[r]) <=> written[r].id \in EntryEnds
         /\ written[r].id \in EntryEnds => EndsChunk(written[r]) /\ written[r].off = 0
         /\ r = 1 => written[r].id = 1 /\ written[r].off = 0
         /\ r # 1 => /\ r - 1 \in 1..Len(written)
                     /\ \/ /\ written[r].id = written[r - 1].id
                           /\ ~EndsChunk(written[r - 1]) /\ written[r - 1].len > 0
                           /\ written[r].off = written[r - 1].off + written[r - 1].len
                           /\ written[r].id \notin EntryEnds
                        \/ /\ EndsChunk(written[r - 1])
                           /\ written[r].id = written[r - 1].id + 1 /\ written[r].off = 0
<1>1. /\ written \in Seq(Fragment) /\ Len(written) \in Nat /\ DOMAIN written = 1..Len(written)
      /\ DOMAIN accepted = 1..Len(accepted) /\ Len(accepted) \in Nat
      /\ FragmentsInv /\ WithinInv
  BY SinkTypes DEF SinkInv
<1>2. ASSUME NEW k \in 1..Len(written)
      PROVE  /\ written[k].id \in DOMAIN accepted
             /\ written[k].id \in Nat /\ written[k].off \in Nat /\ written[k].len \in Nat
             /\ accepted[written[k].id].len \in Nat
             /\ written[k].off + written[k].len <= accepted[written[k].id].len
             /\ written[k].len < accepted[written[k].id].len =>
                  accepted[written[k].id].ty \in StreamTypes /\ written[k].len > 0
  BY <1>1, SinkTypes DEF WithinInv, FragmentsInv, OnlyStreamsCut, IsStream
<1>3. ASSUME NEW k \in 1..Len(written)
      PROVE  written[k].id \in EntryEnds => EndsChunk(written[k]) /\ written[k].off = 0
  <2>1. written[k].id \in EntryEnds => accepted[written[k].id].ty \notin StreamTypes
    BY DEF EntryEnds, Closes, StreamTypes
  <2> QED
    BY <1>2, <2>1 DEF EndsChunk
<1>4. Closes(Framed[r]) <=> written[r].id \in EntryEnds
  <2>1. Framed[r].ty = accepted[written[r].id].ty
    BY FramedFacts
  <2> QED
    BY <1>2, <2>1 DEF EntryEnds, Closes
<1>5. r = 1 => written[r].id = 1 /\ written[r].off = 0
  <2>1. r = 1 => written # <<>>
    BY <1>1
  <2> QED
    BY <1>1, <2>1 DEF FragmentsInv, FirstFragment
<1>6. ASSUME r # 1
      PROVE  /\ r - 1 \in 1..Len(written)
             /\ \/ /\ written[r].id = written[r - 1].id
                   /\ ~EndsChunk(written[r - 1]) /\ written[r - 1].len > 0
                   /\ written[r].off = written[r - 1].off + written[r - 1].len
                   /\ written[r].id \notin EntryEnds
                \/ /\ EndsChunk(written[r - 1])
                   /\ written[r].id = written[r - 1].id + 1 /\ written[r].off = 0
  <2>1. r \in 2..Len(written) /\ r - 1 \in 1..Len(written)
    BY <1>1, <1>6
  <2>2. Follows(written[r - 1], written[r])
    BY <1>1, <2>1 DEF FragmentsInv
  <2>3. CASE written[r].id = written[r - 1].id /\ ~EndsChunk(written[r - 1])
             /\ written[r].off = written[r - 1].off + written[r - 1].len
    <3>1. written[r - 1].len < accepted[written[r - 1].id].len
      <4> DEFINE g == written[r - 1]
                 l == accepted[g.id].len
      <4>1. g.off \in Nat /\ g.len \in Nat /\ l \in Nat /\ g.off + g.len <= l
        BY <1>2, <2>1
      <4>2. g.off + g.len # l
        BY <2>3 DEF EndsChunk
      <4>3. written[r].off \in Nat /\ written[r].off = g.off + g.len
        BY <1>2, <2>3
      <4> HIDE DEF g, l
      <4>4. g.len < l
        BY <4>1, <4>2
      <4> QED
        BY <4>4 DEF g, l
    <3>2. written[r - 1].len > 0
      BY <1>2, <2>1, <3>1
    <3>3. written[r].id \notin EntryEnds
      BY <1>3, <2>1, <2>3
    <3> QED
      BY <2>1, <2>3, <3>2, <3>3
  <2> QED
    BY <2>1, <2>2, <2>3 DEF Follows
<1> QED
  BY <1>1, <1>2, <1>3, <1>4, <1>5, <1>6

\* One more fragment ends at most one more.
LEMMA EndedGrows ==
  ASSUME SinkInv, NEW r \in 0..Len(written), r # Len(written)
  PROVE  /\ Closes(Framed[r + 1]) => /\ Ended(r + 1) = Ended(r) \cup {written[r + 1].id}
                                     /\ written[r + 1].id \notin Ended(r)
         /\ ~Closes(Framed[r + 1]) => Ended(r + 1) = Ended(r)
<1> DEFINE w == written
           i == w[r + 1].id
<1>1. r \in Nat /\ Len(written) \in Nat /\ r + 1 \in 1..Len(written) /\ r + 1 # 0 /\ (r + 1) - 1 = r
  BY SinkTypes
<1>2. /\ i \in DOMAIN accepted /\ i \in Nat
      /\ Closes(Framed[r + 1]) <=> i \in EntryEnds
      /\ i \in EntryEnds => EndsChunk(w[r + 1])
  BY <1>1, FragmentAt
<1>3. \A j \in EntryEnds : j \in Nat /\ j >= 1
  <2>1. DOMAIN accepted = 1..Len(accepted) /\ Len(accepted) \in Nat
    BY SinkTypes
  <2> QED
    BY <2>1 DEF EntryEnds
<1>4. \/ r = 0 /\ i = 1
      \/ r # 0 /\ i = w[r].id /\ ~EndsChunk(w[r]) /\ i \notin EntryEnds
      \/ r # 0 /\ i = w[r].id + 1 /\ EndsChunk(w[r])
  <2>1. CASE r = 0
    <3>1. r + 1 = 1
      BY <2>1
    <3> QED
      BY <1>1, <2>1, <3>1, FragmentAt
  <2>2. CASE r # 0
    <3>1. r + 1 # 1
      BY <1>1, <2>2
    <3> QED
      BY <1>1, <2>2, <3>1, FragmentAt
  <2> QED
    BY <2>1, <2>2
<1>5. r # 0 => w[r].id \in Nat
  <2>1. r # 0 => r \in 1..Len(written)
    BY <1>1
  <2> QED
    BY <2>1, FragmentAt
<1>6. \A j \in EntryEnds : j \in Ended(r) <=> j < i
  <2> SUFFICES ASSUME NEW j \in EntryEnds PROVE j \in Ended(r) <=> j < i
    OBVIOUS
  <2>1. j \in Ended(r) <=> r # 0 /\ (j < w[r].id \/ (j = w[r].id /\ EndsChunk(w[r])))
    BY DEF Ended
  <2> HIDE DEF w
  <2> QED
    BY <1>2, <1>3, <1>4, <1>5, <2>1
<1>7. \A j \in EntryEnds : j \in Ended(r + 1) <=> (j < i \/ (j = i /\ EndsChunk(w[r + 1])))
  BY <1>1 DEF Ended
<1>8. Ended(r) \subseteq EntryEnds /\ Ended(r + 1) \subseteq EntryEnds
  BY DEF Ended
<1> HIDE DEF i, w
<1>9. ASSUME Closes(Framed[r + 1]) PROVE Ended(r + 1) = Ended(r) \cup {i} /\ i \notin Ended(r)
  <2>1. i \in EntryEnds /\ EndsChunk(w[r + 1])
    BY <1>2, <1>9
  <2>2. i \notin Ended(r)
    BY <1>2, <1>6, <2>1
  <2>3. \A j \in EntryEnds : j \in Ended(r + 1) <=> (j \in Ended(r) \/ j = i)
    BY <1>6, <1>7, <2>1
  <2> QED
    BY <1>8, <2>1, <2>2, <2>3
<1>10. ASSUME ~Closes(Framed[r + 1]) PROVE Ended(r + 1) = Ended(r)
  <2>1. i \notin EntryEnds
    BY <1>2, <1>10
  <2>2. \A j \in EntryEnds : j \in Ended(r + 1) <=> j \in Ended(r)
    BY <1>6, <1>7, <2>1
  <2> QED
    BY <1>8, <2>2
<1> QED
  BY <1>9, <1>10 DEF i, w

LEMMA EntryEndsFinite ==
  ASSUME SinkInv
  PROVE  /\ IsFiniteSet(EntryEnds) /\ Written \in Nat
         /\ \A i \in EntryEnds : i \in Nat /\ i >= 1 /\ i <= Len(accepted) /\ i \in DOMAIN accepted
<1>1. accepted \in Seq(Inputs) /\ DOMAIN accepted = 1..Len(accepted) /\ Len(accepted) \in Nat
  BY SinkTypes
<1>2. IsFiniteSet(DOMAIN accepted) /\ EntryEnds \in SUBSET DOMAIN accepted
  BY <1>1, FS_Interval DEF EntryEnds
<1>3. IsFiniteSet(EntryEnds)
  BY <1>2, FS_Subset
<1> QED
  BY <1>1, <1>2, <1>3, FS_CardinalityType DEF Written

LEMMA Counting ==
  ASSUME SinkInv, NEW r \in 0..Len(written)
  PROVE  Cardinality(ClosersTo(r)) = Cardinality(Ended(r))
<1> DEFINE n == Len(written)
           G == {k \in Nat : k <= n => Cardinality(ClosersTo(k)) = Cardinality(Ended(k))}
<1>1. n \in Nat
  BY SinkTypes
<1>2. 0 \in G
  <2>1. ClosersTo(0) = {} /\ Ended(0) = {}
    BY DEF ClosersTo, Ended
  <2> QED
    BY <2>1
<1>3. ASSUME NEW k \in Nat, k \in G PROVE k + 1 \in G
  <2> SUFFICES ASSUME k + 1 <= n PROVE Cardinality(ClosersTo(k + 1)) = Cardinality(Ended(k + 1))
    OBVIOUS
  <2>1. k \in 0..n /\ k # n /\ Cardinality(ClosersTo(k)) = Cardinality(Ended(k))
    BY <1>1, <1>3
  <2>2. IsFiniteSet(ClosersTo(k)) /\ IsFiniteSet(Ended(k))
    <3>1. Ended(k) \in SUBSET EntryEnds
      BY DEF Ended
    <3> QED
      BY <2>1, <3>1, ClosersFacts, EntryEndsFinite, FS_Subset
  <2>3. ClosersTo(k + 1) = IF Closes(Framed[k + 1]) THEN ClosersTo(k) \cup {k + 1} ELSE ClosersTo(k)
    <3>1. 1..(k + 1) = (1..k) \cup {k + 1}
      OBVIOUS
    <3> QED
      BY <3>1 DEF ClosersTo
  <2>4. k + 1 \notin ClosersTo(k)
    BY DEF ClosersTo
  <2>5. CASE Closes(Framed[k + 1])
    <3>1. Ended(k + 1) = Ended(k) \cup {written[k + 1].id} /\ written[k + 1].id \notin Ended(k)
      BY <2>1, <2>5, EndedGrows
    <3>2. Cardinality(Ended(k + 1)) = Cardinality(Ended(k)) + 1
      BY <2>2, <3>1, FS_AddElement
    <3>3. Cardinality(ClosersTo(k + 1)) = Cardinality(ClosersTo(k)) + 1
      BY <2>2, <2>3, <2>4, <2>5, FS_AddElement
    <3> QED
      BY <2>1, <3>2, <3>3
  <2>6. CASE ~Closes(Framed[k + 1])
    BY <2>1, <2>3, <2>6, EndedGrows
  <2> QED
    BY <2>5, <2>6
<1>4. r \in Nat /\ r <= n
  BY <1>1
<1> HIDE DEF G
<1>5. r \in G
  BY <1>2, <1>3, <1>4, SetInduction
<1> QED
  BY <1>4, <1>5 DEF G

\* All of them, behind a complete archive.
LEMMA AllCounted ==
  ASSUME SinkInv
  PROVE  /\ \A r \in 0..Len(written) : Cardinality(ClosersTo(r)) \in 0..Written
         /\ Complete => Cardinality(ClosersTo(Len(written))) = Written
         /\ Complete /\ written # <<>> => Closes(Framed[Len(written)])
<1>1. ASSUME NEW r \in 0..Len(written) PROVE Cardinality(ClosersTo(r)) \in 0..Written
  <2>1. Ended(r) \in SUBSET EntryEnds
    BY DEF Ended
  <2>2. Cardinality(Ended(r)) <= Written
    BY <2>1, EntryEndsFinite, FS_Subset DEF Written
  <2>3. Cardinality(ClosersTo(r)) = Cardinality(Ended(r))
    BY Counting
  <2>4. Cardinality(ClosersTo(r)) \in Nat
    BY ClosersFacts
  <2> QED
    BY <2>2, <2>3, <2>4, EntryEndsFinite
<1> DEFINE n == Len(written)
<1>2. n \in Nat /\ n \in 0..n /\ (written # <<>> => n \in 1..n) /\ (n = 0 <=> written = <<>>)
      /\ accepted \in Seq(Inputs)
  BY SinkTypes
<1>3. ASSUME Complete PROVE Ended(n) = EntryEnds /\ (written # <<>> => Closes(Framed[n]))
  <2>1. CASE written = <<>>
    <3>1. EntryEnds = {}
      BY <1>3, <2>1 DEF Complete, EntryEnds
    <3> QED
      BY <2>1, <3>1 DEF Ended
  <2>2. CASE written # <<>>
    <3>1. written[n].id = Len(accepted) /\ EndsChunk(written[n]) /\ n # 0
      BY <1>2, <1>3, <2>2 DEF Complete
    <3>2. Ended(n) = EntryEnds
      <4>1. \A j \in EntryEnds : j < Len(accepted) \/ j = Len(accepted)
        BY <1>2, EntryEndsFinite
      <4> QED
        BY <3>1, <4>1 DEF Ended
    <3>3. Closes(Framed[n])
      <4>1. n \in 1..n
        BY <1>2, <2>2
      <4>2. written[n].id \in DOMAIN accepted /\ (Closes(Framed[n]) <=> written[n].id \in EntryEnds)
        BY <4>1, FragmentAt
      <4>3. accepted # <<>>
        BY <3>1, <4>2
      <4>4. Closes(accepted[Len(accepted)])
        BY <1>3, <4>3 DEF Complete, BetweenEntries, Last
      <4> QED
        BY <3>1, <4>2, <4>4 DEF EntryEnds
    <3> QED
      BY <3>2, <3>3
  <2> QED
    BY <2>1, <2>2
<1>4. ASSUME Complete PROVE Cardinality(ClosersTo(n)) = Written
  BY <1>2, <1>3, <1>4, Counting DEF Written
<1> QED
  BY <1>1, <1>3, <1>4
-----------------------------------------------------------------------------
(* From part to part.                                                      *)

\* How the parts end.
LEMMA PartEnds ==
  ASSUME SinkInv
  PROVE  /\ DOMAIN out = 1..Len(out) /\ Len(out) \in Nat
         /\ \A i \in 1..Len(out) : i < Len(out) => out[i].end = "next"
         /\ pc = "done" => out # <<>> /\ out[Len(out)].end = "last"
         /\ out # <<>> /\ out[Len(out)].end = "last" => Complete
<1>1. out \in Seq(PartRecord) /\ DOMAIN out = 1..Len(out) /\ Len(out) \in Nat
  BY SinkTypes
<1>2. \A i \in 1..Len(out) : i < Len(out) => i \in 1..(Len(out) - 1)
  BY <1>1
<1>3. \A i \in 1..Len(out) : i < Len(out) => out[i].end = "next"
  BY <1>2, SinkTypes DEF PartsInv
<1>4. pc = "done" => out # <<>> /\ out[Len(out)].end = "last"
  BY DEF SinkInv, SizeInv, BudgetInv
<1>5. out # <<>> /\ out[Len(out)].end = "last" => Complete
  BY DEF SinkInv, ClosedInv
<1> QED
  BY <1>1, <1>3, <1>4, <1>5

\* A part starts with its header, unless the sink failed to write that.
LEMMA PartStarts ==
  ASSUME SinkInv, NEW i \in 1..Len(out)
  PROVE  /\ PartFile(i) \in Seq(Tokens)
         /\ pc = "done" => PartFile(i) # <<>>
         /\ PartFile(i) # <<>> => PartFile(i)[1].ty = "AHED" /\ PartFile(i)[1].number = i - 1
<1>1. /\ DOMAIN out = 1..Len(out) /\ PartFile(i) \in Seq(Tokens) /\ out[i].size \in Nat
      /\ i \in Nat
  <2>1. DOMAIN out = 1..Len(out) /\ Len(out) \in Nat /\ PartFile(i) \in Seq(Tokens)
    BY PartsSeq
  <2>2. out[i].size \in Nat
    BY <2>1, SinkTypes, PartTyped
  <2> QED
    BY <2>1, <2>2
<1>2. CASE out[i].size >= PART_HEADER_BYTES
  <2>1. PartFile(i)[1].ty = "AHED" /\ PartFile(i)[1].number = i - 1
        /\ Len(PartFile(i)) = 1 + FragmentsOf(i) + MarkersOf(out[i].end)
    BY <1>1, <1>2, PartShape
  <2>2. FragmentsOf(i) \in Nat /\ MarkersOf(out[i].end) \in Nat
    BY <1>1, BeforeFacts DEF MarkersOf
  <2>3. PartFile(i) # <<>>
    <3> SUFFICES ASSUME PartFile(i) = <<>> PROVE FALSE
      OBVIOUS
    <3>1. Len(PartFile(i)) = 0
      OBVIOUS
    <3> QED
      BY <2>1, <2>2, <3>1
  <2> QED
    BY <1>1, <2>1, <2>3
<1>3. CASE ~(out[i].size >= PART_HEADER_BYTES)
  <2>1. pc = "failed"
    BY <1>1, <1>3, SinkTypes DEF ClosedInv
  <2>2. PartFile(i) = <<>>
    <3>1. out[i].size < PART_HEADER_BYTES
      BY <1>1, <1>3
    <3> QED
      BY <3>1 DEF PartFile
  <2> QED
    BY <1>1, <2>1, <2>2
<1> QED
  BY <1>2, <1>3

\* When all the parts are there every one of them can be entered.
LEMMA SourceWhole ==
  ASSUME SinkInv, Whole, NEW p \in 0..1, NEW i \in 1..Len(out)
  PROVE  /\ R!Starts(Source(p, i)) /\ Source(p, i)[1].number = i - 1
         /\ ~InOne => Len(files) = Len(out)
<1> DEFINE s == PartFile(i)
           a == Behind(p, i)
<1>1. /\ s \in Seq(Tokens) /\ a \in Seq(Tokens)
      /\ s # <<>> /\ s[1].ty = "AHED" /\ s[1].number = i - 1
  BY PartStarts, BehindTyped DEF Whole
<1>2. CASE InOne
  <2>1. s \o a # <<>> /\ (s \o a)[1] = s[1]
    <3> HIDE DEF s, a
    <3> QED
      BY <1>1, FirstToken
  <2>2. Source(p, i) = s \o a
    BY <1>2 DEF Source
  <2> HIDE DEF s, a
  <2>3. Source(p, i) # <<>> /\ Source(p, i)[1] = s[1]
    BY <2>1, <2>2
  <2> QED
    BY <1>1, <1>2, <2>3 DEF R!Starts
<1>3. CASE ~InOne
  <2>1. files = PartFiles
    BY <1>3 DEF Whole, InOne, Twofold
  <2>2. files[i] = s /\ Len(files) = Len(out)
    BY <2>1, PartsSeq
  <2>3. Source(p, i) = s
    BY <1>3, <2>2 DEF Source
  <2> QED
    BY <1>1, <2>2, <2>3 DEF R!Starts
<1> QED
  BY <1>2, <1>3

\* In one stream the next part is behind each, and the first behind the last
\* when the archive is there twice.
LEMMA SourcesJoined ==
  ASSUME SinkInv, InOne
  PROVE  /\ \A p \in 0..1 : \A i \in 1..Len(out) : i < Len(out) => Behind(p, i) = Source(p, i + 1)
         /\ \A p \in 0..1 : Len(out) # 0 =>
              Behind(p, Len(out)) = IF Twofold /\ p = 0 THEN Source(1, 1) ELSE <<>>
         /\ Len(out) # 0 => files[1] = Source(0, 1) /\ Len(files) = 1
<1> DEFINE n == Len(out)
           t(p) == IF Twofold /\ p = 0 THEN Onward(1) ELSE <<>>
<1>1. n \in Nat /\ \A i \in 1..n : PartFile(i) \in Seq(Tokens)
  BY PartsSeq
<1>2. \A i \in 1..(n + 1) : Onward(i) \in Seq(Tokens)
  BY OnwardFacts
<1>3. \A i \in 1..n : i \in 1..(n + 1) /\ i + 1 \in 1..(n + 1) /\ Onward(i) = PartFile(i) \o Onward(i + 1)
  <2> SUFFICES ASSUME NEW i \in 1..n
               PROVE  i \in 1..(n + 1) /\ i + 1 \in 1..(n + 1) /\ Onward(i) = PartFile(i) \o Onward(i + 1)
    OBVIOUS
  <2>1. i \in 1..(n + 1) /\ i + 1 \in 1..(n + 1) /\ i <= n
    BY <1>1
  <2> QED
    BY <2>1, OnwardFacts
<1>4. n + 1 \in 1..(n + 1) /\ Onward(n + 1) = <<>>
  BY <1>1, OnwardFacts
<1>5. \A p : t(p) \in Seq(Tokens)
  <2>1. 1 \in 1..(n + 1)
    BY <1>1
  <2> QED
    BY <1>2, <2>1
<1>6. \A p, i : Behind(p, i) = Onward(i + 1) \o t(p)
  BY DEF Behind
<1>7. \A p, i : Source(p, i) = PartFile(i) \o Behind(p, i)
  BY DEF Source
<1> HIDE DEF n, t
<1>8. ASSUME NEW p \in 0..1, NEW i \in 1..n PROVE Source(p, i) = Onward(i) \o t(p)
  <2> DEFINE x == PartFile(i)
             y == Onward(i + 1)
             z == t(p)
  <2>1. x \in Seq(Tokens) /\ y \in Seq(Tokens) /\ z \in Seq(Tokens)
    BY <1>1, <1>2, <1>3, <1>5
  <2>2. Source(p, i) = x \o (y \o z)
    BY <1>6, <1>7
  <2>3. Onward(i) = x \o y
    BY <1>3
  <2> HIDE DEF x, y, z
  <2>4. (x \o y) \o z = x \o (y \o z)
    BY <2>1, Associates
  <2> QED
    BY <2>2, <2>3, <2>4, Zenon DEF z
<1>9. ASSUME NEW p \in 0..1, NEW i \in 1..n, i < n PROVE Behind(p, i) = Source(p, i + 1)
  <2>1. i + 1 \in 1..n
    BY <1>1, <1>9
  <2> QED
    BY <1>6, <1>8, <2>1
<1>10. ASSUME NEW p \in 0..1, n # 0 PROVE Behind(p, n) = IF Twofold /\ p = 0 THEN Source(1, 1) ELSE <<>>
  <2>1. Behind(p, n) = <<>> \o t(p)
    BY <1>4, <1>6
  <2>2. <<>> \o t(p) = t(p)
    <3> DEFINE z == t(p)
    <3>1. z \in Seq(Tokens)
      BY <1>5
    <3> HIDE DEF z
    <3>2. <<>> \o z = z
      BY <3>1
    <3> QED
      BY <3>2 DEF z
  <2>3. Source(1, 1) = Onward(1)
    <3>1. 1 \in 1..n /\ 1 \in 0..1
      BY <1>1, <1>10
    <3>2. Source(1, 1) = Onward(1) \o t(1)
      BY <1>8, <3>1
    <3>3. t(1) = <<>>
      BY DEF t
    <3> DEFINE z == Onward(1)
    <3>4. z \in Seq(Tokens)
      BY <1>2, <1>3, <3>1
    <3> HIDE DEF z
    <3>5. z \o <<>> = z
      BY <3>4
    <3> QED
      BY <3>2, <3>3, <3>5 DEF z
  <2>4. t(p) = IF Twofold /\ p = 0 THEN Onward(1) ELSE <<>>
    BY DEF t
  <2> QED
    BY <2>1, <2>2, <2>3, <2>4, Zenon
<1>11. ASSUME n # 0 PROVE files[1] = Source(0, 1) /\ Len(files) = 1
  <2>1. Len(files) = 1 /\ files[1] = Onward(1) \o (IF Twofold THEN Onward(1) ELSE <<>>)
    BY OneStream
  <2>2. t(0) = IF Twofold THEN Onward(1) ELSE <<>>
    BY DEF t
  <2>3. 1 \in 1..n /\ 0 \in 0..1
    BY <1>1, <1>11
  <2>4. Source(0, 1) = Onward(1) \o t(0)
    BY <1>8, <2>3
  <2> QED
    BY <2>1, <2>2, <2>4, Zenon
<1> QED
  BY <1>9, <1>10, <1>11 DEF n

LEMMA GotNothing ==
  ASSUME SinkInv
  PROVE  Got(0, 0, 0, <<>>, <<>>)
<1>1. Framed \in Seq(Tokens) /\ Len(written) \in Nat
  BY FramedFacts
<1>2. SubSeq(Framed, 0 + 1, 0) = <<>> /\ SubSeq(Framed, 1, 0) = <<>>
  BY <1>1
<1>3. FlattenSeq(<<>>) = <<>> \o <<>>
  BY FlattenEmpty
<1>4. ClosersTo(0) = {} /\ Cardinality(ClosersTo(0)) = 0
  BY FS_EmptySet DEF ClosersTo
<1>5. Len(<<>>) = 0 * Written + Cardinality(ClosersTo(0))
  <2>1. Written \in Nat
    BY EntryEndsFinite
  <2>2. Len(<<>>) = 0 /\ 0 * Written + 0 = 0
    BY <2>1
  <2> QED
    BY <1>4, <2>2
<1>6. <<>> \in Seq(Seq(Tokens)) /\ 0 \in 0..Len(written) /\ 0 \in 0..0 /\ 0 \in 0..1 /\ 0 # 1
  BY <1>1
<1>7. FlattenSeq(<<>>) = (IF 0 = 1 THEN Framed ELSE <<>>) \o SubSeq(Framed, 1, 0)
  <2>1. (IF 0 = 1 THEN Framed ELSE <<>>) = <<>>
    OBVIOUS
  <2> QED
    BY <1>2, <1>3, <2>1, Zenon
<1>8. /\ \A k \in (0 + 1)..0 : ~Closes(Framed[k])
      /\ \A k \in DOMAIN <<>> : {c \in DOMAIN <<>>[k] : Closes(<<>>[k][c])} = {Len(<<>>[k])}
  OBVIOUS
<1> QED
  BY <1>2, <1>5, <1>6, <1>7, <1>8, Zenon DEF Got

LEMMA GotSome ==
  ASSUME SinkInv, NEW p, NEW r0, NEW r, NEW its, NEW b, Got(p, r0, r, its, b)
  PROVE  SomeRead(its, b)
<1>1. Len(written) \in Nat /\ r \in 0..Len(written) /\ r0 \in 0..r /\ p \in 0..1
  BY GotTyped DEF Got
<1> QED
  BY <1>1 DEF SomeRead

LEMMA OpenFirst ==
  ASSUME SinkInv, Delivered, files # <<>>
  PROVE  /\ R!Starts(files[1]) =>
              /\ 1 \in 1..Len(out) /\ 0 \in 0..1
              /\ InItems(0, 1, 1, 1, Tail(files[1]), files[1][1].number, FALSE, <<>>, <<>>)
         /\ ~R!Starts(files[1]) => ~Whole
         /\ SomeRead(<<>>, <<>>)
<1>1. out # <<>> /\ Len(out) \in Nat /\ Len(out) # 0 /\ 1 \in 1..Len(out) /\ 0 \in 0..1
  BY PartsSeq, SinkTypes DEF Delivered
<1>2. files[1] = Source(0, 1) /\ (InOne \/ 1 <= Len(files))
  <2>1. CASE InOne
    BY <1>1, <2>1, SourcesJoined
  <2>2. CASE ~InOne
    BY <1>1, <2>2 DEF Source, Delivered
  <2> QED
    BY <2>1, <2>2
<1>3. Got(0, 0, 0, <<>>, <<>>) /\ FragmentsBefore(1) = 0 /\ 0 \in 0..Len(written)
  BY GotNothing, BeforeFacts DEF Got
<1>4. ASSUME R!Starts(files[1])
      PROVE  InItems(0, 1, 1, 1, Tail(files[1]), files[1][1].number, FALSE, <<>>, <<>>)
  <2>1. /\ Stands(0, 1, 1, IF InOne THEN 1 ELSE 1, Tail(files[1]), 1 - 1)
        /\ files[1][1].number = 1 - 1
    BY <1>1, <1>2, <1>4, SourceStands
  <2>2. (IF InOne THEN 1 ELSE 1) = 1
    OBVIOUS
  <2>3. Stands(0, 1, 1, 1, Tail(files[1]), 1 - 1)
    BY <2>1, <2>2
  <2>4. InItems(0, 1, 1, 1, Tail(files[1]), 1 - 1, FALSE, <<>>, <<>>)
    BY <1>1, <1>3, <2>3, EnteredParts
  <2> QED
    BY <2>1, <2>4
<1>5. ~R!Starts(files[1]) => ~Whole
  BY <1>1, <1>2, SourceWhole
<1> QED
  BY <1>1, <1>3, <1>4, <1>5, GotSome

\* Behind a part that was read to its end.
LEMMA EndFacts ==
  ASSUME SinkInv, NEW p \in 0..1, NEW i, NEW o, NEW r, NEW n, NEW x, NEW b, NEW its,
         AtEnd(p, i, o, r, n, x, its, b)
  PROVE  /\ i \in 1..Len(out) /\ r = Behind(p, i) /\ n = i - 1 /\ i \in Nat /\ Len(out) \in Nat
         /\ o = (IF InOne THEN 1 ELSE i) /\ (InOne \/ i <= Len(files))
         /\ x <=> out[i].end = "next"
         /\ ~x <=> out[i].end = "last"
         /\ \E r0 \in 0..Len(written) : Got(p, r0, FragmentsBefore(i + 1), its, b)
         /\ SomeRead(its, b)
<1>1. /\ Stands(p, i, Len(PartFile(i)), o, r, n)
      /\ out[i].end \in {"next", "last"} /\ (x <=> out[i].end = "next")
      /\ \E r0 \in 0..Len(written) : Got(p, r0, FragmentsBefore(i + 1), its, b)
  BY DEF AtEnd
<1>2. /\ i \in 1..Len(out) /\ CutAt(i) \in Nat /\ Len(PartFile(i)) <= CutAt(i)
      /\ CutAt(i) <= Len(PartFile(i)) /\ Len(PartFile(i)) \in Nat
      /\ Len(PartFile(i)) = CutAt(i) => r = Behind(p, i)
  <2> DEFINE q == Len(PartFile(i))
  <2>1. Stands(p, i, q, o, r, n)
    BY <1>1
  <2> HIDE DEF q
  <2>2. /\ i \in 1..Len(out) /\ q \in Nat /\ CutAt(i) \in Nat /\ q <= CutAt(i)
        /\ CutAt(i) <= Len(PartFile(i))
        /\ q = CutAt(i) => r = Behind(p, i)
    BY <2>1, NextToken
  <2> QED
    BY <2>2 DEF q
<1>3. Len(PartFile(i)) = CutAt(i)
  BY <1>2
<1>4. SomeRead(its, b)
  BY <1>1, GotSome
<1>5. /\ n = i - 1 /\ o = (IF InOne THEN 1 ELSE i)
      /\ i <= Len(files) \/ InOne
  BY <1>1 DEF Stands
<1>6. Len(out) \in Nat /\ i \in Nat
  BY <1>2, PartsSeq
<1> QED
  BY <1>1, <1>2, <1>3, <1>4, <1>5, <1>6

\* The stream that the reader goes on with, and how many it has then opened.
After(o, r) == IF o < Len(files) THEN files[o + 1] ELSE r
OpenedThen(o) == IF o < Len(files) THEN o + 1 ELSE o

LEMMA NextSource ==
  ASSUME SinkInv, Delivered, NEW p \in 0..1, NEW i, NEW o, NEW r, NEW n, NEW x, NEW b, NEW its,
         AtEnd(p, i, o, r, n, x, its, b), x
  PROVE  \/ /\ i + 1 \in 1..Len(out) /\ After(o, r) = Source(p, i + 1)
            /\ InOne \/ i + 1 <= Len(files)
            /\ OpenedThen(o) = (IF InOne THEN 1 ELSE i + 1)
         \/ After(o, r) = <<>> /\ ~Whole
<1> DEFINE s == After(o, r)
<1>0. /\ s = (IF o < Len(files) THEN files[o + 1] ELSE r)
      /\ OpenedThen(o) = (IF o < Len(files) THEN o + 1 ELSE o)
  BY DEF After, OpenedThen
<1> HIDE DEF s
<1>1. /\ i \in 1..Len(out) /\ r = Behind(p, i) /\ i \in Nat /\ Len(out) \in Nat
      /\ o = (IF InOne THEN 1 ELSE i) /\ (InOne \/ i <= Len(files))
      /\ out[i].end = "next"
  BY EndFacts
<1>2. i < Len(out) \/ (i = Len(out) /\ pc # "done")
  <2>1. i \in 1..Len(out) /\ Len(out) \in Nat /\ out[i].end = "next"
    BY <1>1
  <2>2. pc = "done" => out[Len(out)].end = "last"
    BY PartEnds
  <2>3. i < Len(out) \/ i = Len(out)
    BY <2>1
  <2> QED
    BY <2>1, <2>2, <2>3
<1>3. CASE InOne
  <2>1. Len(files) = 1 /\ o = 1 /\ s = r /\ OpenedThen(o) = 1
    <3>1. Len(files) = 1 /\ o = 1
      BY <1>1, <1>3, OneStream
    <3>2. ~(o < Len(files))
      BY <3>1
    <3> QED
      BY <1>0, <3>1, <3>2
  <2>2. CASE i < Len(out)
    <3>1. i + 1 \in 1..Len(out)
      BY <1>1, <2>2
    <3>2. Behind(p, i) = Source(p, i + 1)
      BY <1>1, <1>3, <2>2, SourcesJoined
    <3> QED
      BY <1>1, <1>3, <2>1, <3>1, <3>2 DEF s
  <2>3. CASE i = Len(out) /\ pc # "done"
    <3>1. ~Twofold /\ ~Whole
      BY <2>3 DEF Twofold, Whole
    <3>2. Len(out) # 0
      BY <1>1
    <3>3. Behind(p, Len(out)) = <<>>
      BY <1>3, <3>1, <3>2, SourcesJoined
    <3> QED
      BY <1>1, <2>1, <2>3, <3>1, <3>3 DEF s
  <2> QED
    BY <1>2, <2>2, <2>3
<1>4. CASE ~InOne
  <2>1. o = i /\ i <= Len(files) /\ Len(files) \in 1..Len(out) /\ r = <<>>
    BY <1>1, <1>4 DEF Delivered, Behind
  <2>2. CASE i < Len(files)
    <3>1. s = files[i + 1] /\ i + 1 <= Len(files) /\ i + 1 \in 1..Len(out)
          /\ OpenedThen(o) = i + 1
      BY <1>0, <1>1, <2>1, <2>2
    <3>2. s = Source(p, i + 1)
      BY <1>4, <3>1 DEF Source
    <3> QED
      BY <1>4, <2>1, <2>2, <3>1, <3>2 DEF s
  <2>3. CASE ~(i < Len(files))
    <3>1. s = <<>>
      BY <1>0, <2>1, <2>3
    <3>2. Whole => Len(files) = Len(out)
      BY <1>1, <1>4, SourceWhole
    <3>3. ~Whole
      <4>1. Whole => pc = "done"
        BY DEF Whole
      <4> QED
        BY <1>1, <1>2, <2>1, <2>3, <3>2, <4>1
    <3> QED
      BY <3>1, <3>3 DEF s
  <2> QED
    BY <2>2, <2>3
<1> QED
  BY <1>3, <1>4 DEF s

\* The reader has just read the header in front of s, and entered the j-th part.
Entered(p, j, o, s, its, b) == InItems(p, j, 1, o, Tail(s), s[1].number, FALSE, its, b)

LEMMA NextPart ==
  ASSUME SinkInv, Delivered, NEW p \in 0..1, NEW i, NEW o, NEW r, NEW n, NEW x, NEW b, NEW its,
         AtEnd(p, i, o, r, n, x, its, b), x,
         NEW s, s = After(o, r)
  PROVE  /\ R!Starts(s) /\ s[1].number = n + 1 =>
              Entered(p, i + 1, OpenedThen(o), s, its, b)
         /\ ~(R!Starts(s) /\ s[1].number = n + 1) => ~Whole
<1>1. /\ i \in 1..Len(out) /\ n = i - 1 /\ i \in Nat
      /\ \E r0 \in 0..Len(written) : Got(p, r0, FragmentsBefore(i + 1), its, b)
  BY EndFacts
<1> DEFINE o2 == OpenedThen(o)
<1>2. \/ /\ i + 1 \in 1..Len(out) /\ s = Source(p, i + 1)
         /\ InOne \/ i + 1 <= Len(files)
         /\ o2 = (IF InOne THEN 1 ELSE i + 1)
      \/ s = <<>> /\ ~Whole
  BY NextSource
<1>3. n + 1 = i /\ (i + 1) - 1 = i
  BY <1>1
<1> HIDE DEF o2
<1>4. CASE s = <<>> /\ ~Whole
  BY <1>4 DEF R!Starts
<1>5. CASE /\ i + 1 \in 1..Len(out) /\ s = Source(p, i + 1)
           /\ InOne \/ i + 1 <= Len(files)
           /\ o2 = (IF InOne THEN 1 ELSE i + 1)
  <2>1. ASSUME R!Starts(s), s[1].number = n + 1
        PROVE  Entered(p, i + 1, o2, s, its, b)
    <3>1. Source(p, i + 1)[1].number = (i + 1) - 1 /\ R!Starts(Source(p, i + 1))
      BY <1>3, <1>5, <2>1
    <3> DEFINE j == i + 1
    <3>2. j \in 1..Len(out) /\ (InOne \/ j <= Len(files)) /\ s = Source(p, j) /\ R!Starts(Source(p, j))
          /\ Source(p, j)[1].number = j - 1
      BY <1>5, <3>1
    <3>3. o2 = (IF InOne THEN 1 ELSE j) /\ s[1].number = j - 1
      BY <1>3, <1>5, <2>1
    <3>4. PICK r0 \in 0..Len(written) : Got(p, r0, FragmentsBefore(j), its, b)
      BY <1>1
    <3> HIDE DEF j
    <3>5. Stands(p, j, 1, IF InOne THEN 1 ELSE j, Tail(Source(p, j)), j - 1)
      BY <3>2, SourceStands
    <3>6. Stands(p, j, 1, o2, Tail(s), j - 1)
      BY <3>2, <3>3, <3>5
    <3>7. InItems(p, j, 1, o2, Tail(s), j - 1, FALSE, its, b)
      BY <3>2, <3>4, <3>6, EnteredParts
    <3> QED
      BY <3>3, <3>7 DEF j, Entered
  <2>2. Whole => R!Starts(s) /\ s[1].number = n + 1
    <3>1. Whole => R!Starts(Source(p, i + 1)) /\ Source(p, i + 1)[1].number = (i + 1) - 1
      BY <1>5, SourceWhole
    <3> QED
      BY <1>3, <1>5, <3>1
  <2> QED
    BY <1>5, <2>1, <2>2 DEF o2
<1> QED
  BY <1>2, <1>4, <1>5

\* Behind the last part.
LEMMA LastPart ==
  ASSUME SinkInv, NEW p \in 0..1, NEW i, NEW o, NEW r, NEW n, NEW x, NEW b, NEW its,
         AtEnd(p, i, o, r, n, x, its, b), ~x
  PROVE  /\ i = Len(out) /\ Len(out) # 0 /\ out[Len(out)].end = "last" /\ Complete
         /\ \E r0 \in 0..Len(written) : Got(p, r0, Len(written), its, b)
         /\ r = IF Twofold /\ p = 0 THEN Source(1, 1) ELSE <<>>
         /\ Twofold => R!Starts(Source(1, 1)) /\ Whole
<1>1. /\ i \in 1..Len(out) /\ r = Behind(p, i) /\ i \in Nat /\ Len(out) \in Nat
      /\ out[i].end = "last"
      /\ \E r0 \in 0..Len(written) : Got(p, r0, FragmentsBefore(i + 1), its, b)
  BY EndFacts
<1>2. i = Len(out) /\ Len(out) # 0 /\ out # <<>>
  <2>1. i \in 1..Len(out) /\ Len(out) \in Nat /\ out[i].end = "last"
    BY <1>1
  <2>2. i < Len(out) => out[i].end = "next"
    BY <2>1, PartEnds
  <2>3. i = Len(out) /\ Len(out) # 0
    BY <2>1, <2>2
  <2> QED
    BY <2>3
<1>3. Complete
  BY <1>1, <1>2, PartEnds
<1>4. \E r0 \in 0..Len(written) : Got(p, r0, Len(written), its, b)
  BY <1>1, <1>2, BeforeFacts
<1>5. r = IF Twofold /\ p = 0 THEN Source(1, 1) ELSE <<>>
  <2>1. CASE InOne
    BY <1>1, <1>2, <2>1, SourcesJoined
  <2>2. CASE ~InOne
    BY <1>1, <2>2 DEF Behind, InOne
  <2> QED
    BY <2>1, <2>2
<1>6. Twofold => R!Starts(Source(1, 1)) /\ Whole
  <2>1. Twofold => Whole
    BY DEF Twofold, Whole
  <2>2. 1 \in 0..1 /\ 1 \in 1..Len(out)
    BY <1>1
  <2> QED
    BY <2>1, <2>2, SourceWhole
<1> QED
  BY <1>1, <1>2, <1>3, <1>4, <1>5, <1>6

LEMMA Finished ==
  ASSUME SinkInv, NEW p \in 0..1, NEW i, NEW o, NEW r, NEW n, NEW x, NEW b, NEW its,
         AtEnd(p, i, o, r, n, x, its, b), ~x, ~concatenated \/ r = <<>>
  PROVE  AllRead(p, its, b)
<1>1. /\ out[Len(out)].end = "last"
      /\ \E r0 \in 0..Len(written) : Got(p, r0, Len(written), its, b)
      /\ r = IF Twofold /\ p = 0 THEN Source(1, 1) ELSE <<>>
      /\ Twofold => R!Starts(Source(1, 1))
  BY LastPart
<1>2. Twofold => Source(1, 1) # <<>>
  BY <1>1 DEF R!Starts
<1>3. Twofold /\ concatenated => p = 1
  <2> SUFFICES ASSUME Twofold, concatenated, p # 1 PROVE FALSE
    OBVIOUS
  <2>1. p = 0
    OBVIOUS
  <2>2. r = Source(1, 1)
    BY <1>1, <2>1
  <2> QED
    BY <1>2, <2>2
<1> QED
  BY <1>1, <1>3 DEF AllRead

\* The first pass over a complete archive leaves nothing behind.
LEMMA Again ==
  ASSUME SinkInv, Delivered, NEW p \in 0..1, NEW i, NEW o, NEW r, NEW n, NEW x, NEW b, NEW its,
         AtEnd(p, i, o, r, n, x, its, b), ~x, concatenated, r # <<>>
  PROVE  R!Starts(r) /\ Entered(1, 1, o, r, its, <<>>)
<1>1. /\ Len(out) # 0 /\ Complete
      /\ \E r0 \in 0..Len(written) : Got(p, r0, Len(written), its, b)
      /\ r = IF Twofold /\ p = 0 THEN Source(1, 1) ELSE <<>>
      /\ Twofold => R!Starts(Source(1, 1))
  BY LastPart
<1>2. Twofold /\ p = 0 /\ r = Source(1, 1) /\ R!Starts(r) /\ InOne
  BY <1>1 DEF InOne
<1>3. 1 \in 1..Len(out) /\ 1 \in 0..1
  BY <1>1, PartsSeq
<1>4. o = 1
  BY <1>2, EndFacts
<1>5. Stands(1, 1, 1, 1, Tail(r), 1 - 1) /\ r[1].number = 1 - 1
  BY <1>2, <1>3, SourceStands
<1>6. PICK r0 \in 0..Len(written) : Got(0, r0, Len(written), its, b)
  BY <1>1, <1>2
<1> DEFINE m == Len(written)
           f == Framed
<1>7. r0 = m /\ m \in Nat
  <2>1. m \in Nat /\ r0 \in 0..m /\ (r0 # m => ~Closes(f[m]))
    BY <1>6, GotTyped
  <2>2. r0 # m => written # <<>>
    BY <2>1, SinkTypes
  <2>3. Complete /\ written # <<>> => Closes(f[m])
    BY AllCounted
  <2> QED
    BY <1>1, <2>1, <2>2, <2>3
<1>8. /\ its \in Seq(Seq(Tokens))
      /\ FlattenSeq(its) = (IF 0 = 1 THEN f ELSE <<>>) \o SubSeq(f, 1, m)
      /\ Len(its) = 0 * Written + Cardinality(ClosersTo(m))
      /\ \A k \in DOMAIN its : {c \in DOMAIN its[k] : Closes(its[k][c])} = {Len(its[k])}
  BY <1>6, <1>7 DEF Got
<1>9. f \in Seq(Tokens) /\ Len(f) = m
  BY FramedFacts
<1> HIDE DEF f, m
<1>10. FlattenSeq(its) = f \o <<>>
  <2>1. SubSeq(f, 1, m) = f
    BY <1>9, SubSeqFull
  <2>2. <<>> \o f = f /\ f \o <<>> = f
    BY <1>9, ConcatEmptySeq
  <2>3. (IF 0 = 1 THEN f ELSE <<>>) = <<>>
    OBVIOUS
  <2> QED
    BY <1>8, <2>1, <2>2, <2>3, Zenon
<1>11. Len(its) = 1 * Written + 0
  <2>1. Cardinality(ClosersTo(m)) = Written /\ Written \in Nat
    BY <1>1, AllCounted, EntryEndsFinite DEF m
  <2> QED
    BY <1>8, <2>1
<1>12. Got(1, 0, 0, its, <<>>)
  <2>1. ClosersTo(0) = {} /\ Cardinality(ClosersTo(0)) = 0
    BY FS_EmptySet DEF ClosersTo
  <2>2. SubSeq(f, 0 + 1, 0) = <<>> /\ SubSeq(f, 1, 0) = <<>>
    BY <1>9
  <2>3. FlattenSeq(its) = (IF 1 = 1 THEN f ELSE <<>>) \o SubSeq(f, 1, 0)
    BY <1>10, <2>2
  <2>4. 0 \in 0..Len(written) /\ 0 \in 0..0
    BY <1>7 DEF m
  <2>5. \A k \in (0 + 1)..0 : ~Closes(f[k])
    OBVIOUS
  <2> QED
    BY <1>1, <1>2, <1>3, <1>8, <1>11, <2>1, <2>2, <2>3, <2>4, <2>5 DEF Got, f
<1>13. FragmentsBefore(1) = 0 /\ 0 \in 0..Len(written)
  BY <1>7, BeforeFacts DEF m
<1>14. InItems(1, 1, 1, 1, Tail(r), 1 - 1, FALSE, its, <<>>)
  BY <1>3, <1>5, <1>12, <1>13, EnteredParts
<1>15. Entered(1, 1, 1, r, its, <<>>)
  BY <1>5, <1>14 DEF Entered
<1> QED
  BY <1>2, <1>4, <1>15
-----------------------------------------------------------------------------
(* The invariant.                                                          *)

\* Reading changes neither the parts nor the files.
LEMMA PartsKept ==
  ASSUME UNCHANGED <<vars, files, concatenated>>
  PROVE  ReaderInv' = IF files = <<>> THEN rpc' = "idle" /\ opened' = 0 /\ items' = <<>> /\ buf' = <<>>
                      ELSE Delivered /\ At(rpc', opened', rest', number', next_archive', buf', items')
  BY DEF vars, ReaderInv, Delivered, At, InItems, AtEnd, AllRead, SomeRead, Stands, Got, ClosersTo,
         Passed, Left, CutAt, Behind, Onward, FragmentsOf, InOne, Whole, Twofold, PartFiles, PartFile,
         FragmentsBefore, Framed, Complete, EndsChunk, Written, EntryEnds, BetweenEntries, Doubled,
         Joined

LEMMA InItemsAt ==
  ASSUME SinkInv, NEW p \in 0..1, NEW i, NEW q, NEW o, NEW r, NEW n, NEW x, NEW b, NEW its,
         InItems(p, i, q, o, r, n, x, its, b)
  PROVE  At("items", o, r, n, x, b, its)
<1>1. Stands(p, i, q, o, r, n)
  BY DEF InItems
<1>2. i \in 1..Len(out) /\ q \in 1..CutAt(i) /\ CutAt(i) <= Len(PartFile(i)) /\ CutAt(i) \in Nat
      /\ Len(PartFile(i)) \in Nat
  <2>1. i \in 1..Len(out) /\ q \in 1..CutAt(i) /\ CutAt(i) <= Len(PartFile(i))
    BY <1>1 DEF Stands
  <2>2. CutAt(i) \in Nat
    BY <1>1, NextToken
  <2>3. PartFile(i) \in Seq(Tokens)
    BY <2>1, PartsSeq
  <2> QED
    BY <2>1, <2>2, <2>3
<1>3. q \in 1..Len(PartFile(i))
  <2> DEFINE c == CutAt(i)
             l == Len(PartFile(i))
  <2> HIDE DEF c, l
  <2>1. q \in 1..c /\ c <= l /\ c \in Nat /\ l \in Nat
    BY <1>2 DEF c, l
  <2>2. q \in 1..l
    BY <2>1
  <2> QED
    BY <2>2 DEF l
<1>4. \E p2 \in 0..1 : \E i2 \in 1..Len(out) : \E q2 \in 1..Len(PartFile(i2)) :
        InItems(p2, i2, q2, o, r, n, x, its, b)
  BY <1>2, <1>3, Zenon
<1> QED
  BY <1>4 DEF At

LEMMA AtEndAt ==
  ASSUME SinkInv, NEW p \in 0..1, NEW i, NEW o, NEW r, NEW n, NEW x, NEW b, NEW its,
         AtEnd(p, i, o, r, n, x, its, b)
  PROVE  At("end", o, r, n, x, b, its)
<1>1. i \in 1..Len(out)
  BY EndFacts
<1>2. \E p2 \in 0..1 : \E i2 \in 1..Len(out) : AtEnd(p2, i2, o, r, n, x, its, b)
  BY <1>1, Zenon
<1> QED
  BY <1>2 DEF At

LEMMA ErrorAt ==
  ASSUME NEW o, NEW r, NEW n, NEW x, NEW b, NEW its, SomeRead(its, b), ~Whole
  PROVE  At("error", o, r, n, x, b, its)
  BY DEF At

LEMMA ReadStep ==
  ASSUME SinkInv, ReaderInv, R!ReadNext, UNCHANGED vars
  PROVE  ReaderInv'
<1>1. UNCHANGED <<files, concatenated>>
  BY DEF R!ReadNext, R!OpenFirst, R!ReadFails, R!ReadItemEnd, R!ReadAnxt, R!ReadAend, R!ReadOther,
         R!NextPart, R!Finish, R!NextArchive, R!Error, R!EnterPart
<1>2. files # <<>>
  BY DEF R!ReadNext, R!OpenFirst, R!ReadFails, R!ReadItemEnd, R!ReadAnxt, R!ReadAend, R!ReadOther,
         R!NextPart, R!Finish, R!NextArchive, R!ReadsA, ReaderInv
<1>3. Delivered /\ At(rpc, opened, rest, number, next_archive, buf, items)
  BY <1>2 DEF ReaderInv
<1> SUFFICES At(rpc', opened', rest', number', next_archive', buf', items')
  BY <1>1, <1>2, <1>3, PartsKept
<1>4. CASE R!OpenFirst
  <2>1. rpc = "idle" /\ items = <<>> /\ buf = <<>>
    BY <1>3, <1>4 DEF R!OpenFirst, At
  <2>2. CASE R!Starts(files[1])
    <3>1. /\ rpc' = "items" /\ opened' = 1 /\ rest' = Tail(files[1]) /\ number' = files[1][1].number
          /\ next_archive' = FALSE /\ buf' = <<>> /\ items' = <<>>
      BY <1>4, <2>1, <2>2 DEF R!OpenFirst, R!EnterPart
    <3>2. InItems(0, 1, 1, 1, Tail(files[1]), files[1][1].number, FALSE, <<>>, <<>>) /\ 0 \in 0..1
      BY <1>2, <1>3, <2>2, OpenFirst
    <3> QED
      BY <3>1, <3>2, InItemsAt
  <2>3. CASE ~R!Starts(files[1])
    <3>1. rpc' = "error" /\ UNCHANGED <<opened, rest, number, next_archive, buf, items>>
      BY <1>4, <2>3 DEF R!OpenFirst, R!Error
    <3>2. ~Whole /\ SomeRead(items, buf)
      BY <1>2, <1>3, <2>1, <2>3, OpenFirst
    <3> QED
      BY <3>1, <3>2, ErrorAt
  <2> QED
    BY <2>2, <2>3
<1>5. CASE rpc = "items"
  <2>1. PICK p \in 0..1, i \in 1..Len(out) : \E q \in 1..Len(PartFile(i)) :
          InItems(p, i, q, opened, rest, number, next_archive, items, buf)
    BY <1>3, <1>5 DEF At
  <2>8. PICK q : InItems(p, i, q, opened, rest, number, next_archive, items, buf)
    BY <2>1
  <2>2. SomeRead(items, buf)
    BY <2>8, GotSome DEF InItems
  <2>3. CASE R!ReadFails
    <3>1. rest = <<>> /\ rpc' = "error" /\ UNCHANGED <<opened, rest, number, next_archive, buf, items>>
      BY <2>3 DEF R!ReadFails, R!Error
    <3>2. q = CutAt(i)
      <4>1. Stands(p, i, q, opened, rest, number)
        BY <2>8 DEF InItems
      <4>2. q <= CutAt(i) /\ ~(q < CutAt(i)) /\ q \in Nat /\ CutAt(i) \in Nat
        BY <3>1, <4>1, NextToken
      <4> QED
        BY <4>2
    <3>3. ~Whole
      BY <2>8, <3>2, NothingLeft
    <3> QED
      BY <2>2, <3>1, <3>3, ErrorAt
  <2>4. CASE R!ReadItemEnd
    <3>1. /\ rest # <<>> /\ rest[1].ty \in {"FEND", "SEND"} /\ rpc' = rpc
          /\ items' = Append(items, Append(buf, rest[1])) /\ buf' = <<>> /\ rest' = Tail(rest)
          /\ UNCHANGED <<opened, number, next_archive>>
      BY <2>4 DEF R!ReadItemEnd, R!ReadsA, R!Advance, R!ItemEnds
    <3>2. Closes(rest[1]) /\ rest[1].ty \notin {"ANXT", "AEND"}
      BY <3>1 DEF Closes
    <3>3. InItems(p, i, q + 1, opened, Tail(rest), number, next_archive,
                  Append(items, Append(buf, rest[1])), <<>>)
      BY <2>8, <3>1, <3>2, FragmentRead
    <3> QED
      BY <1>5, <3>1, <3>3, InItemsAt
  <2>5. CASE R!ReadOther
    <3>1. /\ rest # <<>> /\ rest[1].ty \notin {"FEND", "SEND", "ANXT", "AEND"} /\ rpc' = rpc
          /\ buf' = Append(buf, rest[1]) /\ rest' = Tail(rest)
          /\ UNCHANGED <<opened, number, next_archive, items>>
      BY <2>5 DEF R!ReadOther, R!Advance, R!ItemEnds
    <3>2. ~Closes(rest[1]) /\ rest[1].ty \notin {"ANXT", "AEND"}
      BY <3>1 DEF Closes
    <3>3. InItems(p, i, q + 1, opened, Tail(rest), number, next_archive, items, Append(buf, rest[1]))
      BY <2>8, <3>1, <3>2, FragmentRead
    <3> QED
      BY <1>5, <3>1, <3>3, InItemsAt
  <2>6. CASE R!ReadAnxt
    <3>1. /\ rest # <<>> /\ rest[1].ty = "ANXT" /\ rpc' = rpc
          /\ next_archive' = TRUE /\ rest' = Tail(rest)
          /\ UNCHANGED <<opened, number, buf, items>>
      BY <2>6 DEF R!ReadAnxt, R!ReadsA, R!Advance
    <3>2. InItems(p, i, q + 1, opened, Tail(rest), number, TRUE, items, buf)
      BY <2>8, <3>1, MarkerRead
    <3> QED
      BY <1>5, <3>1, <3>2, InItemsAt
  <2>7. CASE R!ReadAend
    <3>1. /\ rest # <<>> /\ rest[1].ty = "AEND" /\ rpc' = "end" /\ rest' = Tail(rest)
          /\ UNCHANGED <<opened, number, next_archive, buf, items>>
      BY <2>7 DEF R!ReadAend, R!ReadsA, R!Advance, R!Kept
    <3>2. AtEnd(p, i, opened, Tail(rest), number, next_archive, items, buf)
      BY <2>8, <3>1, MarkerRead
    <3> QED
      BY <3>1, <3>2, AtEndAt
  <2> QED
    BY <1>5, <2>3, <2>4, <2>5, <2>6, <2>7
       DEF R!ReadNext, R!OpenFirst, R!NextPart, R!Finish, R!NextArchive
<1>6. CASE rpc = "end"
  <2>1. PICK p \in 0..1, i \in 1..Len(out) :
          AtEnd(p, i, opened, rest, number, next_archive, items, buf)
    BY <1>3, <1>6 DEF At
  <2>2. SomeRead(items, buf)
    BY <2>1, EndFacts
  <2>3. CASE R!NextPart
    <3> DEFINE s == After(opened, rest)
    <3>1. next_archive /\ s = (IF opened < Len(files) THEN files[opened + 1] ELSE rest)
          /\ OpenedThen(opened) = (IF opened < Len(files) THEN opened + 1 ELSE opened)
      BY <2>3 DEF R!NextPart, R!HasNextArchive, After, OpenedThen
    <3> HIDE DEF s
    <3>6. /\ R!Starts(s) /\ s[1].number = number + 1 =>
               Entered(p, i + 1, OpenedThen(opened), s, items, buf)
          /\ ~(R!Starts(s) /\ s[1].number = number + 1) => ~Whole
      <4>1. s = After(opened, rest)
        BY DEF s
      <4> QED
        <5>1. Delivered /\ next_archive
          BY <1>3, <3>1
        <5> QED
          BY <2>1, <4>1, <5>1, NextPart
    <3>2. /\ R!Starts(s) /\ s[1].number = number + 1 =>
               InItems(p, i + 1, 1, OpenedThen(opened), Tail(s), s[1].number, FALSE, items, buf)
          /\ ~(R!Starts(s) /\ s[1].number = number + 1) => ~Whole
      BY <3>6 DEF Entered
    <3>3. CASE /\ R!Starts(s) /\ s[1].number = number + 1 /\ rpc' = "items"
               /\ rest' = Tail(s) /\ number' = s[1].number /\ next_archive' = FALSE /\ buf' = buf
               /\ items' = items /\ opened' = OpenedThen(opened)
      BY <2>1, <3>2, <3>3, InItemsAt
    <3>4. CASE /\ ~(R!Starts(s) /\ s[1].number = number + 1) /\ rpc' = "error"
               /\ UNCHANGED <<opened, rest, number, next_archive, buf, items>>
      BY <2>2, <3>2, <3>4, ErrorAt
    <3>5. \/ /\ R!Starts(s) /\ R!IsNext(s)
             /\ R!EnterPart(s, buf) /\ opened' = OpenedThen(opened)
          \/ ~(R!Starts(s) /\ R!IsNext(s)) /\ R!Error
      BY <2>3, Zenon DEF R!NextPart, R!Opened, After, OpenedThen, s
    <3> QED
      BY <3>3, <3>4, <3>5 DEF R!EnterPart, R!Error, R!IsNext
  <2>4. CASE R!Finish
    <3>1. /\ ~next_archive /\ (~concatenated \/ rest = <<>>) /\ rpc' = "ok"
          /\ UNCHANGED <<opened, rest, number, next_archive, buf, items>>
      BY <2>4 DEF R!Finish, R!HasNextArchive, R!StopsHere
    <3>2. AllRead(p, items, buf)
      BY <2>1, <3>1, Finished
    <3> QED
      BY <2>1, <3>1, <3>2 DEF At
  <2>5. CASE R!NextArchive
    <3>1. ~next_archive /\ concatenated /\ rest # <<>>
      BY <2>5 DEF R!NextArchive, R!HasNextArchive, R!StopsHere
    <3>2. R!Starts(rest) /\ Entered(1, 1, opened, rest, items, <<>>)
      BY <1>3, <2>1, <3>1, Again
    <3>3. InItems(1, 1, 1, opened, Tail(rest), rest[1].number, FALSE, items, <<>>)
      BY <3>2, Zenon DEF Entered
    <3>5. 1 \in 0..1
      OBVIOUS
    <3>4. /\ rpc' = "items" /\ rest' = Tail(rest) /\ number' = rest[1].number
          /\ next_archive' = FALSE /\ buf' = <<>> /\ UNCHANGED <<opened, items>>
      BY <2>5, <3>2 DEF R!NextArchive, R!EnterPart
    <3> QED
      BY <3>3, <3>4, <3>5, InItemsAt
  <2> QED
    BY <1>6, <2>3, <2>4, <2>5
       DEF R!ReadNext, R!OpenFirst, R!ReadFails, R!ReadItemEnd, R!ReadAnxt, R!ReadAend, R!ReadOther,
           R!ReadsA
<1> QED
  BY <1>4, <1>5, <1>6
     DEF R!ReadNext, R!ReadFails, R!ReadItemEnd, R!ReadAnxt, R!ReadAend, R!ReadOther, R!ReadsA,
         R!NextPart, R!Finish, R!NextArchive

\* What the user makes of the files is one of the ways to deliver them.
LEMMA Delivery ==
  ASSUME SinkInv, NEW f, f \in Deliveries(PartFiles)
  PROVE  /\ f # <<>> /\ out # <<>>
         /\ \/ pc = "done" /\ f = Doubled(PartFiles)
            \/ f \in Joined(PartFiles)
            \/ /\ Len(f) \in 1..Len(out)
               /\ \A i \in 1..Len(f) :
                    \/ \E c \in 0..Len(PartFile(i)) : f[i] = SubSeq(PartFile(i), 1, c)
                    \/ i # 1 /\ \E j \in 2..Len(out) : j # i /\ f[i] = PartFile(j)
<1> DEFINE g == PartFiles
           n == Len(out)
<1>1. /\ g \in Seq(Seq(Tokens)) /\ Len(g) = n /\ n \in Nat /\ DOMAIN out = 1..n
      /\ \A i \in 1..n : g[i] = PartFile(i) /\ PartFile(i) \in Seq(Tokens)
  BY PartsSeq, Zenon
<1>2. g # <<>> /\ n # 0 /\ out # <<>>
  <2>1. g # <<>>
    BY DEF Deliveries
  <2> HIDE DEF g
  <2>2. n # 0
    BY <1>1, <2>1
  <2> QED
    BY <2>1, <2>2
<1>3. \A i \in 1..n : /\ Len(PartFile(i)) \in Nat
                      /\ \E c \in 0..Len(PartFile(i)) : PartFile(i) = SubSeq(PartFile(i), 1, c)
  <2> SUFFICES ASSUME NEW i \in 1..n
               PROVE  /\ Len(PartFile(i)) \in Nat
                      /\ \E c \in 0..Len(PartFile(i)) : PartFile(i) = SubSeq(PartFile(i), 1, c)
    OBVIOUS
  <2> DEFINE s == PartFile(i)
  <2>1. s \in Seq(Tokens)
    BY <1>1
  <2> HIDE DEF s
  <2>2. Len(s) \in Nat /\ s = SubSeq(s, 1, Len(s)) /\ Len(s) \in 0..Len(s)
    BY <2>1, SubSeqFull
  <2> QED
    BY <2>2 DEF s
<1>4. \/ f \in Missing(g) \/ f \in Misnamed(g) \/ f \in Joined(g) \/ f \in CutShort(g)
      \/ pc = "done" /\ f = Doubled(g)
  BY <1>2 DEF Deliveries
<1> DEFINE Cut(i) == \E c \in 0..Len(PartFile(i)) : f[i] = SubSeq(PartFile(i), 1, c)
           Wrong(i) == i # 1 /\ \E j \in 2..n : j # i /\ f[i] = PartFile(j)
           Separate == Len(f) \in 1..n /\ \A i \in 1..Len(f) : Cut(i) \/ Wrong(i)
<1>5. CASE f \in Missing(g)
  <2>1. PICK k \in 1..Len(g) : f = SubSeq(g, 1, k)
    BY <1>5 DEF Missing
  <2> HIDE DEF g, n
  <2>2. k \in 1..n /\ Len(f) = k /\ \A i \in 1..k : f[i] = g[i]
    BY <1>1, <2>1
  <2>3. \A i \in 1..k : i \in 1..n /\ f[i] = PartFile(i)
    BY <1>1, <2>2
  <2>4. Separate
    BY <1>3, <2>2, <2>3
  <2>5. f # <<>>
    BY <2>2
  <2> QED
    BY <1>2, <2>4, <2>5 DEF g, n
<1>6. CASE f \in Misnamed(g)
  <2>1. PICK i \in 2..Len(g), j \in 2..Len(g) : f = [g EXCEPT ![i] = g[j]]
    BY <1>6 DEF Misnamed
  <2> HIDE DEF g, n
  <2>2. /\ i \in 2..n /\ j \in 2..n /\ Len(f) = n /\ f[i] = g[j]
        /\ \A k \in 1..n : k # i => f[k] = g[k]
    BY <1>1, <2>1
  <2>3. \A k \in 1..n : k # i => f[k] = PartFile(k)
    BY <1>1, <2>2
  <2>4. f[i] = PartFile(j) /\ j \in 1..n
    BY <1>1, <2>2
  <2>5. Cut(i) \/ Wrong(i)
    <3>1. CASE j = i
      BY <1>3, <2>4, <3>1
    <3>2. CASE j # i
      BY <2>2, <2>4, <3>2
    <3> QED
      BY <3>1, <3>2
  <2>6. \A k \in 1..n : k # i => Cut(k)
    BY <1>3, <2>3
  <2>7. Separate
    <3>1. n \in 1..n
      BY <1>1, <1>2
    <3> QED
      BY <2>2, <2>5, <2>6, <3>1
  <2>8. f # <<>>
    BY <1>1, <1>2, <2>2
  <2> QED
    BY <1>2, <2>7, <2>8 DEF g, n
<1>7. CASE f \in CutShort(g)
  <2>1. PICK k \in 0..Len(g[Len(g)]) : f = [g EXCEPT ![Len(g)] = SubSeq(g[Len(g)], 1, k)]
    BY <1>7 DEF CutShort, Last
  <2> HIDE DEF g, n
  <2>2. n \in 1..n /\ Len(f) = n /\ f[n] = SubSeq(g[n], 1, k) /\ \A i \in 1..n : i # n => f[i] = g[i]
    BY <1>1, <1>2, <2>1
  <2>3. g[n] = PartFile(n) /\ k \in 0..Len(PartFile(n))
    BY <1>1, <2>1, <2>2
  <2>4. Cut(n)
    BY <2>2, <2>3
  <2>5. \A i \in 1..n : i # n => Cut(i)
    BY <1>1, <1>3, <2>2
  <2>6. Separate
    BY <2>2, <2>4, <2>5
  <2>7. f # <<>>
    BY <1>1, <1>2, <2>2
  <2> QED
    BY <1>2, <2>6, <2>7 DEF g, n
<1>8. CASE f \in Joined(g)
  <2>1. f # <<>>
    BY <1>8 DEF Joined
  <2> QED
    BY <1>2, <1>8, <2>1
<1>9. CASE pc = "done" /\ f = Doubled(g)
  <2>1. f # <<>>
    BY <1>9 DEF Doubled
  <2> QED
    BY <1>2, <1>9, <2>1
<1> QED
  BY <1>4, <1>5, <1>6, <1>7, <1>8, <1>9

LEMMA DeliverStep ==
  ASSUME SinkInv, ReaderInv, Deliver
  PROVE  ReaderInv'
<1>1. /\ pc \in {"done", "failed"} /\ files = <<>> /\ files' \in Deliveries(PartFiles)
      /\ UNCHANGED <<vars, rpc, opened, rest, number, next_archive, buf, items>>
  BY DEF Deliver
<1>2. rpc = "idle" /\ opened = 0 /\ items = <<>> /\ buf = <<>>
  BY <1>1 DEF ReaderInv
<1> DEFINE f == files'
<1>3. /\ f # <<>> /\ out # <<>>
      /\ \/ pc = "done" /\ f = Doubled(PartFiles)
         \/ f \in Joined(PartFiles)
         \/ /\ Len(f) \in 1..Len(out)
            /\ \A i \in 1..Len(f) :
                 \/ \E c \in 0..Len(PartFile(i)) : f[i] = SubSeq(PartFile(i), 1, c)
                 \/ i # 1 /\ \E j \in 2..Len(out) : j # i /\ f[i] = PartFile(j)
  BY <1>1, Delivery
<1>4. /\ UNCHANGED <<pc, out>> /\ PartFiles' = PartFiles
      /\ \A i : PartFile(i)' = PartFile(i)
  BY <1>1 DEF vars, PartFiles, PartFile, FragmentsBefore, Framed
<1>5. Delivered'
  BY <1>1, <1>3, <1>4 DEF Delivered, InOne, Twofold, Doubled, Joined
<1>6. At(rpc, opened, rest, number, next_archive, buf, items)'
  BY <1>1, <1>2 DEF At
<1> QED
  BY <1>3, <1>5, <1>6 DEF ReaderInv

LEMMA WriteStep ==
  ASSUME SinkInv, ReaderInv, Write
  PROVE  SinkInv' /\ ReaderInv'
<1>1. Next /\ AddEntries /\ files = <<>> /\ UNCHANGED rvars
  BY DEF Write
<1>2. SinkInv'
  BY <1>1, SinkStep
<1>3. ReaderInv'
  BY <1>1 DEF ReaderInv, rvars
<1> QED
  BY <1>2, <1>3

\* Once the files are there nothing about the parts changes any more.
LEMMA SinkKept ==
  ASSUME SinkInv, UNCHANGED vars
  PROVE  SinkInv'
<1>1. SizeInv' /\ OrderInv'
  BY SizeStep, OrderStep DEF SinkInv
<1>2. ClosedInv' /\ WithinInv'
  BY DEF SinkInv, ClosedInv, WithinInv, Complete, BetweenEntries, EndsChunk, vars
<1> QED
  BY <1>1, <1>2 DEF SinkInv

LEMMA RTInitInv == RTInit => RTInv
<1> SUFFICES ASSUME RTInit PROVE RTInv
  OBVIOUS
<1>1. SinkInv
  BY SinkInit DEF RTInit
<1>2. ReaderInv
  BY DEF RTInit, R!Idle, ReaderInv
<1> QED
  BY <1>1, <1>2 DEF RTInv

LEMMA RTStep == RTInv /\ RTNext => RTInv'
<1> SUFFICES ASSUME RTInv, RTNext PROVE RTInv'
  OBVIOUS
<1>1. SinkInv /\ ReaderInv
  BY DEF RTInv
<1>2. CASE Write
  BY <1>1, <1>2, WriteStep DEF RTInv
<1>3. CASE Deliver
  BY <1>1, <1>3, DeliverStep, SinkKept DEF RTInv, Deliver
<1>4. CASE Read
  BY <1>1, <1>4, ReadStep, SinkKept DEF RTInv, Read
<1> QED
  BY <1>2, <1>3, <1>4 DEF RTNext
-----------------------------------------------------------------------------
(* What fragments hold.                                                    *)

\* The start of a chunk, one of its bytes, and l bytes of it behind the o-th.
StartOf(m) == <<m, "start">>
ByteOf(m, k) == <<m, k>>
Bits == {StartOf(m) : m \in Nat} \cup {ByteOf(m, k) : m \in Nat, k \in Nat}
BytesOf(m, o, l) == [b \in 1..l |-> ByteOf(m, o + b)]
Hold(m, o, l) == (IF o = 0 THEN <<StartOf(m)>> ELSE <<>>) \o BytesOf(m, o, l)
Pieces(s) == \A k \in DOMAIN s : s[k].id \in Nat /\ s[k].off \in Nat /\ s[k].len \in Nat

LEMMA HoldTyped ==
  ASSUME NEW m \in Nat, NEW o \in Nat, NEW l \in Nat
  PROVE  Hold(m, o, l) \in Seq(Bits) /\ BytesOf(m, o, l) \in Seq(Bits) /\ <<StartOf(m)>> \in Seq(Bits)
<1> DEFINE x == StartOf(m)
<1>1. x \in Bits /\ \A b \in 1..l : ByteOf(m, o + b) \in Bits
  <2>1. x \in Bits
    BY DEF Bits
  <2>2. \A b \in 1..l : o + b \in Nat
    OBVIOUS
  <2>3. \A b \in 1..l : ByteOf(m, o + b) \in Bits
    BY <2>2 DEF Bits
  <2> QED
    BY <2>1, <2>3
<1> HIDE DEF x
<1>2. BytesOf(m, o, l) \in Seq(Bits)
  BY <1>1 DEF BytesOf
<1>3. <<x>> \in Seq(Bits) /\ <<>> \in Seq(Bits)
  BY <1>1
<1> DEFINE y == BytesOf(m, o, l)
           a == IF o = 0 THEN <<x>> ELSE <<>>
<1>4. y \in Seq(Bits) /\ a \in Seq(Bits)
  BY <1>2, <1>3
<1>5. Hold(m, o, l) = a \o y
  BY DEF Hold, x
<1> HIDE DEF y, a
<1>6. a \o y \in Seq(Bits)
  BY <1>4
<1> QED
  BY <1>2, <1>3, <1>5, <1>6 DEF x

\* Two fragments of one chunk hold what one fragment over both holds.
LEMMA HoldJoins ==
  ASSUME NEW m \in Nat, NEW a \in Nat, a # 0, NEW l \in Nat
  PROVE  Hold(m, 0, a) \o Hold(m, a, l) = Hold(m, 0, a + l)
<1> DEFINE h == <<StartOf(m)>>
           x == BytesOf(m, 0, a)
           y == BytesOf(m, a, l)
           z == BytesOf(m, 0, a + l)
<1>1. h \in Seq(Bits) /\ x \in Seq(Bits) /\ y \in Seq(Bits) /\ z \in Seq(Bits) /\ a + l \in Nat
  <2>1. a + l \in Nat /\ 0 \in Nat
    OBVIOUS
  <2> QED
    BY <2>1, HoldTyped
<1>2. Hold(m, 0, a) = h \o x /\ Hold(m, 0, a + l) = h \o z
  BY DEF Hold
<1>3. Hold(m, a, l) = y
  <2>1. Hold(m, a, l) = <<>> \o y
    BY DEF Hold
  <2> HIDE DEF y
  <2>2. <<>> \o y = y
    BY <1>1
  <2> QED
    BY <2>1, <2>2
<1>4. x \o y = z
  <2>1. /\ Len(x) = a /\ Len(y) = l /\ Len(z) = a + l
        /\ \A b \in 1..a : x[b] = ByteOf(m, 0 + b)
        /\ \A b \in 1..l : y[b] = ByteOf(m, a + b)
        /\ \A b \in 1..(a + l) : z[b] = ByteOf(m, 0 + b)
    <3>1. a + l \in Nat
      OBVIOUS
    <3> QED
      BY <3>1 DEF BytesOf
  <2> HIDE DEF x, y, z
  <2>2. x \o y \in Seq(Bits) /\ Len(x \o y) = a + l
    <3>1. x \o y \in Seq(Bits) /\ Len(x \o y) = Len(x) + Len(y)
      BY <1>1, ConcatParts
    <3>2. Len(x) = a /\ Len(y) = l
      BY <2>1
    <3> QED
      BY <3>1, <3>2
  <2>3. ASSUME NEW b \in 1..(a + l) PROVE (x \o y)[b] = z[b]
    <3>1. CASE b <= a
      <4>1. b \in 1..a
        BY <3>1
      <4>2. (x \o y)[b] = x[b]
        BY <1>1, <2>1, <4>1
      <4> QED
        BY <2>1, <4>1, <4>2
    <3>2. CASE ~(b <= a)
      <4> DEFINE c == b - a
      <4>1. c \in 1..l /\ a + c = b /\ 0 + b = b
        BY <3>2
      <4> HIDE DEF c
      <4>2. (x \o y)[a + c] = y[c]
        <5>1. \A k \in 1..Len(y) : (x \o y)[Len(x) + k] = y[k]
          BY <1>1, ConcatParts
        <5> QED
          BY <2>1, <4>1, <5>1
      <4>3. y[c] = ByteOf(m, a + c) /\ z[b] = ByteOf(m, 0 + b)
        BY <2>1, <4>1
      <4> QED
        BY <4>1, <4>2, <4>3
    <3> QED
      BY <3>1, <3>2
  <2> DEFINE u == x \o y
  <2>4. u \in Seq(Bits) /\ Len(u) = Len(z) /\ \A b \in 1..Len(z) : u[b] = z[b]
    BY <2>1, <2>2, <2>3
  <2> HIDE DEF u
  <2>5. u = z
    BY <1>1, <2>4
  <2> QED
    BY <2>5 DEF u
<1> HIDE DEF h, x, y, z
<1>5. (h \o x) \o y = h \o (x \o y)
  BY <1>1, Associates
<1> QED
  BY <1>2, <1>3, <1>4, <1>5, Zenon

\* The fragments of a sequence, one by one.
Held(s) == [k \in DOMAIN s |-> Hold(s[k].id, s[k].off, s[k].len)]

LEMMA ContentHeld ==
  ASSUME NEW T, NEW s \in Seq(T), Pieces(s)
  PROVE  /\ Held(s) \in Seq(Seq(Bits)) /\ Len(Held(s)) = Len(s)
         /\ Content(s) = FlattenSeq(Held(s)) /\ Content(s) \in Seq(Bits)
<1>1. DOMAIN s = 1..Len(s) /\ Len(s) \in Nat
  OBVIOUS
<1>2. \A k \in 1..Len(s) : Hold(s[k].id, s[k].off, s[k].len) \in Seq(Bits)
  BY <1>1, HoldTyped DEF Pieces
<1>3. Held(s) \in Seq(Seq(Bits)) /\ Len(Held(s)) = Len(s)
  BY <1>1, <1>2 DEF Held
<1>4. Content(s) = FlattenSeq(Held(s))
  BY Zenon DEF Content, Held, Hold, BytesOf, ByteOf, StartOf
<1> QED
  BY <1>3, <1>4, FlattenTyped

LEMMA ContentConcat ==
  ASSUME NEW T, NEW s \in Seq(T), NEW t \in Seq(T), Pieces(s), Pieces(t)
  PROVE  Content(s \o t) = Content(s) \o Content(t) /\ Pieces(s \o t)
<1> DEFINE u == s \o t
<1>1. /\ u \in Seq(T) /\ Len(u) = Len(s) + Len(t) /\ Len(s) \in Nat /\ Len(t) \in Nat
      /\ DOMAIN u = 1..Len(u) /\ DOMAIN s = 1..Len(s) /\ DOMAIN t = 1..Len(t)
  OBVIOUS
<1>2. \A k \in 1..Len(u) : \/ k \in 1..Len(s) /\ u[k] = s[k]
                           \/ k - Len(s) \in 1..Len(t) /\ u[k] = t[k - Len(s)]
  OBVIOUS
<1> HIDE DEF u
<1>3. Pieces(u)
  BY <1>1, <1>2 DEF Pieces
<1> DEFINE a == Held(s)
           b == Held(t)
           c == Held(u)
<1>4. /\ a \in Seq(Seq(Bits)) /\ Len(a) = Len(s) /\ b \in Seq(Seq(Bits)) /\ Len(b) = Len(t)
      /\ c \in Seq(Seq(Bits)) /\ Len(c) = Len(u)
      /\ Content(s) = FlattenSeq(a) /\ Content(t) = FlattenSeq(b) /\ Content(u) = FlattenSeq(c)
  BY <1>1, <1>3, ContentHeld
<1>5. c = a \o b
  <2>1. ASSUME NEW k \in 1..Len(u)
        PROVE  c[k] = (a \o b)[k]
    <3>1. /\ \A j \in 1..Len(s) : a[j] = Hold(s[j].id, s[j].off, s[j].len)
          /\ \A j \in 1..Len(t) : b[j] = Hold(t[j].id, t[j].off, t[j].len)
          /\ c[k] = Hold(u[k].id, u[k].off, u[k].len)
      BY <1>1 DEF Held
    <3> DEFINE e == c[k]
    <3> HIDE DEF a, b, c
    <3>2. CASE k \in 1..Len(s) /\ u[k] = s[k]
      <4>1. c[k] = a[k]
        BY <3>1, <3>2
      <4>2. (a \o b)[k] = a[k]
        BY <1>1, <1>4, <3>2
      <4> QED
        BY <4>1, <4>2
    <3>3. CASE k - Len(s) \in 1..Len(t) /\ u[k] = t[k - Len(s)]
      <4> DEFINE j == k - Len(s)
      <4>1. c[k] = b[j]
        BY <3>1, <3>3
      <4>2. j \in 1..Len(b) /\ Len(a) + j = k
        BY <1>1, <1>4, <3>3
      <4> HIDE DEF j
      <4>3. \A n \in 1..Len(b) : (a \o b)[Len(a) + n] = b[n]
        <5>1. a \in Seq(Seq(Bits)) /\ b \in Seq(Seq(Bits))
          BY <1>4
        <5> QED
          BY <5>1, ConcatParts
      <4>4. (a \o b)[k] = b[j]
        BY <4>2, <4>3
      <4> QED
        BY <4>1, <4>4
    <3> QED
      BY <1>2, <3>2, <3>3
  <2> DEFINE d == a \o b
  <2> HIDE DEF a, b, c
  <2>2. d \in Seq(Seq(Bits)) /\ Len(d) = Len(c) /\ \A k \in 1..Len(c) : c[k] = d[k]
    <3>1. d \in Seq(Seq(Bits)) /\ Len(d) = Len(a) + Len(b)
      BY <1>4, ConcatParts
    <3>2. Len(d) = Len(c)
      BY <1>1, <1>4, <3>1
    <3>3. \A k \in 1..Len(c) : c[k] = d[k]
      BY <1>4, <2>1
    <3> QED
      BY <3>1, <3>2, <3>3
  <2> HIDE DEF d
  <2>3. c = d
    BY <1>4, <2>2, SameElements
  <2> QED
    BY <2>3 DEF d
<1> HIDE DEF a, b, c
<1>6. FlattenSeq(a \o b) = FlattenSeq(a) \o FlattenSeq(b)
  BY <1>4, FlattenConcat
<1> QED
  BY <1>3, <1>4, <1>5, <1>6 DEF u

LEMMA ContentOne ==
  ASSUME NEW T, NEW x \in T, x.id \in Nat, x.off \in Nat, x.len \in Nat
  PROVE  /\ <<x>> \in Seq(T) /\ Pieces(<<x>>)
         /\ Content(<<x>>) = Hold(x.id, x.off, x.len)
<1> DEFINE w == <<x>>
           h == Hold(x.id, x.off, x.len)
<1>1. w \in Seq(T) /\ DOMAIN w = 1..1 /\ Len(w) = 1 /\ w[1] = x
  OBVIOUS
<1> HIDE DEF w
<1>2. Pieces(w)
  BY <1>1 DEF Pieces
<1>3. Held(w) = <<h>>
  <2>1. /\ Held(w) \in Seq(Seq(Bits)) /\ Len(Held(w)) = 1
    BY <1>1, <1>2, ContentHeld
  <2>2. Held(w)[1] = h
    BY <1>1 DEF Held
  <2> DEFINE v == Held(w)
  <2> HIDE DEF v, h
  <2>3. v = <<h>>
    BY <2>1, <2>2 DEF v
  <2> QED
    BY <2>3 DEF v
<1>4. h \in Seq(Bits)
  BY HoldTyped
<1>5. Content(w) = FlattenSeq(Held(w))
  BY <1>1, <1>2, ContentHeld
<1> HIDE DEF h
<1>6. FlattenSeq(<<h>>) = h
  BY <1>4, FlattenOne
<1> QED
  BY <1>1, <1>2, <1>3, <1>5, <1>6 DEF w, h

LEMMA ContentNothing == Content(<<>>) = <<>> /\ Pieces(<<>>)
<1> DEFINE e == <<>>
<1>1. e \in Seq(Nat) /\ DOMAIN e = {}
  OBVIOUS
<1>2. Held(e) = <<>>
  BY <1>1 DEF Held
<1> HIDE DEF e
<1>3. Pieces(e)
  BY <1>1 DEF Pieces
<1>4. Content(e) = FlattenSeq(<<>>)
  BY <1>1, <1>2, <1>3, ContentHeld
<1> QED
  BY <1>3, <1>4, FlattenEmpty DEF e
-----------------------------------------------------------------------------
(* The fragments hold the chunks, and the first entries are whole chunks.  *)

ChunkRecord == [id : Nat, off : Nat, len : Nat]
ChunkOf(i) == [id |-> i, off |-> 0, len |-> accepted[i].len]
FirstChunks(m) == [i \in 1..m |-> ChunkOf(i)]

LEMMA ChunkFacts ==
  ASSUME SinkInv, NEW i \in DOMAIN accepted
  PROVE  /\ i \in Nat /\ i >= 1 /\ i <= Len(accepted) /\ Len(accepted) \in Nat
         /\ ChunkOf(i) \in ChunkRecord /\ ChunkOf(i).id = i /\ ChunkOf(i).off = 0
         /\ ChunkOf(i).len = accepted[i].len /\ accepted[i].len \in Nat
<1>1. accepted[i].len \in Nat /\ DOMAIN accepted = 1..Len(accepted) /\ Len(accepted) \in Nat
  BY SinkTypes
<1> QED
  BY <1>1 DEF ChunkOf, ChunkRecord

LEMMA FirstChunksFacts ==
  ASSUME SinkInv, NEW m \in Nat, m <= Len(accepted)
  PROVE  /\ FirstChunks(m) \in Seq(ChunkRecord) /\ Pieces(FirstChunks(m)) /\ Len(FirstChunks(m)) = m
         /\ Content(FirstChunks(m)) \in Seq(Bits)
         /\ m + 1 <= Len(accepted) =>
              Content(FirstChunks(m + 1)) = Content(FirstChunks(m)) \o Hold(m + 1, 0, accepted[m + 1].len)
<1> DEFINE s == FirstChunks(m)
<1>1. DOMAIN accepted = 1..Len(accepted) /\ Len(accepted) \in Nat
  BY SinkTypes
<1>2. \A i \in 1..m : i \in DOMAIN accepted
  BY <1>1
<1>3. \A i \in 1..m : /\ ChunkOf(i) \in ChunkRecord
                      /\ ChunkOf(i).id \in Nat /\ ChunkOf(i).off \in Nat /\ ChunkOf(i).len \in Nat
  <2> SUFFICES ASSUME NEW i \in 1..m
               PROVE  /\ ChunkOf(i) \in ChunkRecord
                      /\ ChunkOf(i).id \in Nat /\ ChunkOf(i).off \in Nat /\ ChunkOf(i).len \in Nat
    OBVIOUS
  <2>1. i \in DOMAIN accepted
    BY <1>2
  <2> QED
    BY <2>1, ChunkFacts
<1>4. s \in Seq(ChunkRecord) /\ DOMAIN s = 1..m /\ Len(s) = m /\ \A i \in 1..m : s[i] = ChunkOf(i)
  BY <1>3 DEF FirstChunks
<1>5. Pieces(s)
  BY <1>3, <1>4 DEF Pieces
<1>6. Content(s) \in Seq(Bits)
  BY <1>4, <1>5, ContentHeld
<1>7. ASSUME m + 1 <= Len(accepted)
      PROVE  Content(FirstChunks(m + 1)) = Content(s) \o Hold(m + 1, 0, accepted[m + 1].len)
  <2> DEFINE x == ChunkOf(m + 1)
             w == <<x>>
             t == FirstChunks(m + 1)
  <2>1. m + 1 \in DOMAIN accepted
    BY <1>1, <1>7
  <2>2. /\ x \in ChunkRecord /\ x.id = m + 1 /\ x.off = 0 /\ x.len = accepted[m + 1].len
        /\ x.id \in Nat /\ x.off \in Nat /\ x.len \in Nat
    BY <2>1, ChunkFacts
  <2> HIDE DEF x
  <2>3. w \in Seq(ChunkRecord) /\ Pieces(w) /\ Content(w) = Hold(m + 1, 0, accepted[m + 1].len)
    BY <2>2, ContentOne
  <2>5. /\ Len(t) = m + 1 /\ t[m + 1] = x /\ \A i \in 1..m : t[i] = s[i]
        /\ t \in Seq(ChunkRecord)
    <3>1. \A i \in 1..(m + 1) : i \in 1..m \/ i = m + 1
      OBVIOUS
    <3>2. \A i \in 1..(m + 1) : ChunkOf(i) \in ChunkRecord
      BY <1>3, <2>2, <3>1 DEF x
    <3>3. t \in Seq(ChunkRecord) /\ Len(t) = m + 1 /\ \A i \in 1..(m + 1) : t[i] = ChunkOf(i)
      BY <3>2 DEF FirstChunks
    <3>4. m + 1 \in 1..(m + 1) /\ \A i \in 1..m : i \in 1..(m + 1)
      OBVIOUS
    <3> HIDE DEF t, s
    <3> QED
      BY <1>4, <3>3, <3>4 DEF x
  <2> HIDE DEF s, t, w
  <2>6. t = s \o w
    <3> DEFINE d == s \o w
    <3>1. d \in Seq(ChunkRecord) /\ Len(d) = m + 1 /\ d[m + 1] = x /\ \A i \in 1..m : d[i] = s[i]
      <4>1. s \in Seq(ChunkRecord) /\ Len(s) = m /\ x \in ChunkRecord
        BY <1>4, <2>2
      <4> QED
        BY <4>1, OneBehind DEF w
    <3> HIDE DEF d
    <3>2. Len(t) = Len(d) /\ \A i \in 1..Len(t) : t[i] = d[i]
      BY <2>5, <3>1
    <3>3. t = d
      BY <2>5, <3>1, <3>2, SameElements
    <3> QED
      BY <3>3 DEF d
  <2>7. Content(s \o w) = Content(s) \o Content(w)
    BY <1>4, <1>5, <2>3, ContentConcat
  <2> QED
    BY <2>3, <2>6, <2>7 DEF t
<1> QED
  BY <1>4, <1>5, <1>6, <1>7

LEMMA FirstChunksNone == FirstChunks(0) = <<>>
  BY DEF FirstChunks

LEMMA PrefixFacts ==
  ASSUME SinkInv, NEW r \in 0..Len(written)
  PROVE  /\ SubSeq(Framed, 1, r) \in Seq(Tokens) /\ Pieces(SubSeq(Framed, 1, r))
         /\ r = 0 => SubSeq(Framed, 1, r) = <<>>
         /\ r # Len(written) =>
              Content(SubSeq(Framed, 1, r + 1)) = Content(SubSeq(Framed, 1, r))
                \o Hold(written[r + 1].id, written[r + 1].off, written[r + 1].len)
<1> DEFINE f == Framed
           n == Len(written)
           s == SubSeq(f, 1, r)
<1>1. /\ f \in Seq(Tokens) /\ Len(f) = n /\ n \in Nat /\ r \in Nat
      /\ \A k \in 1..n : /\ f[k].id = written[k].id /\ f[k].off = written[k].off
                         /\ f[k].len = written[k].len
  BY FramedFacts
<1>2. \A k \in 1..n : written[k].id \in Nat /\ written[k].off \in Nat /\ written[k].len \in Nat
  BY FragmentAt
<1> HIDE DEF f, n
<1>3. s \in Seq(Tokens) /\ Len(s) = r /\ \A k \in 1..r : s[k] = f[k] /\ k \in 1..n
  BY <1>1 DEF n
<1>4. r = 0 => s = <<>>
  BY <1>1
<1>5. DOMAIN s = 1..r
  BY <1>3
<1> HIDE DEF s
<1>6. Pieces(s)
  BY <1>1, <1>2, <1>3, <1>5 DEF Pieces
<1>7. ASSUME r # n
      PROVE  Content(SubSeq(f, 1, r + 1)) = Content(s)
               \o Hold(written[r + 1].id, written[r + 1].off, written[r + 1].len)
  <2> DEFINE x == f[r + 1]
             w == <<x>>
             t == SubSeq(f, 1, r + 1)
  <2>1. r + 1 \in 1..n /\ r + 1 \in Nat
    BY <1>1, <1>7 DEF n
  <2>2. x \in Tokens
    BY <1>1, <2>1
  <2>3. /\ x.id = written[r + 1].id /\ x.off = written[r + 1].off /\ x.len = written[r + 1].len
        /\ x.id \in Nat /\ x.off \in Nat /\ x.len \in Nat
    BY <1>1, <1>2, <2>1
  <2> HIDE DEF x
  <2>4. /\ w \in Seq(Tokens) /\ Pieces(w)
        /\ Content(w) = Hold(written[r + 1].id, written[r + 1].off, written[r + 1].len)
    BY <2>2, <2>3, ContentOne
  <2>5. t = s \o w
    <3>1. t \in Seq(Tokens) /\ Len(t) = r + 1 /\ \A k \in 1..(r + 1) : t[k] = f[k]
      BY <1>1, <2>1
    <3> DEFINE d == s \o w
    <3> HIDE DEF t, w
    <3>3. d \in Seq(Tokens) /\ Len(d) = r + 1 /\ d[r + 1] = x /\ \A k \in 1..r : d[k] = s[k]
      <4>1. s \in Seq(Tokens) /\ Len(s) = r
        BY <1>3
      <4> QED
        BY <2>2, <4>1, OneBehind DEF w
    <3> HIDE DEF d
    <3>4. Len(t) = Len(d) /\ \A k \in 1..Len(t) : t[k] = d[k]
      BY <1>1, <1>3, <3>1, <3>3 DEF x
    <3>5. t = d
      BY <3>1, <3>3, <3>4, SameElements
    <3> QED
      BY <3>5 DEF d, t
  <2> HIDE DEF w, t
  <2>6. Content(s \o w) = Content(s) \o Content(w)
    BY <1>3, <1>6, <2>4, ContentConcat
  <2> QED
    BY <2>4, <2>5, <2>6 DEF t
<1> QED
  BY <1>3, <1>4, <1>6, <1>7 DEF s, f, n

\* The first fragments hold the chunks before the last one's, and its start.
LEMMA ContentPrefix ==
  ASSUME SinkInv, NEW r \in 1..Len(written)
  PROVE  /\ written[r].id - 1 \in Nat /\ written[r].id <= Len(accepted)
         /\ Content(SubSeq(Framed, 1, r)) =
              Content(FirstChunks(written[r].id - 1))
                \o Hold(written[r].id, 0, written[r].off + written[r].len)
<1> DEFINE n == Len(written)
           w == written
           P(k) == Content(SubSeq(Framed, 1, k)) =
                     Content(FirstChunks(w[k].id - 1)) \o Hold(w[k].id, 0, w[k].off + w[k].len)
           G == {k \in Nat : k + 1 <= n => P(k + 1)}
<1>1. n \in Nat
  BY SinkTypes
<1>2. \A k \in 1..n : /\ w[k].id \in Nat /\ w[k].id - 1 \in Nat /\ w[k].id <= Len(accepted)
                      /\ w[k].off \in Nat /\ w[k].len \in Nat /\ w[k].id \in DOMAIN accepted
  <2> SUFFICES ASSUME NEW k \in 1..n
               PROVE  /\ w[k].id \in Nat /\ w[k].id - 1 \in Nat /\ w[k].id <= Len(accepted)
                      /\ w[k].off \in Nat /\ w[k].len \in Nat /\ w[k].id \in DOMAIN accepted
    OBVIOUS
  <2>1. w[k].id \in DOMAIN accepted /\ w[k].off \in Nat /\ w[k].len \in Nat
    BY FragmentAt
  <2> DEFINE i == w[k].id
  <2> HIDE DEF i
  <2>2. i \in Nat /\ i >= 1 /\ i <= Len(accepted)
    BY <2>1, ChunkFacts DEF i
  <2>3. i - 1 \in Nat
    BY <2>2
  <2> QED
    BY <2>1, <2>2, <2>3 DEF i
<1>3. 0 \in G
  <2> SUFFICES ASSUME 0 + 1 <= n PROVE P(1)
    OBVIOUS
  <2>1. 1 \in 1..n /\ 0 \in 0..n /\ 0 # n /\ 0 + 1 = 1
    BY <1>1
  <2>2. w[1].id = 1 /\ w[1].off = 0 /\ w[1].len \in Nat
    BY <2>1, FragmentAt
  <2>3. Content(SubSeq(Framed, 1, 1)) = Content(SubSeq(Framed, 1, 0)) \o Hold(w[1].id, w[1].off, w[1].len)
    BY <2>1, PrefixFacts
  <2>4. SubSeq(Framed, 1, 0) = <<>>
    BY <2>1, PrefixFacts
  <2>5. FirstChunks(1 - 1) = <<>>
    BY FirstChunksNone
  <2>6. w[1].off + w[1].len = w[1].len /\ w[1].id - 1 = 1 - 1
    BY <2>2
  <2> QED
    BY <2>2, <2>3, <2>4, <2>5, <2>6, Zenon
<1>4. ASSUME NEW k \in Nat, k \in G PROVE k + 1 \in G
  <2> DEFINE j == k + 1
  <2>0. j \in Nat /\ j + 1 = (k + 1) + 1
    OBVIOUS
  <2> SUFFICES ASSUME j + 1 <= n PROVE P(j + 1)
    BY <2>0
  <2>1. j \in 1..n /\ j + 1 \in 1..n /\ j \in 0..n /\ j # n /\ j + 1 # 1 /\ (j + 1) - 1 = j
    BY <1>1
  <2>2. P(j)
    BY <1>4, <2>1
  <2> DEFINE m == w[j].id
             a == w[j].off + w[j].len
             v == w[j + 1]
             c == Content(FirstChunks(m - 1))
             s == Content(SubSeq(Framed, 1, j))
             t == Content(SubSeq(Framed, 1, j + 1))
  <2> HIDE DEF j
  <2>3. t = s \o Hold(v.id, v.off, v.len)
    BY <2>1, PrefixFacts
  <2>4. \/ v.id = m /\ w[j].len > 0 /\ v.off = a
        \/ EndsChunk(w[j]) /\ v.id = m + 1 /\ v.off = 0
    BY <2>1, FragmentAt
  <2>5. /\ m \in Nat /\ m - 1 \in Nat /\ m <= Len(accepted) /\ v.len \in Nat /\ m \in DOMAIN accepted
        /\ w[j].off \in Nat /\ w[j].len \in Nat /\ v.id <= Len(accepted)
    BY <1>2, <2>1
  <2>6. a \in Nat /\ (w[j].len > 0 => a # 0)
    <3> DEFINE x == w[j].off
               y == w[j].len
    <3>1. x \in Nat /\ y \in Nat
      BY <2>5
    <3> HIDE DEF x, y
    <3>2. x + y \in Nat /\ (y > 0 => x + y # 0)
      BY <3>1
    <3> QED
      BY <3>2 DEF x, y
  <2>7. s = c \o Hold(m, 0, a)
    BY <2>2
  <2>8. c \in Seq(Bits)
    <3>1. m - 1 \in Nat /\ m - 1 <= Len(accepted)
      <4>1. Len(accepted) \in Nat
        BY SinkTypes
      <4> QED
        BY <2>5, <4>1
    <3> QED
      BY <3>1, FirstChunksFacts
  <2> SUFFICES t = Content(FirstChunks(v.id - 1)) \o Hold(v.id, 0, v.off + v.len)
    OBVIOUS
  <2>9. CASE v.id = m /\ w[j].len > 0 /\ v.off = a
    <3> DEFINE x == Hold(m, 0, a)
               y == Hold(m, a, v.len)
    <3>1. x \in Seq(Bits) /\ y \in Seq(Bits)
      BY <2>5, <2>6, HoldTyped
    <3>2. x \o y = Hold(m, 0, a + v.len)
      <4> DEFINE l == v.len
      <4>1. m \in Nat /\ a \in Nat /\ a # 0 /\ l \in Nat
        BY <2>5, <2>6, <2>9
      <4> HIDE DEF a, m, l
      <4>2. Hold(m, 0, a) \o Hold(m, a, l) = Hold(m, 0, a + l)
        BY <4>1, HoldJoins
      <4> QED
        BY <4>2 DEF l
    <3>3. t = (c \o x) \o y
      BY <2>3, <2>7, <2>9
    <3> HIDE DEF c, x, y, t, s
    <3>4. (c \o x) \o y = c \o (x \o y)
      BY <2>8, <3>1, Associates
    <3>5. t = c \o Hold(m, 0, a + v.len)
      BY <3>2, <3>3, <3>4, Zenon
    <3> QED
      BY <2>9, <3>5 DEF c
  <2>10. CASE EndsChunk(w[j]) /\ v.id = m + 1 /\ v.off = 0
    <3>1. a = accepted[m].len
      BY <2>10 DEF EndsChunk
    <3> DEFINE i == m - 1
    <3>2. i \in Nat /\ i + 1 = m /\ i <= Len(accepted) /\ i + 1 <= Len(accepted)
      <4>1. Len(accepted) \in Nat
        BY SinkTypes
      <4> QED
        BY <2>5, <4>1
    <3> HIDE DEF i
    <3>3. Content(FirstChunks(i + 1)) = Content(FirstChunks(i)) \o Hold(i + 1, 0, accepted[i + 1].len)
      BY <3>2, FirstChunksFacts
    <3>4. Content(FirstChunks(m)) = c \o Hold(m, 0, a)
      BY <3>1, <3>2, <3>3 DEF i
    <3>5. s = Content(FirstChunks(m))
      BY <2>7, <3>4
    <3>6. v.id - 1 = m /\ v.off + v.len = v.len
      <4> DEFINE x == v.id
                 y == v.off
                 z == v.len
      <4>1. m \in Nat /\ z \in Nat /\ x = m + 1 /\ y = 0
        BY <2>5, <2>10
      <4> HIDE DEF x, y, z, m
      <4>2. x - 1 = m /\ y + z = z
        BY <4>1
      <4> QED
        BY <4>2 DEF x, y, z
    <3> HIDE DEF s, t
    <3> QED
      BY <2>3, <2>10, <3>5, <3>6
  <2> QED
    BY <2>4, <2>9, <2>10
<1> DEFINE i == r - 1
<1>5. i \in Nat /\ i + 1 = r /\ i + 1 <= n
  BY <1>1
<1> HIDE DEF G
<1>6. i \in G
  BY <1>3, <1>4, <1>5, SetInduction
<1>7. P(r)
  BY <1>5, <1>6 DEF G
<1> QED
  BY <1>2, <1>7
-----------------------------------------------------------------------------
(* The entries.                                                            *)

Below(c) == {j \in EntryEnds : j < c}
UpTo(m) == {j \in EntryEnds : j <= m}
Within(n) == {c \in DOMAIN accepted : Cardinality(Below(c)) < n}

LEMMA OfFirstOver ==
  ASSUME NEW n, NEW m, Within(n) = 1..m
  PROVE  OfFirst(n) = FirstChunks(m)
<1>1. OfFirst(n) = [i \in Within(n) |-> ChunkOf(i)]
  BY DEF OfFirst, Within, Below, ChunkOf
<1> QED
  BY <1>1, Zenon DEF FirstChunks

LEMMA BelowFacts ==
  ASSUME SinkInv, NEW c
  PROVE  /\ IsFiniteSet(Below(c)) /\ Cardinality(Below(c)) \in 0..Written
         /\ IsFiniteSet(UpTo(c)) /\ Cardinality(UpTo(c)) \in 0..Written
         /\ Below(c) = EntryEnds \/ Cardinality(Below(c)) # Written
<1>1. Below(c) \in SUBSET EntryEnds /\ UpTo(c) \in SUBSET EntryEnds
  BY DEF Below, UpTo
<1>2. IsFiniteSet(EntryEnds) /\ Written \in Nat /\ Written = Cardinality(EntryEnds)
  BY EntryEndsFinite DEF Written
<1>3. /\ IsFiniteSet(Below(c)) /\ Cardinality(Below(c)) <= Cardinality(EntryEnds)
      /\ Cardinality(EntryEnds) = Cardinality(Below(c)) => EntryEnds = Below(c)
      /\ IsFiniteSet(UpTo(c)) /\ Cardinality(UpTo(c)) <= Cardinality(EntryEnds)
  BY <1>1, <1>2, FS_Subset
<1>4. Cardinality(Below(c)) \in Nat /\ Cardinality(UpTo(c)) \in Nat
  BY <1>3, FS_CardinalityType
<1> QED
  BY <1>2, <1>3, <1>4

\* The chunks up to the end of an entry are those of the entries so far.
LEMMA OfFirstIs ==
  ASSUME SinkInv, NEW m \in EntryEnds
  PROVE  OfFirst(Cardinality(UpTo(m))) = FirstChunks(m)
<1> DEFINE n == Cardinality(UpTo(m))
           l == Len(accepted)
<1>1. m \in Nat /\ m >= 1 /\ m <= l /\ l \in Nat /\ DOMAIN accepted = 1..l
  BY EntryEndsFinite, SinkTypes
<1>2. IsFiniteSet(UpTo(m)) /\ n \in Nat
  BY BelowFacts, EntryEndsFinite
<1>3. ASSUME NEW c \in 1..l PROVE Cardinality(Below(c)) < n <=> c <= m
  <2>1. IsFiniteSet(Below(c)) /\ Cardinality(Below(c)) \in Nat
    BY BelowFacts, EntryEndsFinite
  <2>2. \A j \in EntryEnds : j \in Nat
    BY EntryEndsFinite
  <2>3. CASE c <= m
    <3>1. Below(c) \in SUBSET UpTo(m)
      <4>1. \A j \in Nat : j < c => j <= m
        BY <1>1, <2>3
      <4> QED
        BY <2>2, <4>1, Zenon DEF Below, UpTo
    <3>2. m \in UpTo(m) /\ m \notin Below(c)
      BY <1>1, <2>3 DEF Below, UpTo
    <3>3. Cardinality(Below(c)) <= n /\ Cardinality(Below(c)) # n
      BY <1>2, <3>1, <3>2, FS_Subset
    <3> HIDE DEF n
    <3>4. Cardinality(Below(c)) < n
      BY <1>2, <2>1, <3>3
    <3> QED
      BY <2>3, <3>4
  <2>4. CASE ~(c <= m)
    <3>1. UpTo(m) \in SUBSET Below(c)
      <4>1. \A j \in Nat : j <= m => j < c
        BY <1>1, <2>4
      <4> QED
        BY <2>2, <4>1, Zenon DEF Below, UpTo
    <3>2. n <= Cardinality(Below(c))
      BY <2>1, <3>1, FS_Subset
    <3> HIDE DEF n
    <3>3. ~(Cardinality(Below(c)) < n)
      BY <1>2, <2>1, <3>2
    <3> QED
      BY <2>4, <3>3
  <2> QED
    BY <2>3, <2>4
<1> HIDE DEF n
<1>4. Within(n) = 1..m
  <2>1. \A c : c \in 1..m <=> c \in 1..l /\ c <= m
    BY <1>1
  <2>2. \A c : c \in Within(n) <=> c \in 1..l /\ c <= m
    BY <1>1, <1>3 DEF Within
  <2> QED
    BY <2>1, <2>2
<1> QED
  BY <1>4, OfFirstOver DEF n

LEMMA OfNone ==
  ASSUME SinkInv, NEW n \in Int, n <= 0
  PROVE  OfFirst(n) = <<>> /\ OfFirst(n) = FirstChunks(0)
<1>1. \A c : Cardinality(Below(c)) \in 0..Written /\ Written \in Nat
  BY BelowFacts, EntryEndsFinite
<1>2. \A c : ~(Cardinality(Below(c)) < n)
  <2> SUFFICES ASSUME NEW c PROVE ~(Cardinality(Below(c)) < n)
    OBVIOUS
  <2> DEFINE k == Cardinality(Below(c))
  <2>1. k \in Nat
    BY <1>1
  <2> HIDE DEF k
  <2> QED
    BY <2>1 DEF k
<1>3. Within(n) = {}
  BY <1>2 DEF Within
<1>4. 1..0 = {}
  OBVIOUS
<1> QED
  BY <1>3, <1>4, OfFirstOver, FirstChunksNone

\* A complete archive has no chunk behind its last entry.
LEMMA OfAll ==
  ASSUME SinkInv, Complete, NEW n \in Nat, n >= Written
  PROVE  OfFirst(n) = FirstChunks(Len(accepted))
<1> DEFINE l == Len(accepted)
<1>1. l \in Nat /\ DOMAIN accepted = 1..l /\ accepted \in Seq(Inputs) /\ Written \in Nat
  BY SinkTypes, EntryEndsFinite
<1>2. ASSUME NEW c \in 1..l PROVE Cardinality(Below(c)) < n
  <2>1. accepted # <<>> /\ l \in 1..l /\ c <= l
    BY <1>1
  <2>2. Closes(accepted[l])
    BY <2>1 DEF Complete, BetweenEntries, Last
  <2>3. l \in EntryEnds /\ l \notin Below(c)
    BY <1>1, <2>1, <2>2 DEF EntryEnds, Below
  <2> DEFINE k == Cardinality(Below(c))
  <2>4. k \in 0..Written /\ k # Written
    BY <2>3, BelowFacts
  <2> HIDE DEF k
  <2>5. k < n
    BY <1>1, <2>4
  <2> QED
    BY <2>5 DEF k
<1>3. Within(n) = 1..l
  BY <1>1, <1>2 DEF Within
<1> QED
  BY <1>3, OfFirstOver

\* The fragments up to one that closes an entry hold the first entries.
LEMMA ContentClosed ==
  ASSUME SinkInv, NEW r \in 0..Len(written), r # 0 => Closes(Framed[r])
  PROVE  /\ Content(SubSeq(Framed, 1, r)) = Content(OfFirst(Cardinality(ClosersTo(r))))
         /\ OfFirst(Cardinality(ClosersTo(r))) \in Seq(ChunkRecord)
         /\ Pieces(OfFirst(Cardinality(ClosersTo(r))))
<1> DEFINE n == Cardinality(ClosersTo(r))
<1>1. Len(written) \in Nat /\ Len(accepted) \in Nat /\ n = Cardinality(Ended(r))
  BY SinkTypes, Counting
<1>2. CASE r = 0
  <2>1. n = 0
    <3>1. Ended(r) = {}
      BY <1>2 DEF Ended
    <3> QED
      BY <1>1, <3>1, FS_EmptySet
  <2>2. OfFirst(0) = <<>> /\ OfFirst(0) = FirstChunks(0)
    BY OfNone
  <2>3. FirstChunks(0) \in Seq(ChunkRecord) /\ Pieces(FirstChunks(0))
    <3>1. 0 <= Len(accepted)
      BY <1>1
    <3> QED
      BY <3>1, FirstChunksFacts
  <2>4. SubSeq(Framed, 1, r) = <<>>
    BY <1>2, PrefixFacts
  <2> HIDE DEF n
  <2>5. OfFirst(n) = <<>> /\ OfFirst(n) \in Seq(ChunkRecord) /\ Pieces(OfFirst(n))
    BY <2>1, <2>2, <2>3
  <2> QED
    BY <2>4, <2>5 DEF n
<1>3. CASE r # 0
  <2> DEFINE m == written[r].id
             o == written[r].off
             e == written[r].len
  <2>1. r \in 1..Len(written)
    BY <1>1, <1>3
  <2>2. m \in EntryEnds /\ EndsChunk(written[r]) /\ m \in Nat /\ o \in Nat /\ e \in Nat
    BY <1>3, <2>1, FragmentAt
  <2>3. o + e = accepted[m].len
    BY <2>2 DEF EndsChunk
  <2>4. m - 1 \in Nat /\ m <= Len(accepted)
        /\ Content(SubSeq(Framed, 1, r)) = Content(FirstChunks(m - 1)) \o Hold(m, 0, o + e)
    BY <2>1, ContentPrefix
  <2> DEFINE i == m - 1
  <2>5. i + 1 = m /\ i \in Nat /\ i <= Len(accepted) /\ i + 1 <= Len(accepted)
    <3> HIDE DEF m
    <3> QED
      BY <1>1, <2>2, <2>4
  <2> HIDE DEF i
  <2>6. Content(FirstChunks(i + 1)) = Content(FirstChunks(i)) \o Hold(i + 1, 0, accepted[i + 1].len)
    BY <2>5, FirstChunksFacts
  <2>7. Content(SubSeq(Framed, 1, r)) = Content(FirstChunks(m))
    BY <2>3, <2>4, <2>5, <2>6 DEF i
  <2>8. FirstChunks(m) \in Seq(ChunkRecord) /\ Pieces(FirstChunks(m))
    BY <2>2, <2>4, FirstChunksFacts
  <2>9. Ended(r) = UpTo(m)
    <3>1. \A j \in EntryEnds : j \in Nat
      BY EntryEndsFinite
    <3>2. \A j \in EntryEnds : (j < m \/ j = m) <=> j <= m
      <4>1. \A j \in Nat : (j < m \/ j = m) <=> j <= m
        <5>1. m \in Nat
          BY <2>2
        <5> HIDE DEF m
        <5> QED
          BY <5>1
      <4> QED
        BY <3>1, <4>1
    <3> QED
      BY <1>3, <2>2, <3>2 DEF Ended, UpTo
  <2>10. OfFirst(Cardinality(UpTo(m))) = FirstChunks(m)
    BY <2>2, OfFirstIs
  <2>11. OfFirst(n) = FirstChunks(m)
    BY <1>1, <2>9, <2>10
  <2> HIDE DEF n, m
  <2>12. /\ Content(SubSeq(Framed, 1, r)) = Content(OfFirst(n))
         /\ OfFirst(n) \in Seq(ChunkRecord) /\ Pieces(OfFirst(n))
    BY <2>7, <2>8, <2>11
  <2> QED
    BY <2>12 DEF n
<1> QED
  BY <1>2, <1>3

LEMMA TwiceIs == Twice <=> Twofold /\ concatenated
  BY DEF Twice, Twofold

\* What the reader has got are the first entries.
LEMMA GotEntries ==
  ASSUME SinkInv, NEW p, NEW r0, NEW r, NEW its, NEW b, Got(p, r0, r, its, b)
  PROVE  /\ Len(its) <= Expected /\ Len(its) \in Nat
         /\ Content(FlattenSeq(its)) = Content(OfFirst(Len(its)) \o OfFirst(Len(its) - Written))
         /\ \A k \in DOMAIN its : {c \in DOMAIN its[k] : Closes(its[k][c])} = {Len(its[k])}
<1> DEFINE n == Len(its)
           k0 == Cardinality(ClosersTo(r0))
           s == SubSeq(Framed, 1, r0)
           W == Written
           L == Len(written)
<1>1. /\ FlattenSeq(its) = (IF p = 1 THEN Framed ELSE <<>>) \o s
      /\ n = p * W + k0 /\ p \in 0..1
      /\ r0 # 0 => Closes(Framed[r0])
      /\ p = 1 => Twofold /\ concatenated /\ Complete
      /\ \A k \in DOMAIN its : {c \in DOMAIN its[k] : Closes(its[k][c])} = {Len(its[k])}
  BY DEF Got
<1>2. r0 \in 0..L /\ L \in Nat
  <2>1. L \in Nat /\ r \in 0..L /\ r0 \in 0..r
    BY GotTyped
  <2> HIDE DEF L
  <2> QED
    BY <2>1
<1>3. k0 \in 0..W /\ W \in Nat
  BY <1>2, AllCounted, EntryEndsFinite
<1>4. Expected = IF Twofold /\ concatenated THEN 2 * W ELSE W
  BY TwiceIs DEF Expected
<1>5. /\ Content(s) = Content(OfFirst(k0))
      /\ OfFirst(k0) \in Seq(ChunkRecord) /\ Pieces(OfFirst(k0))
  BY <1>1, <1>2, ContentClosed
<1>6. s \in Seq(Tokens) /\ Pieces(s)
  BY <1>2, PrefixFacts
<1>7. CASE p = 0
  <2>1. n = k0 /\ n <= Expected /\ n \in Nat /\ n - W \in Int /\ n - W <= 0
    <3> HIDE DEF n, k0, W
    <3>1. 0 * W = 0
      BY <1>3
    <3> QED
      BY <1>1, <1>3, <1>4, <1>7, <3>1
  <2>2. FlattenSeq(its) = s
    <3> HIDE DEF s
    <3>1. <<>> \o s = s
      BY <1>6
    <3>2. (IF p = 1 THEN Framed ELSE <<>>) = <<>>
      BY <1>7
    <3> QED
      BY <1>1, <3>1, <3>2
  <2> DEFINE d == n - W
             u == OfFirst(n)
  <2>3. OfFirst(d) = <<>>
    <3> HIDE DEF n, W
    <3>1. d \in Int /\ d <= 0
      BY <2>1
    <3> HIDE DEF d
    <3> QED
      BY <3>1, OfNone
  <2>4. u \in Seq(ChunkRecord) /\ Content(s) = Content(u)
    BY <1>5, <2>1
  <2> HIDE DEF u
  <2>5. u \o <<>> = u
    BY <2>4
  <2>6. Content(FlattenSeq(its)) = Content(u \o OfFirst(d))
    BY <2>2, <2>3, <2>4, <2>5
  <2> QED
    BY <1>1, <2>1, <2>6 DEF u
<1>8. CASE p = 1
  <2>1. /\ n = W + k0 /\ n <= Expected /\ n \in Nat /\ n >= W /\ n - W = k0
    <3>1. Twofold /\ concatenated
      BY <1>1, <1>8
    <3>2. Expected = 2 * W
      BY <1>4, <3>1
    <3> HIDE DEF n, k0, W
    <3>3. 1 * W = W
      BY <1>3
    <3> QED
      BY <1>1, <1>3, <1>8, <3>2, <3>3
  <2>2. Complete
    BY <1>1, <1>8
  <2> DEFINE u == OfFirst(n)
             v == OfFirst(k0)
             f == Framed
  <2>3. OfFirst(n) = FirstChunks(Len(accepted)) /\ OfFirst(W) = FirstChunks(Len(accepted))
    <3>1. W \in Nat /\ W >= W
      BY <1>3
    <3> QED
      BY <2>1, <2>2, <3>1, OfAll
  <2>4. f \in Seq(Tokens) /\ Len(f) = L
    BY FramedFacts
  <2>5. SubSeq(f, 1, L) = f
    <3> HIDE DEF f, L
    <3> QED
      BY <2>4, SubSeqFull
  <2>6. L \in 0..L /\ (L # 0 => Closes(f[L])) /\ Cardinality(ClosersTo(L)) = W
    <3>1. L # 0 => written # <<>>
      BY SinkTypes
    <3> QED
      BY <1>2, <2>2, <3>1, AllCounted
  <2>7. Content(f) = Content(u) /\ u \in Seq(ChunkRecord) /\ Pieces(u)
    <3>1. /\ Content(SubSeq(Framed, 1, L)) = Content(OfFirst(Cardinality(ClosersTo(L))))
          /\ OfFirst(Cardinality(ClosersTo(L))) \in Seq(ChunkRecord)
          /\ Pieces(OfFirst(Cardinality(ClosersTo(L))))
      BY <2>6, ContentClosed
    <3>2. OfFirst(Cardinality(ClosersTo(L))) = u
      BY <2>3, <2>6
    <3> HIDE DEF u, L
    <3> QED
      BY <2>5, <3>1, <3>2
  <2>8. Pieces(f)
    <3>1. Pieces(SubSeq(f, 1, L))
      BY <2>6, PrefixFacts
    <3> QED
      BY <2>5, <3>1
  <2>9. FlattenSeq(its) = f \o s
    BY <1>1, <1>8
  <2> HIDE DEF f, s, u, v
  <2>10. Content(f \o s) = Content(f) \o Content(s)
    BY <1>6, <2>4, <2>8, ContentConcat
  <2>11. v \in Seq(ChunkRecord) /\ Pieces(v) /\ Content(s) = Content(v)
    BY <1>5 DEF v
  <2>12. Content(u \o v) = Content(u) \o Content(v)
    BY <2>7, <2>11, ContentConcat
  <2>13. Content(FlattenSeq(its)) = Content(u \o v)
    BY <2>7, <2>9, <2>10, <2>11, <2>12, Zenon
  <2> QED
    BY <1>1, <2>1, <2>13 DEF u, v
<1> QED
  BY <1>1, <1>7, <1>8
-----------------------------------------------------------------------------
(* What comes out.                                                         *)

LEMMA SomeEntries ==
  ASSUME SinkInv, NEW its, NEW b, SomeRead(its, b)
  PROVE  /\ Len(its) <= Expected
         /\ Content(FlattenSeq(its)) = Content(OfFirst(Len(its)) \o OfFirst(Len(its) - Written))
         /\ \A k \in DOMAIN its : {c \in DOMAIN its[k] : Closes(its[k][c])} = {Len(its[k])}
<1>1. PICK p, r, r0 : Got(p, r0, r, its, b)
  BY DEF SomeRead
<1> QED
  BY <1>1, GotEntries

LEMMA GotAll ==
  ASSUME SinkInv, NEW p \in 0..1, NEW its, NEW b, AllRead(p, its, b), out # <<>>
  PROVE  /\ SomeRead(its, b) /\ b = <<>> /\ Len(its) = Expected
<1> DEFINE n == Len(written)
           W == Written
<1>1. PICK r0 \in 0..n : Got(p, r0, n, its, b)
  BY DEF AllRead
<1>2. Complete /\ (Twofold /\ concatenated => p = 1)
  BY PartEnds DEF AllRead
<1>3. /\ n \in Nat /\ r0 \in 0..n /\ b = SubSeq(Framed, r0 + 1, n)
      /\ r0 # n => ~Closes(Framed[n])
  BY <1>1, GotTyped
<1>4. r0 = n
  <2>1. n # 0 => written # <<>> /\ Closes(Framed[n])
    <3>1. n # 0 => written # <<>>
      BY SinkTypes
    <3> QED
      BY <1>2, <3>1, AllCounted
  <2> HIDE DEF n
  <2>2. r0 # n => n # 0
    BY <1>3
  <2> QED
    BY <1>3, <2>1, <2>2
<1>5. b = <<>>
  <2> DEFINE f == Framed
  <2>1. f \in Seq(Tokens)
    BY FramedFacts
  <2> HIDE DEF f, n
  <2>2. SubSeq(f, n + 1, n) = <<>>
    BY <1>3, <2>1
  <2> QED
    BY <1>3, <1>4, <2>2 DEF f
<1>6. /\ Len(its) = p * W + Cardinality(ClosersTo(n))
      /\ p = 1 => Twofold /\ concatenated
  BY <1>1, <1>4 DEF Got
<1>7. Cardinality(ClosersTo(n)) = W /\ W \in Nat
  BY <1>2, AllCounted, EntryEndsFinite
<1>8. Expected = IF Twofold /\ concatenated THEN 2 * W ELSE W
  BY TwiceIs DEF Expected
<1>9. Len(its) = Expected
  <2> DEFINE l == Len(its)
  <2>1. l = p * W + W /\ W \in Nat
    BY <1>6, <1>7
  <2>2. CASE p = 0
    <3>1. ~(Twofold /\ concatenated)
      BY <1>2, <2>2
    <3>2. Expected = W
      BY <1>8, <3>1
    <3> HIDE DEF l, W
    <3>3. l = 0 * W + W
      BY <2>1, <2>2
    <3>4. l = W
      BY <2>1, <3>3
    <3> QED
      BY <3>2, <3>4 DEF l
  <2>3. CASE p = 1
    <3>1. Twofold /\ concatenated
      BY <1>6, <2>3
    <3>2. Expected = 2 * W
      BY <1>8, <3>1
    <3> HIDE DEF l, W
    <3>3. l = 1 * W + W
      BY <2>1, <2>3
    <3>4. l = 2 * W
      BY <2>1, <3>3
    <3> QED
      BY <3>2, <3>4 DEF l
  <2> QED
    BY <2>2, <2>3
<1>10. SomeRead(its, b)
  BY <1>1, GotSome
<1> QED
  BY <1>5, <1>9, <1>10

LEMMA AtHasRead ==
  ASSUME SinkInv, Delivered, NEW s, NEW o, NEW r, NEW n, NEW x, NEW b, NEW its,
         At(s, o, r, n, x, b, its)
  PROVE  SomeRead(its, b) /\ (s = "ok" => b = <<>> /\ Len(its) = Expected) /\ (s = "error" => ~Whole)
<1>1. s \in {"idle", "items", "end", "ok", "error"} /\ out # <<>>
  BY DEF At, Delivered
<1>2. CASE s = "idle"
  BY <1>2, GotNothing, GotSome DEF At
<1>3. CASE s = "items"
  <2>1. PICK p, i, q : InItems(p, i, q, o, r, n, x, its, b)
    BY <1>3 DEF At
  <2> QED
    BY <1>3, <2>1, GotSome DEF InItems
<1>4. CASE s = "end"
  <2>1. PICK p, i : p \in 0..1 /\ AtEnd(p, i, o, r, n, x, its, b)
    BY <1>4 DEF At
  <2> QED
    BY <1>4, <2>1, GotSome DEF AtEnd
<1>5. CASE s = "ok"
  <2>1. PICK p \in 0..1 : AllRead(p, its, b)
    BY <1>5 DEF At
  <2> QED
    BY <1>1, <1>5, <2>1, GotAll
<1>6. CASE s = "error"
  BY <1>6 DEF At
<1> QED
  BY <1>1, <1>2, <1>3, <1>4, <1>5, <1>6

LEMMA RTRead ==
  ASSUME RTInv
  PROVE  ItemsAreEntries /\ OkIsComplete /\ WholeIsRead
<1>1. SinkInv /\ ReaderInv
  BY DEF RTInv
<1>2. SomeRead(items, buf) /\ OkIsComplete /\ (rpc = "error" => ~Whole)
  <2>1. CASE files = <<>>
    <3>1. rpc = "idle" /\ items = <<>> /\ buf = <<>>
      BY <1>1, <2>1 DEF ReaderInv
    <3> QED
      BY <1>1, <3>1, GotNothing, GotSome DEF OkIsComplete
  <2>2. CASE files # <<>>
    <3>1. Delivered /\ At(rpc, opened, rest, number, next_archive, buf, items)
      BY <1>1, <2>2 DEF ReaderInv
    <3> QED
      BY <1>1, <3>1, AtHasRead DEF OkIsComplete
  <2> QED
    BY <2>1, <2>2
<1>3. ItemsAreEntries
  BY <1>1, <1>2, SomeEntries DEF ItemsAreEntries
<1>4. WholeIsRead
  BY <1>2 DEF WholeIsRead, Whole
<1> QED
  BY <1>2, <1>3, <1>4
-----------------------------------------------------------------------------
(* The layers of MCArchives.                                               *)

LEMMA RTStutters ==
  ASSUME RTInv, UNCHANGED <<vars, rvars>>
  PROVE  RTInv'
<1>1. SinkInv /\ ReaderInv
  BY DEF RTInv
<1>2. UNCHANGED vars /\ UNCHANGED <<files, concatenated>>
      /\ UNCHANGED <<rpc, opened, rest, number, next_archive, buf, items>>
  BY DEF rvars
<1>3. SinkInv'
  BY <1>1, <1>2, SinkKept
<1>4. ReaderInv' = IF files = <<>> THEN rpc' = "idle" /\ opened' = 0 /\ items' = <<>> /\ buf' = <<>>
                   ELSE Delivered /\ At(rpc', opened', rest', number', next_archive', buf', items')
  BY <1>2, PartsKept
<1>5. ReaderInv'
  BY <1>1, <1>2, <1>4 DEF ReaderInv
<1> QED
  BY <1>3, <1>5 DEF RTInv

LEMMA LayersKeep == LayersSpec => [](layer = "parts" => RTInv)
<1> DEFINE Inv == layer = "parts" => RTInv
<1>1. LayersInit => Inv
  BY RTInitInv DEF LayersInit
<1>2. Inv /\ [Parts \/ Create \/ Rewrite]_allvars => Inv'
  <2> SUFFICES ASSUME Inv, [Parts \/ Create \/ Rewrite]_allvars, layer' = "parts" PROVE RTInv'
    OBVIOUS
  <2>1. CASE Parts
    <3>1. layer = "parts" /\ RTNext
      BY <2>1 DEF Parts
    <3> QED
      BY <3>1, RTStep
  <2>2. CASE Create
    BY <2>2 DEF Create
  <2>3. CASE Rewrite
    BY <2>3 DEF Rewrite
  <2>4. CASE UNCHANGED allvars
    <3>1. layer = "parts" /\ UNCHANGED <<vars, rvars>>
      BY <2>4 DEF allvars
    <3> QED
      BY <3>1, RTStutters
  <2> QED
    BY <2>1, <2>2, <2>3, <2>4
<1> QED
  BY <1>1, <1>2, PTL DEF LayersSpec

\* Whatever becomes of the writer and of the part files, what is read are the
\* first entries of what was written, byte for byte, each cut at its own end.
THEOREM ReadsFirstEntries == LayersSpec => []OnlyEntriesAreRead
<1>1. (layer = "parts" => RTInv) => OnlyEntriesAreRead
  BY RTRead DEF OnlyEntriesAreRead
<1> QED
  BY <1>1, LayersKeep, PTL

\* A reader that ends without an error has read every entry, so a failed
\* writer and a part that is missing, misnamed or cut short never pass for a
\* complete archive; and a finished archive that is all there, in its files, in
\* one stream or twice in one, is read without an error.
THEOREM ReadsWholeArchives == LayersSpec => []ReadIffWhole
<1>1. (layer = "parts" => RTInv) => ReadIffWhole
  BY RTRead DEF ReadIffWhole
<1> QED
  BY <1>1, LayersKeep, PTL
=============================================================================
