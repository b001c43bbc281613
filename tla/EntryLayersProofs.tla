-------------------------- MODULE EntryLayersProofs --------------------------
(***************************************************************************)
(* Proofs about two of the layers of MCEntryLayers.                        *)
(*                                                                         *)
(* SafeWriter, for any number of writers and names: the types, that the    *)
(* destination is whole at any time, that no temporary file is left, and   *)
(* that nothing is replaced without permission.  The invariant follows a   *)
(* file from its temporary name to the destination: before it is linked or *)
(* renamed its writer has made it whole and durable, the writer's          *)
(* temporary name really points to it, and what can come back after a loss *)
(* of power has been at the destination.                                   *)
(*                                                                         *)
(* EntryChunks, for any chunks and streams of any length: an entry that is *)
(* parsed and written is parsed again as the same entry, in whatever order *)
(* its chunks came, and the iterator over the entries of a stream ends     *)
(* only when it has handed out all of them.  What the parser has collected *)
(* after each chunk is followed through the chunks that are written, one   *)
(* field after the other; two chunks of different types commute.           *)
(***************************************************************************)
EXTENDS MCEntryLayers, Induction, FiniteSetTheorems

Stored(w) == written[w] = "whole" /\ w \in synced
Publishing == {"prepare", "rename", "link", "unlink"}
StoredInv ==
  /\ dest \in Writers => Stored(dest)
  /\ durable.dest \in Writers => Stored(durable.dest)
  /\ \A w \in Writers :
       /\ pc[w] = "sync" => written[w] = "whole"
       /\ pc[w] \in Publishing => Stored(w)
       /\ w \in synced => written[w] = "whole"
       /\ pc[w] = "drop" => temp[w] = "none" \/ temps[temp[w]] = w
Inv == TypeOK /\ StoredInv

Types ==
  /\ dest \in Files \cup {"none", "dir", "tree"}
  /\ temps \in [Temps -> Writers \cup {"none"}]
  /\ durable \in [dest : Files \cup {"none", "dir", "tree"},
                  temps : [Temps -> Writers \cup {"none"}]]
  /\ written \in [Writers -> {"nothing", "part", "whole"}] /\ synced \subseteq Writers
  /\ overwrite \in [Writers -> BOOLEAN]
  /\ pc \in [Writers -> PCs] /\ temp \in [Writers -> Temps \cup {"none"}]
  /\ blackout \in BOOLEAN
Working == Running \ {"new", "drop"}
Owned == \A w \in Writers : pc[w] \in Working =>
           temp[w] # "none" /\ temps[temp[w]] = w

LEMMA TypeParts == TypeOK <=> Types /\ Owned
  BY DEF TypeOK, Types, Owned, Working

LEMMA InitInv == Init => Inv
<1> SUFFICES ASSUME Init PROVE Inv
  OBVIOUS
<1>1. Types
  BY VersionsAssumption DEF Init, Types, Files, PCs, Running
<1>2. Owned /\ StoredInv
  BY VersionsAssumption DEF Init, Owned, Working, Running, StoredInv, Publishing
<1> QED
  BY <1>1, <1>2, TypeParts DEF Inv

\* A step of one writer keeps the types.
LEMMA StepTypes ==
  ASSUME Types, Owned, NEW w \in Writers, Step(w)
  PROVE  Types'
<1> USE DEF Types
<1>1. CASE New(w)
  BY <1>1 DEF New, Goto, PCs, Running
<1>2. CASE Write(w)
  BY <1>2 DEF Write, Goto, PCs, Running
<1>3. CASE Sync(w)
  BY <1>3 DEF Sync, SyncedAt, Goto, PCs, Running
<1>4. CASE Prepare(w)
  BY <1>4 DEF Prepare, Goto, PCs, Running
<1>5. CASE Rename(w)
  BY <1>5 DEF Rename, FailsWith, Unnamed, Goto, PCs, Running, Files, Owned, Working
<1>6. CASE Link(w)
  BY <1>6 DEF Link, Goto, PCs, Running, Files, Owned, Working
<1>7. CASE Unlink(w)
  BY <1>7 DEF Unlink, Unnamed, Goto, PCs, Running
<1>8. CASE Drop(w)
  BY <1>8 DEF Drop, Unnamed, Goto, PCs, Running
<1> QED
  BY <1>1, <1>2, <1>3, <1>4, <1>5, <1>6, <1>7, <1>8 DEF Step

\* Names are handed out only when free and taken away only by their owner, so
\* that no writer loses its file to another.
LEMMA StepOwned ==
  ASSUME Types, Owned, StoredInv, NEW w \in Writers, Step(w)
  PROVE  Owned' /\ (\A v \in Writers : (pc[v] = "drop")' =>
                      (temp[v] = "none" \/ temps[temp[v]] = v)')
<1> USE DEF Types, Owned, Working, Running, Goto
<1>1. CASE New(w)
  BY <1>1, VersionsAssumption DEF New, Free, StoredInv
<1>2. CASE Write(w)
  BY <1>2 DEF Write, StoredInv
<1>3. CASE Sync(w)
  BY <1>3 DEF Sync, SyncedAt, StoredInv
<1>4. CASE Prepare(w)
  BY <1>4 DEF Prepare, StoredInv
<1>5. CASE Rename(w)
  BY <1>5, VersionsAssumption DEF Rename, FailsWith, Unnamed, StoredInv
<1>6. CASE Link(w)
  BY <1>6 DEF Link, StoredInv
<1>7. CASE Unlink(w)
  BY <1>7, VersionsAssumption DEF Unlink, Unnamed, StoredInv
<1>8. CASE Drop(w)
  BY <1>8, VersionsAssumption DEF Drop, Unnamed, StoredInv
<1> QED
  BY <1>1, <1>2, <1>3, <1>4, <1>5, <1>6, <1>7, <1>8 DEF Step

\* What reaches the destination is stored, and stays so.
StoredPart ==
  /\ dest \in Writers => Stored(dest)
  /\ durable.dest \in Writers => Stored(durable.dest)
  /\ \A v \in Writers :
       /\ pc[v] = "sync" => written[v] = "whole"
       /\ pc[v] \in Publishing => Stored(v)
       /\ v \in synced => written[v] = "whole"

LEMMA StepStored ==
  ASSUME Types, Owned, StoredPart, NEW w \in Writers, Step(w)
  PROVE  StoredPart'
<1> USE DEF Types, StoredPart, Stored, Publishing, Goto
<1>1. CASE New(w)
  BY <1>1 DEF New
<1>2. CASE Write(w)
  BY <1>2 DEF Write
<1>3. CASE Sync(w)
  BY <1>3 DEF Sync, SyncedAt
<1>4. CASE Prepare(w)
  BY <1>4, VersionsAssumption DEF Prepare
<1>5. CASE Rename(w)
  BY <1>5 DEF Rename, Owned, Working, Running
<1>6. CASE Link(w)
  BY <1>6 DEF Link, Owned, Working, Running
<1>7. CASE Unlink(w)
  BY <1>7 DEF Unlink
<1>8. CASE Drop(w)
  BY <1>8 DEF Drop
<1> QED
  BY <1>1, <1>2, <1>3, <1>4, <1>5, <1>6, <1>7, <1>8 DEF Step

LEMMA NextInv == Inv /\ [Next]_vars => Inv'
<1> SUFFICES ASSUME Inv, [Next]_vars PROVE Inv'
  OBVIOUS
<1>0. Types /\ Owned /\ StoredInv /\ StoredPart
  BY TypeParts DEF Inv, StoredInv, StoredPart
<1>s. (Types /\ Owned /\ StoredPart /\ \A v \in Writers : pc[v] = "drop" =>
         (temp[v] = "none" \/ temps[temp[v]] = v))' => Inv'
  BY TypeParts DEF Inv, StoredInv, StoredPart, TypeOK, Types, Owned, Working
<1>1. ASSUME NEW w \in Writers, Step(w) PROVE Inv'
  BY <1>0, <1>1, <1>s, StepTypes, StepOwned, StepStored
<1>2. ASSUME NEW w \in Writers, Kill(w) PROVE Inv'
  BY <1>0, <1>2, <1>s DEF Kill, Goto, fsvars, Types, Owned, Working, Running, PCs,
     StoredInv, StoredPart, Stored, Publishing
<1>3. CASE SomebodyElse
  BY <1>0, <1>3, <1>s, VersionsAssumption DEF SomebodyElse, Types, Owned, Working,
     StoredInv, StoredPart, Stored, Files
<1>4. CASE Journal
  BY <1>0, <1>4, <1>s DEF Journal, Types, Owned, Working,
     StoredInv, StoredPart, Stored
<1>5. CASE PowerLoss
  BY <1>0, <1>5, <1>s DEF PowerLoss, Types, Owned, Working, Running, PCs,
     StoredInv, StoredPart, Stored, Publishing
<1>6. CASE UNCHANGED vars
  BY <1>0, <1>6, <1>s DEF vars, fsvars, Types, Owned, Working,
     StoredInv, StoredPart, Stored
<1> QED
  BY <1>1, <1>2, <1>3, <1>4, <1>5, <1>6 DEF Next

LEMMA Invariance == Spec => []Inv
  BY InitInv, NextInv, PTL DEF Spec

\* For every set of writers and names: types, and each writer at work has its
\* own temporary file, because create_new hands out a name only once.
THEOREM WriterTypes == Spec => []TypeOK
<1>1. Inv => TypeOK
  BY DEF Inv
<1> QED
  BY <1>1, Invariance, PTL

\* For every set of writers and names: the destination is never a part of a
\* file, whoever is killed and whenever power is lost, because persist syncs
\* before it renames or links.
THEOREM AlwaysWhole == Spec => []DestinationWhole
<1>1. Inv => DestinationWhole
  BY DEF Inv, StoredInv, Stored, DestinationWhole
<1> QED
  BY <1>1, Invariance, PTL

-----------------------------------------------------------------------------
(* Temporary names, and the permission to overwrite.                       *)

\* Until power is lost the names in use are those writers at work hold.
NamesInv ==
  ~blackout => \A t \in Temps, w \in Writers :
                 temps[t] = w => temp[w] = t /\ pc[w] \notin {"new", "done", "failed"}

\* Only a writer that may overwrite ever renames over the destination.
PermittedInv == \A w \in Writers : pc[w] \in {"prepare", "rename"} => overwrite[w]

LEMMA StepNames ==
  ASSUME Types, Owned, NamesInv, NEW w \in Writers, Step(w)
  PROVE  NamesInv'
<1> USE VersionsAssumption DEF Types, NamesInv, Goto
<1>1. CASE New(w)
  BY <1>1 DEF New, Free
<1>2. CASE Write(w)
  BY <1>2 DEF Write
<1>3. CASE Sync(w)
  BY <1>3 DEF Sync
<1>4. CASE Prepare(w)
  BY <1>4 DEF Prepare
<1>5. CASE Rename(w)
  BY <1>5 DEF Rename, FailsWith, Unnamed, Owned, Working, Running
<1>6. CASE Link(w)
  BY <1>6 DEF Link
<1>7. CASE Unlink(w)
  BY <1>7 DEF Unlink, Unnamed, Owned, Working, Running
<1>8. CASE Drop(w)
  BY <1>8 DEF Drop, Unnamed
<1> QED
  BY <1>1, <1>2, <1>3, <1>4, <1>5, <1>6, <1>7, <1>8 DEF Step

LEMMA NextNames == Inv /\ NamesInv /\ [Next]_vars => NamesInv'
<1> SUFFICES ASSUME Inv, NamesInv, [Next]_vars PROVE NamesInv'
  OBVIOUS
<1>0. Types /\ Owned
  BY TypeParts DEF Inv
<1>1. ASSUME NEW w \in Writers, Step(w) PROVE NamesInv'
  BY <1>0, <1>1, StepNames
<1>2. ASSUME NEW w \in Writers, Kill(w) PROVE NamesInv'
  BY <1>0, <1>2 DEF Kill, Goto, fsvars, Types, NamesInv
<1>3. CASE SomebodyElse \/ Journal \/ UNCHANGED vars
  BY <1>3 DEF SomebodyElse, Journal, vars, fsvars, NamesInv
<1>4. CASE PowerLoss
  BY <1>4 DEF PowerLoss, NamesInv
<1> QED
  BY <1>1, <1>2, <1>3, <1>4 DEF Next

LEMMA NextPermitted == Inv /\ PermittedInv /\ [Next]_vars => PermittedInv'
<1> SUFFICES ASSUME Inv, PermittedInv, [Next]_vars PROVE PermittedInv'
  OBVIOUS
<1> USE DEF PermittedInv, Goto, Types
<1>0. Types
  BY TypeParts DEF Inv
<1>1. ASSUME NEW w \in Writers, Step(w) PROVE PermittedInv'
  BY <1>0, <1>1 DEF Step, New, Write, Sync, Prepare, Rename, Link, Unlink, Drop
<1>2. ASSUME NEW w \in Writers, Kill(w) PROVE PermittedInv'
  BY <1>0, <1>2 DEF Kill
<1>3. CASE SomebodyElse \/ Journal \/ UNCHANGED vars
  BY <1>3 DEF SomebodyElse, Journal, vars
<1>4. CASE PowerLoss
  BY <1>0, <1>4 DEF PowerLoss
<1> QED
  BY <1>1, <1>2, <1>3, <1>4 DEF Next

\* The step that gives the destination a writer's file.
LEMMA PublishStep ==
  ASSUME Inv, PermittedInv, Next, dest' \in Writers, dest' # dest, blackout' = blackout,
         ~overwrite[dest']
  PROVE  dest = "none"
<1>0. Types /\ Owned
  BY TypeParts DEF Inv
<1>1. CASE \E w \in Writers : Rename(w)
  <2>1. PICK w \in Writers : Rename(w)
    BY <1>1
  <2>2. dest' = w /\ overwrite[w]
    BY <1>0, <2>1 DEF Rename, Owned, Working, Running, PermittedInv
  <2> QED
    BY <2>2
<1>2. CASE \E w \in Writers : Link(w)
  BY <1>2 DEF Link, Refuses
<1>3. CASE SomebodyElse
  BY <1>3, VersionsAssumption DEF SomebodyElse
<1>4. CASE PowerLoss
  BY <1>0, <1>4 DEF PowerLoss, Types
<1>5. ASSUME NEW w \in Writers,
             New(w) \/ Write(w) \/ Sync(w) \/ Unlink(w) \/ Drop(w) \/ Kill(w)
      PROVE  dest' = dest
  BY <1>5 DEF New, Write, Sync, Unlink, Drop, Kill, fsvars
<1>6. ASSUME NEW w \in Writers, Prepare(w) PROVE dest' = dest \/ dest' = "none"
  BY <1>6 DEF Prepare
<1>7. CASE Journal
  BY <1>7 DEF Journal
<1> QED
  BY <1>1, <1>2, <1>3, <1>4, <1>5, <1>6, <1>7, VersionsAssumption DEF Next, Step

\* For every set of writers and names: a writer that has ended, well or not,
\* leaves no temporary file unless it was killed or could not remove it,
\* because a temporary name is given up only with the file under it.
THEOREM NoTempsLeft == Spec => []TempsRemoved
<1>1. Init => NamesInv
  BY VersionsAssumption DEF Init, NamesInv
<1>2. NamesInv => TempsRemoved
  BY DEF NamesInv, TempsRemoved
<1> QED
  BY <1>1, <1>2, Invariance, NextNames, PTL DEF Spec

\* For every set of writers and names: without permission to overwrite nothing
\* is replaced, whoever else changes the destination between the steps, because
\* the link that publishes the file is refused by anything that is there.
THEOREM NeverReplaced == Spec => NothingReplaced
<1>1. Init => PermittedInv
  BY DEF Init, PermittedInv
<1>2. Inv /\ PermittedInv /\ [Next]_vars =>
        [dest' \in Writers /\ dest' # dest /\ ~overwrite[dest'] /\ blackout' = blackout
           => dest = "none"]_vars
  BY PublishStep
<1> QED
  BY <1>1, <1>2, Invariance, NextPermitted, PTL DEF Spec, NothingReplaced

-----------------------------------------------------------------------------
(* Sequences grow at their end.                                            *)

LEMMA SeqInduction ==
  ASSUME NEW X, NEW S, <<>> \in S,
         \A s \in Seq(X), c \in X : s \in S => Append(s, c) \in S
  PROVE  Seq(X) \subseteq S
<1> DEFINE G == {n \in Nat : \A s \in Seq(X) : Len(s) = n => s \in S}
<1>1. 0 \in G
  <2>1. \A s \in Seq(X) : Len(s) = 0 => s = <<>>
    OBVIOUS
  <2> QED
    BY <2>1
<1>2. ASSUME NEW n \in Nat, n \in G PROVE n + 1 \in G
  <2> SUFFICES ASSUME NEW s \in Seq(X), Len(s) = n + 1 PROVE s \in S
    OBVIOUS
  <2> DEFINE f == SubSeq(s, 1, n)
             c == s[n + 1]
  <2>1. f \in Seq(X) /\ Len(f) = n /\ c \in X
    OBVIOUS
  <2>2. s = Append(f, c)
    BY Len(s) = n + 1
  <2>3. f \in S
    BY <1>2, <2>1
  <2> HIDE DEF f, c
  <2> QED
    BY <2>1, <2>2, <2>3
<1> HIDE DEF G
<1>3. Nat \subseteq G
  BY <1>1, <1>2, SetInduction
<1> QED
  BY <1>3 DEF G
-----------------------------------------------------------------------------
(* How parse_chunks goes on: one chunk after the other.                    *)

\* g is what has been collected after each chunk of s.
Collects(kind, g, s) ==
  g = [n \in 0..Len(s) |-> IF n = 0 THEN Collected0 ELSE Collect(kind, g[n - 1], s[n])]

LEMMA CollectsUnique ==
  ASSUME NEW kind, NEW s, NEW t, NEW g, NEW h, Len(s) \in Nat, Len(t) \in Nat,
         Collects(kind, g, s), Collects(kind, h, t),
         NEW m \in Nat, m <= Len(s), m <= Len(t), \A k \in 1..m : s[k] = t[k]
  PROVE  g[m] = h[m]
<1> DEFINE S == {n \in Nat : n <= m => g[n] = h[n]}
<1>1. /\ \A n \in 0..Len(s) : g[n] = IF n = 0 THEN Collected0 ELSE Collect(kind, g[n - 1], s[n])
      /\ \A n \in 0..Len(t) : h[n] = IF n = 0 THEN Collected0 ELSE Collect(kind, h[n - 1], t[n])
  BY DEF Collects
<1>2. 0 \in S
  BY <1>1
<1>3. ASSUME NEW n \in Nat, n \in S PROVE n + 1 \in S
  <2> SUFFICES ASSUME n + 1 <= m PROVE g[n + 1] = h[n + 1]
    OBVIOUS
  <2>1. n + 1 \in 0..Len(s) /\ n + 1 \in 0..Len(t) /\ n + 1 # 0 /\ (n + 1) - 1 = n /\ n + 1 \in 1..m
    OBVIOUS
  <2>2. g[n] = h[n] /\ s[n + 1] = t[n + 1]
    BY <1>3, <2>1
  <2>3. /\ g[n + 1] = Collect(kind, g[(n + 1) - 1], s[n + 1])
        /\ h[n + 1] = Collect(kind, h[(n + 1) - 1], t[n + 1])
    BY <1>1, <2>1
  <2> QED
    BY <2>1, <2>2, <2>3
<1> HIDE DEF S
<1>4. Nat \subseteq S
  BY <1>2, <1>3, SetInduction
<1> QED
  BY <1>4 DEF S

LEMMA CollectsExist ==
  ASSUME NEW kind, NEW s, Len(s) \in Nat
  PROVE  \E g : Collects(kind, g, s)
<1> DEFINE Upto(g, m) == g = [n \in 0..m |-> IF n = 0 THEN Collected0 ELSE Collect(kind, g[n - 1], s[n])]
           S == {m \in Nat : \E g : Upto(g, m)}
<1>1. 0 \in S
  <2> DEFINE g == [n \in 0..0 |-> Collected0]
  <2>1. g = [n \in 0..0 |-> IF n = 0 THEN Collected0 ELSE Collect(kind, g[n - 1], s[n])]
    OBVIOUS
  <2> HIDE DEF g
  <2> QED
    BY <2>1
<1>2. ASSUME NEW m \in Nat, m \in S PROVE m + 1 \in S
  <2>1. PICK g : Upto(g, m)
    BY <1>2
  <2> DEFINE h == [n \in 0..(m + 1) |-> IF n = m + 1 THEN Collect(kind, g[m], s[m + 1]) ELSE g[n]]
  <2>2. ASSUME NEW n \in 0..(m + 1)
        PROVE  h[n] = IF n = 0 THEN Collected0 ELSE Collect(kind, h[n - 1], s[n])
    <3>1. CASE n = m + 1
      <4>1. n # 0 /\ n - 1 = m /\ m \in 0..(m + 1) /\ m # m + 1
        BY <3>1
      <4> QED
        BY <3>1, <4>1
    <3>2. CASE n # m + 1
      <4>1. n \in 0..m /\ h[n] = g[n] /\ (n # 0 => h[n - 1] = g[n - 1])
        BY <3>2
      <4>2. g[n] = IF n = 0 THEN Collected0 ELSE Collect(kind, g[n - 1], s[n])
        BY <2>1, <4>1
      <4> HIDE DEF h
      <4> QED
        BY <4>1, <4>2
    <3> QED
      BY <3>1, <3>2
  <2>3. h = [n \in 0..(m + 1) |-> h[n]]
    OBVIOUS
  <2> HIDE DEF h
  <2>4. Upto(h, m + 1)
    BY <2>2, <2>3
  <2> QED
    BY <2>4
<1> HIDE DEF S
<1>3. Nat \subseteq S
  BY <1>1, <1>2, SetInduction
<1>4. \E g : Upto(g, Len(s))
  BY <1>3 DEF S
<1> QED
  BY <1>4 DEF Collects

LEMMA CollectAllIs ==
  ASSUME NEW kind, NEW s, Len(s) \in Nat, NEW g, Collects(kind, g, s)
  PROVE  CollectAll(kind, s) = g[Len(s)]
<1> DEFINE h == CHOOSE h : Collects(kind, h, s)
<1>1. Collects(kind, h, s)
  OBVIOUS
<1>2. CollectAll(kind, s) = h[Len(s)]
  BY DEF CollectAll, Collects
<1> HIDE DEF h
<1>3. h[Len(s)] = g[Len(s)]
  BY <1>1, CollectsUnique
<1> QED
  BY <1>2, <1>3

LEMMA CollectNone ==
  ASSUME NEW kind
  PROVE  CollectAll(kind, <<>>) = Collected0
<1>1. Len(<<>>) = 0
  OBVIOUS
<1>2. PICK g : Collects(kind, g, <<>>)
  BY <1>1, CollectsExist
<1>3. CollectAll(kind, <<>>) = g[0]
  BY <1>1, <1>2, CollectAllIs
<1>4. g[0] = Collected0
  BY <1>1, <1>2 DEF Collects
<1> QED
  BY <1>3, <1>4

LEMMA CollectOneMore ==
  ASSUME NEW kind, NEW X, NEW s \in Seq(X), NEW c \in X
  PROVE  CollectAll(kind, Append(s, c)) = Collect(kind, CollectAll(kind, s), c)
<1> DEFINE t == Append(s, c)
<1>1. /\ Len(t) = Len(s) + 1 /\ t[Len(s) + 1] = c /\ \A k \in 1..Len(s) : t[k] = s[k]
      /\ Len(s) \in Nat /\ Len(t) \in Nat /\ Len(s) <= Len(s) /\ Len(s) <= Len(t)
  OBVIOUS
<1> HIDE DEF t
<1>2. PICK g : Collects(kind, g, s)
  BY <1>1, CollectsExist
<1>3. PICK h : Collects(kind, h, t)
  BY <1>1, CollectsExist
<1>4. CollectAll(kind, s) = g[Len(s)]
  BY <1>1, <1>2, CollectAllIs
<1>5. CollectAll(kind, t) = h[Len(t)]
  BY <1>1, <1>3, CollectAllIs
<1>6. g[Len(s)] = h[Len(s)]
  <2>1. \A k \in 1..Len(s) : s[k] = t[k]
    BY <1>1
  <2> QED
    BY <1>1, <1>2, <1>3, <2>1, CollectsUnique
<1>7. h[Len(t)] = Collect(kind, h[Len(s)], c)
  <2>1. Len(t) \in 0..Len(t) /\ Len(t) # 0 /\ Len(t) - 1 = Len(s)
    BY <1>1
  <2>2. h[Len(t)] = Collect(kind, h[Len(t) - 1], t[Len(t)])
    BY <1>3, <2>1 DEF Collects
  <2> QED
    BY <1>1, <2>1, <2>2
<1> QED
  BY <1>4, <1>5, <1>6, <1>7 DEF t
-----------------------------------------------------------------------------
(* What parsing may have collected.                                        *)

Kinds == {"normal", "solid"}
Values == {c.val : c \in Alphabet} \cup Int
Optionals(V) == {None} \cup {Some(v) : v \in V}

\* Chunks that are kept as they are.
ForeignChunks(kind) == {c \in Alphabet : Foreign(kind, c.ty)}

\* The values a chunk of type ty can be decoded to.
Fits(ty) == {v \in Values : /\ ty \in Range(SecondsOf) => v \in Int
                            /\ ty \in Range(NanosOf) => v \in 0..(NANOS - 1)
                            /\ ty = "fLTP" => v \in LinkTargetTypes}
Records(kind) ==
  [phsf : Optionals(Values), extra : Seq(ForeignChunks(kind)), data : Seq(Values),
   xattrs : Seq(Values), single : [Single -> Optionals(Values)],
   failed : BOOLEAN, ended : BOOLEAN]
Collected(kind) ==
  {p \in Records(kind) : \A f \in Single : p.single[f] \in Optionals(Fits(f))}

LEMMA Names ==
  /\ Times = {"created", "modified", "accessed"}
  /\ Range(SecondsOf) = {"cTIM", "mTIM", "aTIM"}
  /\ Range(NanosOf) = {"cTNS", "mTNS", "aTNS"}
  /\ Single = {"fUId", "fGId", "fONm", "fGNm", "fMOd", "fOSi", "fGSi", "fLTP", "fSIZ",
               "cTIM", "mTIM", "aTIM", "cTNS", "mTNS", "aTNS", "fPRM"}
<1>1. Times = {"created", "modified", "accessed"}
  BY DEF Times, SecondsOf
<1>2. Range(SecondsOf) = {"cTIM", "mTIM", "aTIM"}
  BY DEF SecondsOf, Range
<1>3. Range(NanosOf) = {"cTNS", "mTNS", "aTNS"}
  BY DEF NanosOf, Range
<1> QED
  BY <1>1, <1>2, <1>3 DEF Single, Facets, PosixFacets

LEMMA CollectedFirst ==
  ASSUME NEW kind \in Kinds
  PROVE  Collected0 \in Collected(kind)
  BY DEF Collected0, Collected, Records, Optionals, None

\* The turns of the loop: what a chunk is to the parser.
Ignored(p) == p.failed \/ p.ended

LEMMA Apart ==
  ASSUME NEW kind \in Kinds, NEW ty, Known(kind, ty)
  PROVE  /\ kind = "normal" /\ ty \in Single \cup {"xATR"}
         /\ ty \notin {EndOf(kind), DataOf(kind), "PHSF"} \cup Critical
  BY Names DEF Known, EndOf, DataOf, Critical

\* q is what is collected once c has gone into one field of p.
Took(kind, p, c, q) ==
  /\ q.failed = FALSE /\ q.ended = FALSE
  /\ q.phsf = IF c.ty = "PHSF" THEN Some(c.val) ELSE p.phsf
  /\ q.data = IF c.ty = DataOf(kind) THEN Append(p.data, c.val) ELSE p.data
  /\ q.xattrs = IF Known(kind, c.ty) /\ c.ty = "xATR" THEN Append(p.xattrs, c.val)
                ELSE p.xattrs
  /\ q.single = IF Known(kind, c.ty) /\ c.ty # "xATR"
                THEN [p.single EXCEPT ![c.ty] = Decoded(c)] ELSE p.single
  /\ q.extra = IF Foreign(kind, c.ty) THEN Append(p.extra, c) ELSE p.extra
  /\ q = [phsf |-> q.phsf, extra |-> q.extra, data |-> q.data, xattrs |-> q.xattrs,
          single |-> q.single, failed |-> FALSE, ended |-> FALSE]

\* A chunk that is no error and no end goes to one field.
LEMMA CollectFields ==
  ASSUME NEW kind \in Kinds, NEW p \in Records(kind), ~Ignored(p), NEW c,
         ~Rejects(kind, c), c.ty # EndOf(kind), NEW q, q = Collect(kind, p, c)
  PROVE  Took(kind, p, c, q)
<1>0. /\ ~p.failed /\ ~p.ended /\ ~Rejects(kind, c) /\ c.ty # EndOf(kind)
      /\ EndOf(kind) # "PHSF" /\ DataOf(kind) # "PHSF" /\ EndOf(kind) # DataOf(kind)
  BY DEF Ignored, EndOf, DataOf
<1>2. CASE c.ty = DataOf(kind)
  <2>1. ~Known(kind, c.ty) /\ ~Foreign(kind, c.ty) /\ c.ty # "PHSF"
    BY <1>0, <1>2, Apart DEF Foreign
  <2>2. q = [p EXCEPT !.data = Append(@, c.val)]
    BY <1>0, <1>2, <2>1 DEF Collect
  <2>3. q = [phsf |-> p.phsf, extra |-> p.extra, data |-> Append(p.data, c.val), xattrs |-> p.xattrs,
             single |-> p.single, failed |-> FALSE, ended |-> FALSE]
    BY <1>0, <2>2 DEF Records
  <2> QED
    BY <1>2, <2>1, <2>3 DEF Took
<1>3. CASE c.ty = "PHSF"
  <2>1. ~Known(kind, c.ty) /\ ~Foreign(kind, c.ty) /\ c.ty # DataOf(kind) /\ c.ok
    BY <1>0, <1>3, Apart DEF Foreign, Rejects
  <2>2. q = [p EXCEPT !.phsf = Some(c.val)]
    BY <1>0, <1>3, <2>1 DEF Collect
  <2>3. q = [phsf |-> Some(c.val), extra |-> p.extra, data |-> p.data, xattrs |-> p.xattrs,
             single |-> p.single, failed |-> FALSE, ended |-> FALSE]
    BY <1>0, <2>2 DEF Records
  <2> QED
    BY <1>3, <2>1, <2>3 DEF Took
<1>4. CASE Known(kind, c.ty) /\ c.ty = "xATR"
  <2>1. /\ Decodes(c) /\ ~Foreign(kind, c.ty) /\ c.ty # DataOf(kind) /\ c.ty # "PHSF"
        /\ c.ty \in Single \cup {"xATR"}
    BY <1>0, <1>4, Apart DEF Foreign, Rejects
  <2>2. q = [p EXCEPT !.xattrs = Append(@, c.val)]
    BY <1>0, <1>4, <2>1 DEF Collect
  <2>3. q = [phsf |-> p.phsf, extra |-> p.extra, data |-> p.data, xattrs |-> Append(p.xattrs, c.val),
             single |-> p.single, failed |-> FALSE, ended |-> FALSE]
    BY <1>0, <2>2 DEF Records
  <2> QED
    BY <1>4, <2>1, <2>3 DEF Took
<1>5. CASE Known(kind, c.ty) /\ c.ty # "xATR"
  <2>1. /\ Decodes(c) /\ ~Foreign(kind, c.ty) /\ c.ty # DataOf(kind) /\ c.ty # "PHSF"
        /\ c.ty \in Single \cup {"xATR"}
    BY <1>0, <1>5, Apart DEF Foreign, Rejects
  <2>2. q = [p EXCEPT !.single[c.ty] = Decoded(c)]
    BY <1>0, <1>5, <2>1 DEF Collect, Note
  <2>3. q = [phsf |-> p.phsf, extra |-> p.extra, data |-> p.data, xattrs |-> p.xattrs,
             single |-> [p.single EXCEPT ![c.ty] = Decoded(c)], failed |-> FALSE, ended |-> FALSE]
    BY <1>0, <2>2 DEF Records
  <2> QED
    BY <1>5, <2>1, <2>3 DEF Took
<1>6. CASE c.ty # DataOf(kind) /\ c.ty # "PHSF" /\ ~Known(kind, c.ty)
  <2>1. Foreign(kind, c.ty)
    BY <1>0, <1>6 DEF Foreign, Rejects
  <2>2. q = [p EXCEPT !.extra = Append(@, c)]
    BY <1>0, <1>6, <2>1 DEF Collect
  <2>3. q = [phsf |-> p.phsf, extra |-> Append(p.extra, c), data |-> p.data, xattrs |-> p.xattrs,
             single |-> p.single, failed |-> FALSE, ended |-> FALSE]
    BY <1>0, <2>2 DEF Records
  <2> QED
    BY <1>6, <2>1, <2>3 DEF Took
<1> QED
  BY <1>2, <1>3, <1>4, <1>5, <1>6

\* The other turns: nothing, the end, an error.
LEMMA CollectEnds ==
  ASSUME NEW kind \in Kinds, NEW p, ~Ignored(p), NEW c, c.ty = EndOf(kind)
  PROVE  Collect(kind, p, c) = [p EXCEPT !.ended = TRUE]
<1>0. EndOf(kind) # "PHSF" /\ DataOf(kind) # "PHSF" /\ EndOf(kind) # DataOf(kind)
  BY DEF EndOf, DataOf
<1>1. ~Known(kind, c.ty) /\ ~Foreign(kind, c.ty)
  BY Apart DEF Foreign
<1>2. ~Rejects(kind, c) /\ c.ty # DataOf(kind) /\ c.ty # "PHSF"
  BY <1>0, <1>1 DEF Rejects
<1> QED
  BY <1>1, <1>2 DEF Ignored, Collect

LEMMA CollectOthers ==
  ASSUME NEW kind \in Kinds, NEW p, NEW c, c.ok \in BOOLEAN
  PROVE  /\ Ignored(p) => Collect(kind, p, c) = p
         /\ ~Ignored(p) /\ Rejects(kind, c) => Collect(kind, p, c) = [p EXCEPT !.failed = TRUE]
<1>0. EndOf(kind) # "PHSF" /\ DataOf(kind) # "PHSF" /\ EndOf(kind) # DataOf(kind)
  BY DEF EndOf, DataOf
<1>1. Ignored(p) => Collect(kind, p, c) = p
  BY DEF Ignored, Collect
<1>3. ASSUME ~Ignored(p), Rejects(kind, c) PROVE Collect(kind, p, c) = [p EXCEPT !.failed = TRUE]
  <2>1. /\ c.ty # EndOf(kind) /\ c.ty # DataOf(kind) /\ ~Foreign(kind, c.ty)
        /\ ~(c.ty = "PHSF" /\ c.ok) /\ ~(Known(kind, c.ty) /\ Decodes(c))
    <3>1. CASE c.ty = "PHSF" /\ ~c.ok
      <4>1. ~Known(kind, c.ty)
        BY <3>1, Apart
      <4> QED
        BY <1>0, <3>1, <4>1 DEF Foreign
    <3>2. CASE Known(kind, c.ty) /\ ~Decodes(c)
      <4>1. c.ty \notin {EndOf(kind), DataOf(kind), "PHSF"}
        BY <3>2, Apart
      <4> QED
        BY <3>2, <4>1 DEF Foreign
    <3>3. CASE c.ty \in Critical \ {EndOf(kind), DataOf(kind), "PHSF"}
      <4>1. ~Known(kind, c.ty)
        BY <3>3, Apart
      <4> QED
        BY <3>3, <4>1 DEF Foreign
    <3> QED
      BY <1>3, <3>1, <3>2, <3>3 DEF Rejects
  <2> QED
    BY <1>3, <2>1 DEF Ignored, Collect
<1> QED
  BY <1>1, <1>3

LEMMA CollectTyped ==
  ASSUME NEW kind \in Kinds, NEW p \in Collected(kind), NEW c \in Alphabet
  PROVE  Collect(kind, p, c) \in Collected(kind)
<1>0. p \in Records(kind) /\ c.ok \in BOOLEAN /\ c.val \in Values
      /\ \A f \in Single : p.single[f] \in Optionals(Fits(f))
  <2>1. c.ok \in BOOLEAN
    BY AlphabetAssumption
  <2>2. c.val \in Values
    BY DEF Values
  <2> QED
    BY <2>1, <2>2 DEF Collected
<1>1. CASE Ignored(p)
  BY <1>0, <1>1, CollectOthers
<1>2. CASE ~Ignored(p) /\ c.ty = EndOf(kind)
  <2>1. Collect(kind, p, c) = [p EXCEPT !.ended = TRUE]
    BY <1>2, CollectEnds
  <2> QED
    BY <1>0, <2>1 DEF Collected, Records
<1>3. CASE ~Ignored(p) /\ Rejects(kind, c)
  <2>1. Collect(kind, p, c) = [p EXCEPT !.failed = TRUE]
    BY <1>0, <1>3, CollectOthers
  <2> QED
    BY <1>0, <2>1 DEF Collected, Records
<1>4. CASE ~Ignored(p) /\ c.ty # EndOf(kind) /\ ~Rejects(kind, c)
  <2>0. PICK q : q = Collect(kind, p, c)
    OBVIOUS
  <2>1. Took(kind, p, c, q)
    BY <1>0, <1>4, <2>0, CollectFields
  <2>2. q.phsf \in Optionals(Values)
    BY <1>0, <2>1 DEF Took, Records, Optionals
  <2>3. q.data \in Seq(Values) /\ q.xattrs \in Seq(Values)
    BY <1>0, <2>1 DEF Took, Records
  <2>4. q.extra \in Seq(ForeignChunks(kind))
    <3>1. p.extra \in Seq(ForeignChunks(kind)) /\ (Foreign(kind, c.ty) => c \in ForeignChunks(kind))
      BY <1>0 DEF Records, ForeignChunks
    <3> QED
      BY <2>1, <3>1 DEF Took
  <2>5. Known(kind, c.ty) /\ c.ty # "xATR" => c.ty \in Single /\ Decoded(c) \in Optionals(Fits(c.ty))
    <3> SUFFICES ASSUME Known(kind, c.ty), c.ty # "xATR"
                 PROVE  c.ty \in Single /\ Decoded(c) \in Optionals(Fits(c.ty))
      OBVIOUS
    <3>1. Decodes(c) /\ c.ty \in Single
      BY <1>4, Apart DEF Rejects
    <3>2. /\ c.ty \in Range(SecondsOf) => c.val \in Int
          /\ c.ty \in Range(NanosOf) => c.val \in 0..(NANOS - 1)
      BY <3>1, AlphabetAssumption DEF Decodes
    <3>3. Decoded(c) # None => Decoded(c) = Some(c.val) /\ c.val \in Fits(c.ty)
      BY <1>0, <3>2 DEF Decoded, Fits
    <3> QED
      BY <3>1, <3>3 DEF Optionals
  <2>6. \A f : Optionals(Fits(f)) \subseteq Optionals(Values)
    BY DEF Optionals, Fits
  <2>7. /\ q.single \in [Single -> Optionals(Values)]
        /\ \A f \in Single : q.single[f] \in Optionals(Fits(f))
    <3>1. p.single \in [Single -> Optionals(Values)]
      BY <1>0 DEF Records
    <3>2. CASE Known(kind, c.ty) /\ c.ty # "xATR"
      <4>1. q.single = [p.single EXCEPT ![c.ty] = Decoded(c)]
        BY <2>1, <3>2 DEF Took
      <4>2. Decoded(c) \in Optionals(Values) /\ c.ty \in Single
        BY <2>5, <2>6, <3>2
      <4> HIDE DEF Decoded, Single
      <4> QED
        BY <1>0, <2>5, <3>1, <3>2, <4>1, <4>2
    <3>3. CASE ~(Known(kind, c.ty) /\ c.ty # "xATR")
      BY <1>0, <2>1, <3>1, <3>3 DEF Took
    <3> QED
      BY <3>2, <3>3
  <2>8. q \in Records(kind)
    BY <2>1, <2>2, <2>3, <2>4, <2>7 DEF Took, Records
  <2> QED
    BY <2>0, <2>7, <2>8 DEF Collected
<1> QED
  BY <1>1, <1>2, <1>3, <1>4

\* Whatever the chunks are, and at each of them.
LEMMA CollectsTyped ==
  ASSUME NEW kind \in Kinds, NEW s \in Seq(Alphabet), NEW g, Collects(kind, g, s)
  PROVE  \A n \in 0..Len(s) : g[n] \in Collected(kind)
<1> DEFINE S == {n \in Nat : n <= Len(s) => g[n] \in Collected(kind)}
<1>1. \A n \in 0..Len(s) : g[n] = IF n = 0 THEN Collected0 ELSE Collect(kind, g[n - 1], s[n])
  BY DEF Collects
<1>2. 0 \in S
  BY <1>1, CollectedFirst
<1>3. ASSUME NEW n \in Nat, n \in S PROVE n + 1 \in S
  <2> SUFFICES ASSUME n + 1 <= Len(s) PROVE g[n + 1] \in Collected(kind)
    OBVIOUS
  <2>1. n + 1 \in 0..Len(s) /\ n + 1 # 0 /\ (n + 1) - 1 = n /\ s[n + 1] \in Alphabet /\ n <= Len(s)
    OBVIOUS
  <2>2. g[n] \in Collected(kind)
    BY <1>3, <2>1
  <2>3. g[n + 1] = Collect(kind, g[n], s[n + 1])
    BY <1>1, <2>1
  <2> QED
    BY <2>1, <2>2, <2>3, CollectTyped
<1> HIDE DEF S
<1>4. Nat \subseteq S
  BY <1>2, <1>3, SetInduction
<1> QED
  BY <1>4 DEF S

LEMMA CollectAllTyped ==
  ASSUME NEW kind \in Kinds, NEW s \in Seq(Alphabet)
  PROVE  CollectAll(kind, s) \in Collected(kind)
<1>1. Len(s) \in Nat /\ Len(s) \in 0..Len(s)
  OBVIOUS
<1>2. PICK g : Collects(kind, g, s)
  BY <1>1, CollectsExist
<1> QED
  BY <1>1, <1>2, CollectAllIs, CollectsTyped
-----------------------------------------------------------------------------
(* A time that is written and read again.                                  *)

LEMMA Division ==
  ASSUME NEW a \in Nat
  PROVE  /\ a \div NANOS \in Nat
         /\ (a \div NANOS) * NANOS <= a /\ a < (a \div NANOS) * NANOS + NANOS
  BY NanosAssumption

LEMMA TimesReturn ==
  ASSUME NEW d \in Int
  PROVE  /\ ToSecondsNanos(d)[1] \in Int
         /\ ToSecondsNanos(d)[2] \in 0..(NANOS - 1)
         /\ FromSecondsNanos(ToSecondsNanos(d)[1], ToSecondsNanos(d)[2]) = d
<1> DEFINE w == WholeSeconds(d)
           m == w * NANOS
<1>0. NANOS \in Nat /\ NANOS > 1
  BY NanosAssumption
<1>1. /\ w \in Int /\ m \in Int
      /\ d >= 0 => m <= d /\ d < m + NANOS
      /\ d < 0 => d <= m /\ m < d + NANOS
  <2>1. CASE d >= 0
    <3>1. w = d \div NANOS
      BY <2>1 DEF WholeSeconds
    <3> HIDE DEF w
    <3>2. w \in Nat /\ w * NANOS <= d /\ d < w * NANOS + NANOS
      BY <2>1, <3>1, Division
    <3>3. m \in Int
      BY <1>0, <3>2
    <3> QED
      BY <2>1, <3>2, <3>3
  <2>2. CASE d < 0
    <3> DEFINE b == (-d) \div NANOS
    <3>1. w = -b
      BY <2>2 DEF WholeSeconds
    <3>2. -d \in Nat
      BY <2>2
    <3>3. b \in Nat /\ b * NANOS <= -d /\ -d < b * NANOS + NANOS
      BY <3>2, Division
    <3> HIDE DEF b, w
    <3>4. m = -(b * NANOS) /\ b * NANOS \in Int
      BY <1>0, <3>1, <3>3
    <3> HIDE DEF m
    <3>5. w \in Int
      BY <3>1, <3>3
    <3> DEFINE bn == b * NANOS
    <3>6. m = -bn /\ bn \in Int /\ bn <= -d /\ -d < bn + NANOS
      BY <3>3, <3>4
    <3> HIDE DEF bn
    <3> QED
      BY <1>0, <2>2, <3>5, <3>6
  <2> QED
    BY <2>1, <2>2
<1>2. SubsecNanos(d) = d - m
  BY DEF SubsecNanos
<1>3. (w - 1) * NANOS = m - NANOS
  BY <1>0, <1>1
<1>4. ToSecondsNanos(d) = IF d - m < 0 THEN <<w - 1, d - m + NANOS>> ELSE <<w, d - m>>
  BY <1>2 DEF ToSecondsNanos
<1>5. \A s, n : FromSecondsNanos(s, n) = s * NANOS + n
  BY DEF FromSecondsNanos
<1>6. CASE d - m < 0
  <2> HIDE DEF m, w
  <2>1. ToSecondsNanos(d)[1] = w - 1 /\ ToSecondsNanos(d)[2] = d - m + NANOS
    BY <1>4, <1>6
  <2>2. d < 0
    BY <1>0, <1>1, <1>6
  <2>3. FromSecondsNanos(w - 1, d - m + NANOS) = (m - NANOS) + (d - m + NANOS)
    BY <1>3, <1>5
  <2>4. w - 1 \in Int /\ d - m + NANOS \in 0..(NANOS - 1) /\ (m - NANOS) + (d - m + NANOS) = d
    BY <1>0, <1>1, <1>6, <2>2
  <2> QED
    BY <2>1, <2>3, <2>4
<1>7. CASE ~(d - m < 0)
  <2>0. m = w * NANOS
    OBVIOUS
  <2> HIDE DEF m, w
  <2>1. ToSecondsNanos(d)[1] = w /\ ToSecondsNanos(d)[2] = d - m
    BY <1>4, <1>7
  <2>2. FromSecondsNanos(w, d - m) = m + (d - m)
    BY <1>5, <2>0
  <2>3. d - m \in 0..(NANOS - 1) /\ m + (d - m) = d
    BY <1>0, <1>1, <1>7
  <2> QED
    BY <1>1, <2>1, <2>2, <2>3
<1> QED
  BY <1>6, <1>7
-----------------------------------------------------------------------------
(* What is read of the chunks that write_chunks_to puts down.              *)

ChunksWritten ==
  Alphabet \cup [ty : Single \cup {"xATR", "PHSF", "FDAT", "SDAT", "FEND", "SEND", "FHED", "SHED"},
                 val : Values, ok : {TRUE}]
\* The state of a parser that has met neither an end nor an error.
Going(ph, ex, da, xa, si) ==
  [phsf |-> ph, extra |-> ex, data |-> da, xattrs |-> xa, single |-> si,
   failed |-> FALSE, ended |-> FALSE]
\* The chunks m take a parser from p to q.
Takes(kind, m, p, q) ==
  /\ m \in Seq(ChunksWritten)
  /\ \A s \in Seq(ChunksWritten) : CollectAll(kind, s) = p => CollectAll(kind, s \o m) = q

LEMMA TakesNone ==
  ASSUME NEW kind, NEW p
  PROVE  Takes(kind, <<>>, p, p)
<1>1. \A s \in Seq(ChunksWritten) : s \o <<>> = s
  OBVIOUS
<1> QED
  BY <1>1 DEF Takes

LEMMA TakesOne ==
  ASSUME NEW kind, NEW p, NEW c \in ChunksWritten
  PROVE  Takes(kind, <<c>>, p, Collect(kind, p, c))
<1>1. ASSUME NEW s \in Seq(ChunksWritten), CollectAll(kind, s) = p
      PROVE  CollectAll(kind, s \o <<c>>) = Collect(kind, p, c)
  <2>1. s \o <<c>> = Append(s, c)
    OBVIOUS
  <2> QED
    BY <1>1, <2>1, CollectOneMore
<1>2. <<c>> \in Seq(ChunksWritten)
  OBVIOUS
<1> QED
  BY <1>1, <1>2 DEF Takes

LEMMA TakesBoth ==
  ASSUME NEW kind, NEW m, NEW n, NEW p, NEW q, NEW r, Takes(kind, m, p, q), Takes(kind, n, q, r)
  PROVE  Takes(kind, m \o n, p, r)
<1>1. m \in Seq(ChunksWritten) /\ n \in Seq(ChunksWritten)
  BY DEF Takes
<1>2. ASSUME NEW s \in Seq(ChunksWritten), CollectAll(kind, s) = p
      PROVE  CollectAll(kind, s \o (m \o n)) = r
  <2>1. s \o (m \o n) = (s \o m) \o n
    BY <1>1, ConcatAssociative
  <2>2. CollectAll(kind, s \o m) = q /\ s \o m \in Seq(ChunksWritten)
    BY <1>1, <1>2 DEF Takes
  <2>3. CollectAll(kind, (s \o m) \o n) = r
    BY <2>2 DEF Takes
  <2> QED
    BY <2>1, <2>3
<1>3. m \o n \in Seq(ChunksWritten)
  BY <1>1
<1> QED
  BY <1>2, <1>3 DEF Takes

LEMMA TakesFromStart ==
  ASSUME NEW kind, NEW m, NEW q, Takes(kind, m, Collected0, q)
  PROVE  CollectAll(kind, m) = q
<1>1. m \in Seq(ChunksWritten) /\ <<>> \in Seq(ChunksWritten)
  BY DEF Takes
<1>2. CollectAll(kind, <<>> \o m) = q
  BY <1>1, CollectNone DEF Takes
<1>3. <<>> \o m = m
  BY <1>1
<1> QED
  BY <1>2, <1>3

LEMMA ChunkIs ==
  ASSUME NEW ty, NEW v
  PROVE  Chunk(ty, v).ty = ty /\ Chunk(ty, v).val = v /\ Chunk(ty, v).ok = TRUE
  BY DEF Chunk

\* Took says all of what is collected.
LEMMA TakesTook ==
  ASSUME NEW kind \in Kinds, NEW p \in Records(kind), ~Ignored(p), NEW c \in ChunksWritten,
         ~Rejects(kind, c), c.ty # EndOf(kind), NEW q, Took(kind, p, c, q)
  PROVE  Takes(kind, <<c>>, p, q)
<1>1. PICK r : r = Collect(kind, p, c)
  OBVIOUS
<1>2. Took(kind, p, c, r)
  BY <1>1, CollectFields
<1>3. q = r
  <2>1. /\ q.phsf = r.phsf /\ q.data = r.data /\ q.xattrs = r.xattrs
        /\ q.single = r.single /\ q.extra = r.extra
    BY <1>2 DEF Took
  <2>2. /\ q = [phsf |-> q.phsf, extra |-> q.extra, data |-> q.data, xattrs |-> q.xattrs,
                single |-> q.single, failed |-> FALSE, ended |-> FALSE]
        /\ r = [phsf |-> r.phsf, extra |-> r.extra, data |-> r.data, xattrs |-> r.xattrs,
                single |-> r.single, failed |-> FALSE, ended |-> FALSE]
    BY <1>2 DEF Took
  <2> QED
    BY <2>1, <2>2
<1> QED
  BY <1>1, <1>3, TakesOne

LEMMA GoingIs ==
  ASSUME NEW ph, NEW ex, NEW da, NEW xa, NEW si, NEW p, p = Going(ph, ex, da, xa, si)
  PROVE  /\ p.phsf = ph /\ p.extra = ex /\ p.data = da /\ p.xattrs = xa /\ p.single = si
         /\ p.failed = FALSE /\ p.ended = FALSE /\ ~Ignored(p)
  BY DEF Going, Ignored

\* The end.
LEMMA TakesEnd ==
  ASSUME NEW kind \in Kinds, NEW p, ~Ignored(p)
  PROVE  Takes(kind, <<Chunk(EndOf(kind), 0)>>, p, [p EXCEPT !.ended = TRUE])
<1>0. PICK c : c = Chunk(EndOf(kind), 0)
  OBVIOUS
<1>1. c.ty = EndOf(kind) /\ c.ok = TRUE
  BY <1>0, ChunkIs
<1>2. c \in ChunksWritten
  BY <1>0 DEF ChunksWritten, Chunk, EndOf, Values
<1>4. Collect(kind, p, c) = [p EXCEPT !.ended = TRUE]
  BY <1>1, CollectEnds
<1>5. Takes(kind, <<c>>, p, Collect(kind, p, c))
  BY <1>2, TakesOne
<1> QED
  BY <1>0, <1>4, <1>5

\* One of the chunks whose number is not fixed.
LEMMA TakesData ==
  ASSUME NEW kind \in Kinds, NEW ph, NEW ex, NEW da, NEW xa, NEW si,
         Going(ph, ex, da, xa, si) \in Records(kind), NEW v \in Values
  PROVE  Takes(kind, <<Chunk(DataOf(kind), v)>>, Going(ph, ex, da, xa, si),
               Going(ph, ex, Append(da, v), xa, si))
<1>0. PICK c, p, q : /\ c = Chunk(DataOf(kind), v) /\ p = Going(ph, ex, da, xa, si)
                     /\ q = Going(ph, ex, Append(da, v), xa, si)
  OBVIOUS
<1>1. c.ty = DataOf(kind) /\ c.ok = TRUE /\ c.val = v
  BY <1>0, ChunkIs
<1>2. c \in ChunksWritten
  BY <1>0 DEF ChunksWritten, Chunk, DataOf
<1>3. /\ ~Known(kind, c.ty) /\ ~Foreign(kind, c.ty) /\ c.ty # "PHSF" /\ c.ty # EndOf(kind)
      /\ ~Rejects(kind, c)
  <2>1. c.ty # "PHSF" /\ c.ty # EndOf(kind)
    BY <1>1 DEF DataOf, EndOf
  <2>2. ~Known(kind, c.ty)
    BY <1>1, Apart
  <2> QED
    BY <1>1, <2>1, <2>2 DEF Foreign, Rejects
<1>4. Took(kind, p, c, q)
  BY <1>0, <1>1, <1>3 DEF Took, Going
<1>5. p \in Records(kind) /\ ~Ignored(p)
  BY <1>0, GoingIs
<1> QED
  BY <1>0, <1>2, <1>3, <1>4, <1>5, TakesTook

LEMMA TakesXattr ==
  ASSUME NEW ph, NEW ex, NEW da, NEW xa, NEW si,
         Going(ph, ex, da, xa, si) \in Records("normal"), NEW v \in Values
  PROVE  Takes("normal", <<Chunk("xATR", v)>>, Going(ph, ex, da, xa, si),
               Going(ph, ex, da, Append(xa, v), si))
<1>0. PICK c, p, q : /\ c = Chunk("xATR", v) /\ p = Going(ph, ex, da, xa, si)
                     /\ q = Going(ph, ex, da, Append(xa, v), si)
  OBVIOUS
<1>1. c.ty = "xATR" /\ c.ok = TRUE /\ c.val = v /\ "normal" \in Kinds
  BY <1>0, ChunkIs DEF Kinds
<1>2. c \in ChunksWritten
  BY <1>0 DEF ChunksWritten, Chunk
<1>3. Known("normal", c.ty) /\ Decodes(c)
  BY <1>1, Names DEF Known, Decodes
<1>4. /\ ~Foreign("normal", c.ty) /\ c.ty # "PHSF"
      /\ c.ty # EndOf("normal") /\ c.ty # DataOf("normal") /\ ~Rejects("normal", c)
  BY <1>1, <1>3, Apart DEF Foreign, Rejects
<1>5. Took("normal", p, c, q)
  BY <1>0, <1>1, <1>3, <1>4 DEF Took, Going
<1>6. p \in Records("normal") /\ ~Ignored(p)
  BY <1>0, GoingIs
<1> QED
  BY <1>0, <1>1, <1>2, <1>4, <1>5, <1>6, TakesTook

LEMMA TakesForeign ==
  ASSUME NEW kind \in Kinds, NEW ph, NEW ex, NEW da, NEW xa, NEW si,
         Going(ph, ex, da, xa, si) \in Records(kind), NEW c \in ForeignChunks(kind)
  PROVE  Takes(kind, <<c>>, Going(ph, ex, da, xa, si), Going(ph, Append(ex, c), da, xa, si))
<1>0. PICK p, q : /\ p = Going(ph, ex, da, xa, si)
                  /\ q = Going(ph, Append(ex, c), da, xa, si)
  OBVIOUS
<1>1. c \in ChunksWritten /\ Foreign(kind, c.ty)
  BY DEF ChunksWritten, ForeignChunks
<1>2. /\ ~Known(kind, c.ty) /\ c.ty # "PHSF" /\ c.ty # EndOf(kind) /\ c.ty # DataOf(kind)
      /\ ~Rejects(kind, c)
  BY <1>1 DEF Foreign, Rejects
<1>4. Took(kind, p, c, q)
  BY <1>0, <1>1, <1>2 DEF Took, Going
<1>5. p \in Records(kind) /\ ~Ignored(p)
  BY <1>0, GoingIs
<1> QED
  BY <1>0, <1>1, <1>2, <1>4, <1>5, TakesTook

LEMMA TakesHash ==
  ASSUME NEW kind \in Kinds, NEW ex, NEW da, NEW xa, NEW si, NEW o \in Optionals(Values),
         Going(None, ex, da, xa, si) \in Records(kind)
  PROVE  Takes(kind, Optional("PHSF", o), Going(None, ex, da, xa, si), Going(o, ex, da, xa, si))
<1>1. CASE o = None
  BY <1>1, TakesNone DEF Optional
<1>2. CASE o # None
  <2>0. PICK c, p, q : /\ c = Chunk("PHSF", o[1]) /\ p = Going(None, ex, da, xa, si)
                       /\ q = Going(o, ex, da, xa, si)
    OBVIOUS
  <2>1. PICK v \in Values : o = Some(v)
    BY <1>2 DEF Optionals
  <2>2. o[1] = v
    BY <2>1 DEF Some
  <2>3. c.ty = "PHSF" /\ c.ok = TRUE /\ c.val = v
    BY <2>0, <2>2 DEF Chunk
  <2>4. c \in ChunksWritten
    BY <2>0, <2>2 DEF ChunksWritten, Chunk
  <2>5. /\ ~Known(kind, c.ty) /\ ~Foreign(kind, c.ty) /\ c.ty # EndOf(kind) /\ c.ty # DataOf(kind)
        /\ ~Rejects(kind, c)
    <3>1. c.ty # EndOf(kind) /\ c.ty # DataOf(kind)
      BY <2>3 DEF DataOf, EndOf
    <3>2. ~Known(kind, c.ty)
      BY <2>3, Apart
    <3> QED
      BY <2>3, <3>1, <3>2 DEF Foreign, Rejects
  <2>6. Took(kind, p, c, q)
    BY <2>0, <2>1, <2>3, <2>5 DEF Took, Going
  <2>7. p \in Records(kind) /\ ~Ignored(p)
    BY <2>0, GoingIs
  <2>8. Takes(kind, <<c>>, p, q)
    BY <2>4, <2>5, <2>6, <2>7, TakesTook
  <2>9. Optional("PHSF", o) = <<c>>
    BY <1>2, <2>0 DEF Optional
  <2> QED
    BY <2>0, <2>8, <2>9
<1> QED
  BY <1>1, <1>2

\* The single fields that have been written, of those the entry has.
SinglesOf(w, K) == [f \in Single |-> IF f \in K THEN w[f] ELSE None]

LEMMA TakesSingle ==
  ASSUME NEW ph, NEW ex, NEW da, NEW xa, NEW w, NEW K, NEW f \in Single,
         Going(ph, ex, da, xa, SinglesOf(w, K)) \in Records("normal"),
         w[f] \in Optionals(Fits(f))
  PROVE  Takes("normal", Optional(f, w[f]), Going(ph, ex, da, xa, SinglesOf(w, K)),
               Going(ph, ex, da, xa, SinglesOf(w, K \cup {f})))
<1>1. CASE w[f] = None
  <2>1. SinglesOf(w, K \cup {f}) = SinglesOf(w, K)
    BY <1>1 DEF SinglesOf
  <2> QED
    BY <1>1, <2>1, TakesNone DEF Optional
<1>2. CASE w[f] # None
  <2>0. PICK c, p, q : /\ c = Chunk(f, w[f][1]) /\ p = Going(ph, ex, da, xa, SinglesOf(w, K))
                       /\ q = Going(ph, ex, da, xa, SinglesOf(w, K \cup {f}))
    OBVIOUS
  <2>1. PICK v \in Fits(f) : w[f] = Some(v)
    BY <1>2 DEF Optionals
  <2>2. w[f][1] = v /\ v \in Values
    BY <2>1 DEF Some, Fits
  <2>3. c.ty = f /\ c.ok = TRUE /\ c.val = v /\ "normal" \in Kinds
    BY <2>0, <2>2 DEF Chunk, Kinds
  <2>4. c \in ChunksWritten
    BY <2>0, <2>2 DEF ChunksWritten, Chunk
  <2>5. c.ty # "xATR" /\ Known("normal", c.ty)
    BY <2>3, Names DEF Known
  <2>6. Decodes(c) /\ Decoded(c) = w[f]
    BY <2>1, <2>3 DEF Decodes, Decoded, Fits
  <2>7. /\ ~Foreign("normal", c.ty) /\ c.ty # "PHSF"
        /\ c.ty # EndOf("normal") /\ c.ty # DataOf("normal") /\ ~Rejects("normal", c)
    BY <2>3, <2>5, <2>6, Apart DEF Foreign, Rejects
  <2>8. SinglesOf(w, K \cup {f}) = [SinglesOf(w, K) EXCEPT ![f] = w[f]]
    BY DEF SinglesOf
  <2>9. Took("normal", p, c, q)
    BY <2>0, <2>3, <2>5, <2>6, <2>7, <2>8 DEF Took, Going
  <2>10. p \in Records("normal") /\ ~Ignored(p)
    BY <2>0, GoingIs
  <2>11. Takes("normal", <<c>>, p, q)
    BY <2>3, <2>4, <2>7, <2>9, <2>10, TakesTook
  <2>12. Optional(f, w[f]) = <<c>>
    BY <1>2, <2>0 DEF Optional
  <2> QED
    BY <2>0, <2>11, <2>12
<1> QED
  BY <1>1, <1>2
-----------------------------------------------------------------------------
(* What is read of an entry that has been written.                         *)

LEMMA GoingTyped ==
  ASSUME NEW kind, NEW ph \in Optionals(Values), NEW ex \in Seq(ForeignChunks(kind)),
         NEW da \in Seq(Values), NEW xa \in Seq(Values), NEW si \in [Single -> Optionals(Values)]
  PROVE  Going(ph, ex, da, xa, si) \in Records(kind)
  BY DEF Going, Records

LEMMA EachAsGrows ==
  ASSUME NEW ty, NEW s \in Seq(Values), NEW v \in Values
  PROVE  EachAs(ty, Append(s, v)) = EachAs(ty, s) \o <<Chunk(ty, v)>>
<1> DEFINE X == {Chunk(ty, x) : x \in Values}
<1>1. /\ EachAs(ty, s) \in Seq(X) /\ Len(EachAs(ty, s)) = Len(s)
      /\ EachAs(ty, Append(s, v)) \in Seq(X) /\ Len(EachAs(ty, Append(s, v))) = Len(s) + 1
  BY DEF EachAs
<1>2. \A k \in 1..Len(s) : EachAs(ty, Append(s, v))[k] = EachAs(ty, s)[k]
  BY DEF EachAs
<1>3. EachAs(ty, Append(s, v))[Len(s) + 1] = Chunk(ty, v)
  BY DEF EachAs
<1>4. Chunk(ty, v) \in X
  OBVIOUS
<1> HIDE DEF X
<1> QED
  BY <1>1, <1>2, <1>3, <1>4

LEMMA TakesEachData ==
  ASSUME NEW kind \in Kinds, NEW ph \in Optionals(Values), NEW ex \in Seq(ForeignChunks(kind)),
         NEW xa \in Seq(Values), NEW si \in [Single -> Optionals(Values)], NEW s \in Seq(Values)
  PROVE  Takes(kind, EachAs(DataOf(kind), s), Going(ph, ex, <<>>, xa, si), Going(ph, ex, s, xa, si))
<1> DEFINE Good(t) == Takes(kind, EachAs(DataOf(kind), t), Going(ph, ex, <<>>, xa, si),
                            Going(ph, ex, t, xa, si))
           S == {t \in Seq(Values) : Good(t)}
<1>1. Good(<<>>)
  BY TakesNone DEF EachAs
<1>2. ASSUME NEW t \in Seq(Values), NEW v \in Values, Good(t) PROVE Good(Append(t, v))
  <2>1. Going(ph, ex, t, xa, si) \in Records(kind)
    BY GoingTyped
  <2>2. Takes(kind, <<Chunk(DataOf(kind), v)>>, Going(ph, ex, t, xa, si),
              Going(ph, ex, Append(t, v), xa, si))
    BY <2>1, TakesData
  <2>3. Takes(kind, EachAs(DataOf(kind), t) \o <<Chunk(DataOf(kind), v)>>, Going(ph, ex, <<>>, xa, si),
              Going(ph, ex, Append(t, v), xa, si))
    BY <1>2, <2>2, TakesBoth
  <2> QED
    BY <2>3, EachAsGrows
<1> HIDE DEF Good
<1>3. <<>> \in S /\ \A t \in Seq(Values), v \in Values : t \in S => Append(t, v) \in S
  BY <1>1, <1>2
<1> HIDE DEF S
<1>4. Seq(Values) \subseteq S
  BY <1>3, SeqInduction
<1> QED
  BY <1>4 DEF S, Good

LEMMA TakesEachXattr ==
  ASSUME NEW ph \in Optionals(Values), NEW ex \in Seq(ForeignChunks("normal")),
         NEW da \in Seq(Values), NEW si \in [Single -> Optionals(Values)], NEW s \in Seq(Values)
  PROVE  Takes("normal", EachAs("xATR", s), Going(ph, ex, da, <<>>, si), Going(ph, ex, da, s, si))
<1> DEFINE Good(t) == Takes("normal", EachAs("xATR", t), Going(ph, ex, da, <<>>, si),
                            Going(ph, ex, da, t, si))
           S == {t \in Seq(Values) : Good(t)}
<1>1. Good(<<>>)
  BY TakesNone DEF EachAs
<1>2. ASSUME NEW t \in Seq(Values), NEW v \in Values, Good(t) PROVE Good(Append(t, v))
  <2>1. Going(ph, ex, da, t, si) \in Records("normal")
    BY GoingTyped
  <2>2. Takes("normal", <<Chunk("xATR", v)>>, Going(ph, ex, da, t, si),
              Going(ph, ex, da, Append(t, v), si))
    BY <2>1, TakesXattr
  <2>3. Takes("normal", EachAs("xATR", t) \o <<Chunk("xATR", v)>>, Going(ph, ex, da, <<>>, si),
              Going(ph, ex, da, Append(t, v), si))
    BY <1>2, <2>2, TakesBoth
  <2> QED
    BY <2>3, EachAsGrows
<1> HIDE DEF Good
<1>3. <<>> \in S /\ \A t \in Seq(Values), v \in Values : t \in S => Append(t, v) \in S
  BY <1>1, <1>2
<1> HIDE DEF S
<1>4. Seq(Values) \subseteq S
  BY <1>3, SeqInduction
<1> QED
  BY <1>4 DEF S, Good

LEMMA TakesEachForeign ==
  ASSUME NEW kind \in Kinds, NEW ph \in Optionals(Values), NEW da \in Seq(Values),
         NEW xa \in Seq(Values), NEW si \in [Single -> Optionals(Values)],
         NEW s \in Seq(ForeignChunks(kind))
  PROVE  Takes(kind, s, Going(ph, <<>>, da, xa, si), Going(ph, s, da, xa, si))
<1> DEFINE X == ForeignChunks(kind)
           Good(t) == Takes(kind, t, Going(ph, <<>>, da, xa, si), Going(ph, t, da, xa, si))
           S == {t \in Seq(X) : Good(t)}
<1>1. Good(<<>>)
  BY TakesNone
<1>2. ASSUME NEW t \in Seq(X), NEW c \in X, Good(t) PROVE Good(Append(t, c))
  <2>1. Going(ph, t, da, xa, si) \in Records(kind)
    BY GoingTyped
  <2>2. Takes(kind, <<c>>, Going(ph, t, da, xa, si), Going(ph, Append(t, c), da, xa, si))
    BY <2>1, TakesForeign
  <2>3. Append(t, c) = t \o <<c>>
    OBVIOUS
  <2>4. Takes(kind, t \o <<c>>, Going(ph, <<>>, da, xa, si), Going(ph, Append(t, c), da, xa, si))
    BY <1>2, <2>2, TakesBoth
  <2> QED
    BY <2>3, <2>4
<1>3. <<>> \in Seq(X)
  OBVIOUS
<1> HIDE DEF Good, X
<1>4. <<>> \in S /\ \A t \in Seq(X), c \in X : t \in S => Append(t, c) \in S
  BY <1>1, <1>2, <1>3
<1> HIDE DEF S
<1>5. Seq(X) \subseteq S
  BY <1>4, SeqInduction
<1> QED
  BY <1>5 DEF S, Good, X

\* The fields that the chunks of an entry stand for.
SecondsIn(e, t) ==
  IF e.times[t] = None THEN None ELSE Some(ToSecondsNanos(e.times[t][1])[1])
NanosIn(e, t) ==
  IF e.times[t] = None \/ ToSecondsNanos(e.times[t][1])[2] = 0 THEN None
  ELSE Some(ToSecondsNanos(e.times[t][1])[2])
StoredIn(e, f) ==
  CASE f = "cTIM" -> SecondsIn(e, "created")
    [] f = "mTIM" -> SecondsIn(e, "modified")
    [] f = "aTIM" -> SecondsIn(e, "accessed")
    [] f = "cTNS" -> NanosIn(e, "created")
    [] f = "mTNS" -> NanosIn(e, "modified")
    [] f = "aTNS" -> NanosIn(e, "accessed")
    [] f \in Facets -> e.facets[f]
    [] f = "fPRM" -> None
Singles(e) == [f \in Single |-> StoredIn(e, f)]

LEMMA StoredIs ==
  ASSUME NEW e
  PROVE  /\ Singles(e)["cTIM"] = SecondsIn(e, "created")
         /\ Singles(e)["mTIM"] = SecondsIn(e, "modified")
         /\ Singles(e)["aTIM"] = SecondsIn(e, "accessed")
         /\ Singles(e)["cTNS"] = NanosIn(e, "created")
         /\ Singles(e)["mTNS"] = NanosIn(e, "modified")
         /\ Singles(e)["aTNS"] = NanosIn(e, "accessed")
         /\ \A f \in Facets : Singles(e)[f] = e.facets[f]
         /\ Singles(e)["fPRM"] = None
  BY Names DEF Singles, StoredIn, Facets, PosixFacets
-----------------------------------------------------------------------------
(* An entry that has been parsed, written and parsed again.                *)

NormalOf(h, p) ==
  [kind |-> "normal", header |-> h, phsf |-> p.phsf, extra |-> p.extra, data |-> p.data,
   xattrs |-> p.xattrs, facets |-> FillFromLegacy(p.single),
   times |-> [t \in Times |-> TimeOf(p.single, t)]]
SolidOf(h, p) ==
  [kind |-> "solid", header |-> h, phsf |-> p.phsf, extra |-> p.extra, data |-> p.data]

NormalEntries ==
  {e \in [kind : {"normal"}, header : Values, phsf : Optionals(Values),
          extra : Seq(ForeignChunks("normal")), data : Seq(Values), xattrs : Seq(Values),
          facets : [Facets -> Optionals(Values)], times : [Times -> Optionals(Int)]] :
     \A f \in Facets : e.facets[f] \in Optionals(Fits(f))}
SolidEntries ==
  [kind : {"solid"}, header : Values, phsf : Optionals(Values),
   extra : Seq(ForeignChunks("solid")), data : Seq(Values)]

LEMMA OptionalIs ==
  ASSUME NEW V, NEW o \in Optionals(V)
  PROVE  o # None => o[1] \in V /\ o = Some(o[1])
<1> SUFFICES ASSUME o # None PROVE o[1] \in V /\ o = Some(o[1])
  OBVIOUS
<1>1. PICK v \in V : o = Some(v)
  BY DEF Optionals
<1> QED
  BY <1>1 DEF Some

LEMMA FitsMore ==
  ASSUME NEW f
  PROVE  Optionals(Fits(f)) \subseteq Optionals(Values)
  BY DEF Optionals, Fits

LEMMA TimeTyped ==
  ASSUME NEW single, \A f \in Single : single[f] \in Optionals(Fits(f)), NEW t \in Times
  PROVE  TimeOf(single, t) \in Optionals(Int)
<1>1. SecondsOf[t] \in Single /\ NanosOf[t] \in Single
  BY Names DEF SecondsOf, NanosOf
<1>2. SecondsOf[t] \in Range(SecondsOf) /\ NanosOf[t] \in Range(NanosOf)
  BY Names DEF SecondsOf, NanosOf
<1>3. CASE single[SecondsOf[t]] = None
  BY <1>3 DEF TimeOf, Optionals
<1>4. CASE single[SecondsOf[t]] # None
  <2>1. single[SecondsOf[t]][1] \in Int
    <3>1. single[SecondsOf[t]][1] \in Fits(SecondsOf[t])
      BY <1>1, <1>4, OptionalIs
    <3> QED
      BY <1>2, <3>1 DEF Fits
  <2>2. OrElse(single[NanosOf[t]], 0) \in Int
    <3>1. CASE single[NanosOf[t]] = None
      BY <3>1 DEF OrElse
    <3>2. CASE single[NanosOf[t]] # None
      <4>1. single[NanosOf[t]][1] \in Fits(NanosOf[t])
        BY <1>1, <3>2, OptionalIs
      <4>2. single[NanosOf[t]][1] \in 0..(NANOS - 1)
        BY <1>2, <4>1 DEF Fits
      <4> QED
        BY <3>2, <4>2, NanosAssumption DEF OrElse
    <3> QED
      BY <3>1, <3>2
  <2>3. FromSecondsNanos(single[SecondsOf[t]][1], OrElse(single[NanosOf[t]], 0)) \in Int
    BY <2>1, <2>2, NanosAssumption DEF FromSecondsNanos
  <2> QED
    BY <1>4, <2>3 DEF TimeOf, Optionals
<1> QED
  BY <1>3, <1>4

LEMMA FilledTyped ==
  ASSUME NEW single, \A f \in Single : single[f] \in Optionals(Fits(f)),
         NEW K, K = FillFromLegacy(single)
  PROVE  /\ K \in [Facets -> Optionals(Values)]
         /\ \A f \in Facets : K[f] \in Optionals(Fits(f))
<1>1. "fPRM" \in Single /\ Facets \subseteq Single
  BY DEF Single
<1>2. \A f \in PosixFacets : Fits("fPRM") \subseteq Fits(f)
  BY Names DEF Fits, PosixFacets
<1>3. \A f \in PosixFacets : Optionals(Fits("fPRM")) \subseteq Optionals(Fits(f))
  BY <1>2 DEF Optionals
<1>4. /\ K = [f \in Facets |-> K[f]]
      /\ \A f \in Facets : K[f] = single[f] \/ (f \in PosixFacets /\ K[f] = single["fPRM"])
  <2>1. CASE \A f \in PosixFacets : single[f] = None
    <3>1. K = [f \in Facets |-> IF f \in PosixFacets THEN single["fPRM"] ELSE single[f]]
      BY <2>1 DEF FillFromLegacy
    <3>2. \A f \in Facets : K[f] = IF f \in PosixFacets THEN single["fPRM"] ELSE single[f]
      BY <3>1
    <3>3. K = [f \in Facets |-> K[f]]
      BY <3>1, <3>2
    <3>4. \A f \in Facets : K[f] = single[f] \/ (f \in PosixFacets /\ K[f] = single["fPRM"])
      BY <3>2
    <3> QED
      BY <3>3, <3>4
  <2>2. CASE ~(\A f \in PosixFacets : single[f] = None)
    <3>1. K = [f \in Facets |-> single[f]]
      BY <2>2 DEF FillFromLegacy
    <3>2. \A f \in Facets : K[f] = single[f]
      BY <3>1
    <3>3. K = [f \in Facets |-> K[f]]
      BY <3>1, <3>2
    <3>4. \A f \in Facets : K[f] = single[f] \/ (f \in PosixFacets /\ K[f] = single["fPRM"])
      BY <3>2
    <3> QED
      BY <3>3, <3>4
  <2> QED
    BY <2>1, <2>2
<1>5. \A f \in Facets : K[f] \in Optionals(Fits(f))
  BY <1>1, <1>3, <1>4
<1>6. \A f \in Facets : K[f] \in Optionals(Values)
  BY <1>5, FitsMore
<1> QED
  BY <1>4, <1>5, <1>6

LEMMA NormalTyped ==
  ASSUME NEW h \in Values, NEW p \in Collected("normal")
  PROVE  NormalOf(h, p) \in NormalEntries
<1>1. p \in Records("normal") /\ \A f \in Single : p.single[f] \in Optionals(Fits(f))
  BY DEF Collected
<1>2. PICK T : T = [t \in Times |-> TimeOf(p.single, t)]
  OBVIOUS
<1>3. PICK K : K = FillFromLegacy(p.single)
  OBVIOUS
<1>4. T \in [Times -> Optionals(Int)]
  BY <1>1, <1>2, TimeTyped
<1>5. K \in [Facets -> Optionals(Values)] /\ \A f \in Facets : K[f] \in Optionals(Fits(f))
  BY <1>1, <1>3, FilledTyped
<1>6. NormalOf(h, p) = [kind |-> "normal", header |-> h, phsf |-> p.phsf, extra |-> p.extra,
                        data |-> p.data, xattrs |-> p.xattrs, facets |-> K, times |-> T]
  BY <1>2, <1>3 DEF NormalOf
<1>7. /\ p.phsf \in Optionals(Values) /\ p.extra \in Seq(ForeignChunks("normal"))
      /\ p.data \in Seq(Values) /\ p.xattrs \in Seq(Values)
  BY <1>1 DEF Records
<1> QED
  BY <1>4, <1>5, <1>6, <1>7 DEF NormalEntries

LEMMA SolidTyped ==
  ASSUME NEW h \in Values, NEW p \in Collected("solid")
  PROVE  SolidOf(h, p) \in SolidEntries
  BY DEF SolidOf, SolidEntries, Collected, Records

\* A time is an optional number of seconds and nanoseconds, and returns.
LEMMA StoredTimes ==
  ASSUME NEW e \in NormalEntries, NEW t \in Times
  PROVE  /\ SecondsIn(e, t) \in Optionals(Int)
         /\ NanosIn(e, t) \in Optionals(0..(NANOS - 1))
         /\ e.times[t] = IF SecondsIn(e, t) = None THEN None
                         ELSE Some(FromSecondsNanos(SecondsIn(e, t)[1], OrElse(NanosIn(e, t), 0)))
<1>1. e.times[t] \in Optionals(Int)
  BY DEF NormalEntries
<1>2. CASE e.times[t] = None
  BY <1>2 DEF SecondsIn, NanosIn, Optionals
<1>3. CASE e.times[t] # None
  <2>1. PICK d \in Int : e.times[t] = Some(d)
    BY <1>1, <1>3 DEF Optionals
  <2>2. PICK s, n : s = ToSecondsNanos(d)[1] /\ n = ToSecondsNanos(d)[2]
    OBVIOUS
  <2>3. s \in Int /\ n \in 0..(NANOS - 1) /\ FromSecondsNanos(s, n) = d
    BY <2>2, TimesReturn
  <2>4. e.times[t][1] = d
    BY <2>1 DEF Some
  <2>5. SecondsIn(e, t) = Some(s) /\ NanosIn(e, t) = IF n = 0 THEN None ELSE Some(n)
    BY <1>3, <2>2, <2>4 DEF SecondsIn, NanosIn
  <2>6. Some(s) # None /\ Some(s)[1] = s /\ Some(n) # None /\ Some(n)[1] = n
    BY DEF Some, None
  <2>7. OrElse(NanosIn(e, t), 0) = n
    BY <2>5, <2>6 DEF OrElse
  <2> QED
    BY <2>1, <2>3, <2>5, <2>6, <2>7 DEF Optionals
<1> QED
  BY <1>2, <1>3

LEMMA StoredTyped ==
  ASSUME NEW e \in NormalEntries, NEW f \in Single
  PROVE  Singles(e)[f] \in Optionals(Fits(f))
<1>1. \A t \in Times : SecondsIn(e, t) \in Optionals(Int) /\ NanosIn(e, t) \in Optionals(0..(NANOS - 1))
  BY StoredTimes
<1>2. Int \subseteq Fits("cTIM") /\ Int \subseteq Fits("mTIM") /\ Int \subseteq Fits("aTIM")
  BY Names DEF Fits, Values
<1>3. /\ 0..(NANOS - 1) \subseteq Fits("cTNS") /\ 0..(NANOS - 1) \subseteq Fits("mTNS")
      /\ 0..(NANOS - 1) \subseteq Fits("aTNS")
  BY Names, NanosAssumption DEF Fits, Values
<1>4. \A V, W : V \subseteq W => Optionals(V) \subseteq Optionals(W)
  BY DEF Optionals
<1>5. CASE f \in Facets
  BY <1>5, StoredIs DEF NormalEntries
<1>6. CASE f = "fPRM"
  BY <1>6, StoredIs DEF Optionals
<1>7. CASE f \in {"cTIM", "mTIM", "aTIM"}
  <2>1. Singles(e)[f] \in Optionals(Int)
    BY <1>1, <1>7, StoredIs, Names
  <2>2. Int \subseteq Fits(f)
    BY <1>2, <1>7
  <2> QED
    BY <1>4, <2>1, <2>2
<1>8. CASE f \in {"cTNS", "mTNS", "aTNS"}
  <2>1. Singles(e)[f] \in Optionals(0..(NANOS - 1))
    BY <1>1, <1>8, StoredIs, Names
  <2>2. 0..(NANOS - 1) \subseteq Fits(f)
    BY <1>3, <1>8
  <2> QED
    BY <1>4, <2>1, <2>2
<1> QED
  BY <1>5, <1>6, <1>7, <1>8, Names DEF Single

LEMMA StoredReturns ==
  ASSUME NEW e \in NormalEntries
  PROVE  /\ FillFromLegacy(Singles(e)) = e.facets
         /\ [t \in Times |-> TimeOf(Singles(e), t)] = e.times
<1>1. PICK w : w = Singles(e)
  OBVIOUS
<1>2. w["fPRM"] = None /\ \A f \in Facets : w[f] = e.facets[f]
  BY <1>1, StoredIs
<1>3. FillFromLegacy(w) = e.facets
  <2>1. e.facets = [f \in Facets |-> e.facets[f]]
    BY DEF NormalEntries
  <2>2. CASE \A f \in PosixFacets : w[f] = None
    <3>1. FillFromLegacy(w) = [f \in Facets |-> IF f \in PosixFacets THEN w["fPRM"] ELSE w[f]]
      BY <2>2 DEF FillFromLegacy
    <3>2. \A f \in Facets : (IF f \in PosixFacets THEN w["fPRM"] ELSE w[f]) = e.facets[f]
      BY <1>2, <2>2
    <3> QED
      BY <2>1, <3>1, <3>2
  <2>3. CASE ~(\A f \in PosixFacets : w[f] = None)
    <3>1. FillFromLegacy(w) = [f \in Facets |-> w[f]]
      BY <2>3 DEF FillFromLegacy
    <3> QED
      BY <1>2, <2>1, <3>1
  <2> QED
    BY <2>2, <2>3
<1>4. ASSUME NEW t \in Times PROVE TimeOf(w, t) = e.times[t]
  <2>1. w[SecondsOf[t]] = SecondsIn(e, t) /\ w[NanosOf[t]] = NanosIn(e, t)
    BY <1>1, StoredIs, Names DEF SecondsOf, NanosOf
  <2>2. TimeOf(w, t) = IF SecondsIn(e, t) = None THEN None
                       ELSE Some(FromSecondsNanos(SecondsIn(e, t)[1], OrElse(NanosIn(e, t), 0)))
    BY <2>1 DEF TimeOf
  <2> QED
    BY <2>2, StoredTimes
<1>5. e.times = [t \in Times |-> e.times[t]]
  BY DEF NormalEntries
<1>6. [t \in Times |-> TimeOf(w, t)] = e.times
  BY <1>4, <1>5
<1> QED
  BY <1>1, <1>3, <1>6
LEMMA SinglesTyped ==
  ASSUME NEW w, \A f \in Single : w[f] \in Optionals(Fits(f)), NEW K
  PROVE  SinglesOf(w, K) \in [Single -> Optionals(Values)]
<1>1. \A f \in Single : w[f] \in Optionals(Values)
  BY FitsMore
<1>2. None \in Optionals(Values)
  BY DEF Optionals
<1> QED
  BY <1>1, <1>2 DEF SinglesOf

\* What has been read of a normal entry when the fields K have been written.
Partly(e, xa, K) == Going(None, e.extra, <<>>, xa, SinglesOf(Singles(e), K))

LEMMA TakesField ==
  ASSUME NEW e \in NormalEntries, NEW K, NEW f \in Single
  PROVE  Takes("normal", Optional(f, Singles(e)[f]), Partly(e, <<>>, K), Partly(e, <<>>, K \cup {f}))
<1>1. PICK w : w = Singles(e)
  OBVIOUS
<1>2. \A g \in Single : w[g] \in Optionals(Fits(g))
  BY <1>1, StoredTyped
<1>3. SinglesOf(w, K) \in [Single -> Optionals(Values)]
  BY <1>2, SinglesTyped
<1>4. e.extra \in Seq(ForeignChunks("normal")) /\ None \in Optionals(Values) /\ <<>> \in Seq(Values)
  BY DEF NormalEntries, Optionals
<1>5. Going(None, e.extra, <<>>, <<>>, SinglesOf(w, K)) \in Records("normal")
  BY <1>3, <1>4, GoingTyped
<1>6. Takes("normal", Optional(f, w[f]), Going(None, e.extra, <<>>, <<>>, SinglesOf(w, K)),
            Going(None, e.extra, <<>>, <<>>, SinglesOf(w, K \cup {f})))
  BY <1>2, <1>5, TakesSingle
<1> QED
  BY <1>1, <1>6 DEF Partly

LEMMA TakesFacet ==
  ASSUME NEW e \in NormalEntries, NEW K, NEW f \in Facets
  PROVE  Takes("normal", FacetChunk(e, f), Partly(e, <<>>, K), Partly(e, <<>>, K \cup {f}))
<1>1. f \in Single
  BY DEF Single
<1>2. FacetChunk(e, f) = Optional(f, Singles(e)[f])
  BY StoredIs DEF FacetChunk
<1> QED
  BY <1>1, <1>2, TakesField

LEMMA TakesTime ==
  ASSUME NEW e \in NormalEntries, NEW K, NEW t \in Times
  PROVE  Takes("normal", TimeChunks(e, t), Partly(e, <<>>, K),
               Partly(e, <<>>, (K \cup {SecondsOf[t]}) \cup {NanosOf[t]}))
<1>1. SecondsOf[t] \in Single /\ NanosOf[t] \in Single
  BY Names DEF SecondsOf, NanosOf
<1>2. Singles(e)[SecondsOf[t]] = SecondsIn(e, t) /\ Singles(e)[NanosOf[t]] = NanosIn(e, t)
  BY StoredIs, Names DEF SecondsOf, NanosOf
<1>3. TimeChunks(e, t) = Optional(SecondsOf[t], SecondsIn(e, t)) \o Optional(NanosOf[t], NanosIn(e, t))
  <2>1. CASE e.times[t] = None
    <3>1. TimeChunks(e, t) = <<>>
      BY <2>1 DEF TimeChunks
    <3>2. SecondsIn(e, t) = None /\ NanosIn(e, t) = None
      BY <2>1 DEF SecondsIn, NanosIn
    <3>3. Optional(SecondsOf[t], SecondsIn(e, t)) = <<>> /\ Optional(NanosOf[t], NanosIn(e, t)) = <<>>
      BY <3>2 DEF Optional
    <3>4. <<>> \o <<>> = <<>>
      OBVIOUS
    <3> QED
      BY <3>1, <3>3, <3>4
  <2>2. CASE e.times[t] # None
    <3>1. PICK sn : sn = ToSecondsNanos(e.times[t][1])
      OBVIOUS
    <3>2. TimeChunks(e, t) = <<Chunk(SecondsOf[t], sn[1])>>
                               \o (IF sn[2] = 0 THEN <<>> ELSE <<Chunk(NanosOf[t], sn[2])>>)
      BY <2>2, <3>1 DEF TimeChunks
    <3>3. SecondsIn(e, t) = Some(sn[1]) /\ NanosIn(e, t) = IF sn[2] = 0 THEN None ELSE Some(sn[2])
      BY <2>2, <3>1 DEF SecondsIn, NanosIn
    <3>4. \A v : Some(v) # None /\ Some(v)[1] = v
      BY DEF Some, None
    <3>5. Optional(SecondsOf[t], SecondsIn(e, t)) = <<Chunk(SecondsOf[t], sn[1])>>
      BY <3>3, <3>4 DEF Optional
    <3>6. Optional(NanosOf[t], NanosIn(e, t)) = IF sn[2] = 0 THEN <<>> ELSE <<Chunk(NanosOf[t], sn[2])>>
      BY <3>3, <3>4 DEF Optional
    <3> QED
      BY <3>2, <3>5, <3>6
  <2> QED
    BY <2>1, <2>2
<1>4. PICK G, H : G = K \cup {SecondsOf[t]} /\ H = G \cup {NanosOf[t]}
  OBVIOUS
<1>5. Takes("normal", Optional(SecondsOf[t], SecondsIn(e, t)), Partly(e, <<>>, K), Partly(e, <<>>, G))
  BY <1>1, <1>2, <1>4, TakesField
<1>6. Takes("normal", Optional(NanosOf[t], NanosIn(e, t)), Partly(e, <<>>, G), Partly(e, <<>>, H))
  BY <1>1, <1>2, <1>4, TakesField
<1>7. Takes("normal", TimeChunks(e, t), Partly(e, <<>>, K), Partly(e, <<>>, H))
  BY <1>3, <1>5, <1>6, TakesBoth
<1> QED
  BY <1>4, <1>7

\* When all fields have been written, what has been read is what is stored.
LEMMA StoredWhole ==
  ASSUME NEW e, NEW K, Single \ {"fPRM"} \subseteq K
  PROVE  SinglesOf(Singles(e), K) = Singles(e)
<1>1. PICK w : w = Singles(e)
  OBVIOUS
<1>2. w["fPRM"] = None /\ w = [f \in Single |-> w[f]]
  <2>1. w["fPRM"] = None
    BY <1>1, StoredIs
  <2>2. w = [f \in Single |-> w[f]]
    <3>1. Singles(e) = [f \in Single |-> Singles(e)[f]]
      BY DEF Singles
    <3> QED
      BY <1>1, <3>1
  <2> QED
    BY <2>1, <2>2
<1>3. \A f \in Single : (IF f \in K THEN w[f] ELSE None) = w[f]
  BY <1>2
<1> QED
  BY <1>1, <1>2, <1>3 DEF SinglesOf

LEMMA TakesMetadata ==
  ASSUME NEW e \in NormalEntries
  PROVE  Takes("normal", FacetChunk(e, "fSIZ") \o MetadataChunks(e), Partly(e, <<>>, {}),
               Going(None, e.extra, <<>>, e.xattrs, Singles(e)))
<1> DEFINE F0 == {"fSIZ"}
           F1 == F0 \cup {"cTIM", "cTNS"}
           F2 == F1 \cup {"mTIM", "mTNS"}
           F3 == F2 \cup {"aTIM", "aTNS"}
           F4 == F3 \cup {"fUId"}
           F5 == F4 \cup {"fGId"}
           F6 == F5 \cup {"fONm"}
           F7 == F6 \cup {"fGNm"}
           F8 == F7 \cup {"fOSi"}
           F9 == F8 \cup {"fGSi"}
           F10 == F9 \cup {"fMOd"}
           F11 == F10 \cup {"fLTP"}
           P(K) == Partly(e, <<>>, K)
<1>0. PICK m0, m1, m2, m3, m4, m5, m6, m7, m8, m9, m10, m11, x :
        /\ m0 = FacetChunk(e, "fSIZ")
        /\ m1 = TimeChunks(e, "created") /\ m2 = TimeChunks(e, "modified")
        /\ m3 = TimeChunks(e, "accessed") /\ m4 = FacetChunk(e, "fUId")
        /\ m5 = FacetChunk(e, "fGId") /\ m6 = FacetChunk(e, "fONm") /\ m7 = FacetChunk(e, "fGNm")
        /\ m8 = FacetChunk(e, "fOSi") /\ m9 = FacetChunk(e, "fGSi") /\ m10 = FacetChunk(e, "fMOd")
        /\ m11 = FacetChunk(e, "fLTP") /\ x = EachAs("xATR", e.xattrs)
  OBVIOUS
<1>1. Takes("normal", m0, P({}), P(F0))
  <2>1. "fSIZ" \in Facets /\ {} \cup {"fSIZ"} = {"fSIZ"}
    BY DEF Facets
  <2> QED
    BY <1>0, <2>1, TakesFacet
<1>2. Takes("normal", m1, P(F0), P(F1))
  <2>1. /\ (F0 \cup {SecondsOf["created"]}) \cup {NanosOf["created"]} = F1
        /\ "created" \in Times
    BY Names DEF SecondsOf, NanosOf
  <2> HIDE DEF F0, F1
  <2> QED
    BY <1>0, <2>1, TakesTime
<1>3. Takes("normal", m2, P(F1), P(F2))
  <2> HIDE DEF F1
  <2>1. /\ (F1 \cup {SecondsOf["modified"]}) \cup {NanosOf["modified"]} = F2
        /\ "modified" \in Times
    BY Names DEF SecondsOf, NanosOf
  <2> HIDE DEF F2
  <2> QED
    BY <1>0, <2>1, TakesTime
<1>4. Takes("normal", m3, P(F2), P(F3))
  <2> HIDE DEF F2
  <2>1. /\ (F2 \cup {SecondsOf["accessed"]}) \cup {NanosOf["accessed"]} = F3
        /\ "accessed" \in Times
    BY Names DEF SecondsOf, NanosOf
  <2> HIDE DEF F3
  <2> QED
    BY <1>0, <2>1, TakesTime
<1>5. /\ "fUId" \in Facets /\ "fGId" \in Facets /\ "fONm" \in Facets /\ "fGNm" \in Facets
      /\ "fOSi" \in Facets /\ "fGSi" \in Facets /\ "fMOd" \in Facets /\ "fLTP" \in Facets
  BY DEF Facets, PosixFacets
<1>6. Single \ {"fPRM"} \subseteq F11
  BY Names
<1> HIDE DEF F3
<1>11. Takes("normal", m4, P(F3), P(F4))
  BY <1>0, <1>5, TakesFacet
<1> HIDE DEF F4
<1>12. Takes("normal", m5, P(F4), P(F5))
  BY <1>0, <1>5, TakesFacet
<1> HIDE DEF F5
<1>13. Takes("normal", m6, P(F5), P(F6))
  BY <1>0, <1>5, TakesFacet
<1> HIDE DEF F6
<1>14. Takes("normal", m7, P(F6), P(F7))
  BY <1>0, <1>5, TakesFacet
<1> HIDE DEF F7
<1>15. Takes("normal", m8, P(F7), P(F8))
  BY <1>0, <1>5, TakesFacet
<1> HIDE DEF F8
<1>16. Takes("normal", m9, P(F8), P(F9))
  BY <1>0, <1>5, TakesFacet
<1> HIDE DEF F9
<1>17. Takes("normal", m10, P(F9), P(F10))
  BY <1>0, <1>5, TakesFacet
<1> HIDE DEF F10
<1>18. Takes("normal", m11, P(F10), P(F11))
  BY <1>0, <1>5, TakesFacet
<1> HIDE DEF F11, F0, F1, F2
<1>7. PICK q : q = Going(None, e.extra, <<>>, e.xattrs, Singles(e))
  OBVIOUS
<1>19. Takes("normal", x, P(F11), q)
  <2>1. PICK w : w = Singles(e)
    OBVIOUS
  <2>2. SinglesOf(w, F11) = w
    BY <1>6, <2>1, StoredWhole
  <2>3. w \in [Single -> Optionals(Values)]
    BY <2>1, <2>2, StoredTyped, SinglesTyped
  <2>4. /\ e.extra \in Seq(ForeignChunks("normal")) /\ e.xattrs \in Seq(Values)
        /\ None \in Optionals(Values) /\ <<>> \in Seq(Values)
    BY DEF NormalEntries, Optionals
  <2>5. Takes("normal", EachAs("xATR", e.xattrs), Going(None, e.extra, <<>>, <<>>, w),
              Going(None, e.extra, <<>>, e.xattrs, w))
    BY <2>3, <2>4, TakesEachXattr
  <2> QED
    BY <1>0, <1>7, <2>1, <2>2, <2>5 DEF Partly
<1> HIDE DEF P
<1>22. Takes("normal", m1 \o m2, P(F0), P(F2))
  BY <1>2, <1>3, TakesBoth
<1>23. Takes("normal", m1 \o m2 \o m3, P(F0), P(F3))
  BY <1>22, <1>4, TakesBoth
<1>24. Takes("normal", m1 \o m2 \o m3 \o m4, P(F0), P(F4))
  BY <1>23, <1>11, TakesBoth
<1>25. Takes("normal", m1 \o m2 \o m3 \o m4 \o m5, P(F0), P(F5))
  BY <1>24, <1>12, TakesBoth
<1>26. Takes("normal", m1 \o m2 \o m3 \o m4 \o m5 \o m6, P(F0), P(F6))
  BY <1>25, <1>13, TakesBoth
<1>27. Takes("normal", m1 \o m2 \o m3 \o m4 \o m5 \o m6 \o m7, P(F0), P(F7))
  BY <1>26, <1>14, TakesBoth
<1>28. Takes("normal", m1 \o m2 \o m3 \o m4 \o m5 \o m6 \o m7 \o m8, P(F0), P(F8))
  BY <1>27, <1>15, TakesBoth
<1>29. Takes("normal", m1 \o m2 \o m3 \o m4 \o m5 \o m6 \o m7 \o m8 \o m9, P(F0), P(F9))
  BY <1>28, <1>16, TakesBoth
<1>30. Takes("normal", m1 \o m2 \o m3 \o m4 \o m5 \o m6 \o m7 \o m8 \o m9 \o m10, P(F0), P(F10))
  BY <1>29, <1>17, TakesBoth
<1>31. Takes("normal", m1 \o m2 \o m3 \o m4 \o m5 \o m6 \o m7 \o m8 \o m9 \o m10 \o m11,
             P(F0), P(F11))
  BY <1>30, <1>18, TakesBoth
<1>32. Takes("normal", m1 \o m2 \o m3 \o m4 \o m5 \o m6 \o m7 \o m8 \o m9 \o m10 \o m11 \o x, P(F0), q)
  BY <1>31, <1>19, TakesBoth
<1>33. MetadataChunks(e) = m1 \o m2 \o m3 \o m4 \o m5 \o m6 \o m7 \o m8 \o m9 \o m10 \o m11 \o x
  BY <1>0 DEF MetadataChunks
<1>34. Takes("normal", m0 \o MetadataChunks(e), P({}), q)
  BY <1>1, <1>32, <1>33, TakesBoth
<1> QED
  BY <1>0, <1>7, <1>34 DEF P
\* The chunks m begin with a header and what follows it is read as p.
Reads(kind, h, m, p) ==
  m \in Seq(ChunksWritten) /\ m # <<>> /\ Head(m) = h /\ CollectAll(kind, Tail(m)) = p

LEMMA ReadsHead ==
  ASSUME NEW kind, NEW h \in ChunksWritten
  PROVE  Reads(kind, h, <<h>>, Collected0)
<1>1. <<h>> \in Seq(ChunksWritten) /\ <<h>> # <<>> /\ Head(<<h>>) = h /\ Tail(<<h>>) = <<>>
  OBVIOUS
<1> QED
  BY <1>1, CollectNone DEF Reads

LEMMA TailConcat ==
  ASSUME NEW X, NEW m \in Seq(X), NEW n \in Seq(X), m # <<>>
  PROVE  /\ m \o n \in Seq(X) /\ m \o n # <<>> /\ Head(m \o n) = Head(m)
         /\ Tail(m) \in Seq(X) /\ Tail(m \o n) = Tail(m) \o n
<1>1. Len(m) > 0 /\ Len(m) \in Nat /\ Len(n) \in Nat
  OBVIOUS
<1>2. /\ m \o n \in Seq(X) /\ Len(m \o n) = Len(m) + Len(n)
      /\ \A k \in 1..Len(m) : (m \o n)[k] = m[k]
      /\ \A k \in 1..Len(n) : (m \o n)[Len(m) + k] = n[k]
  OBVIOUS
<1>3. m \o n # <<>> /\ Head(m \o n) = Head(m)
  BY <1>1, <1>2
<1>4. /\ Tail(m) \in Seq(X) /\ Len(Tail(m)) = Len(m) - 1
      /\ \A k \in 1..(Len(m) - 1) : Tail(m)[k] = m[k + 1]
  BY <1>1
<1>5. PICK w : w = m \o n
  OBVIOUS
<1>6. /\ Tail(w) \in Seq(X) /\ Len(Tail(w)) = Len(m) + Len(n) - 1
      /\ \A k \in 1..(Len(m) + Len(n) - 1) : Tail(w)[k] = w[k + 1]
  BY <1>1, <1>2, <1>3, <1>5
<1>7. /\ Tail(m) \o n \in Seq(X) /\ Len(Tail(m) \o n) = Len(m) + Len(n) - 1
      /\ \A k \in 1..(Len(m) - 1) : (Tail(m) \o n)[k] = Tail(m)[k]
      /\ \A k \in 1..Len(n) : (Tail(m) \o n)[Len(m) - 1 + k] = n[k]
  BY <1>1, <1>4
<1>8. ASSUME NEW k \in 1..(Len(m) + Len(n) - 1) PROVE Tail(w)[k] = (Tail(m) \o n)[k]
  <2>1. CASE k <= Len(m) - 1
    <3>1. k \in 1..(Len(m) - 1) /\ k + 1 \in 1..Len(m)
      BY <1>1, <2>1
    <3> QED
      BY <1>2, <1>4, <1>5, <1>6, <1>7, <3>1
  <2>2. CASE k > Len(m) - 1
    <3>1. PICK j \in 1..Len(n) : k = Len(m) - 1 + j /\ k + 1 = Len(m) + j
      <4>1. k - (Len(m) - 1) \in 1..Len(n)
        BY <1>1, <2>2
      <4> QED
        BY <1>1, <4>1
    <3> QED
      BY <1>2, <1>5, <1>6, <1>7, <3>1
  <2>3. k <= Len(m) - 1 \/ k > Len(m) - 1
    BY <1>1
  <2> QED
    BY <2>1, <2>2, <2>3
<1>9. Tail(w) = Tail(m) \o n
  <2>1. PICK t, u : t = Tail(w) /\ u = Tail(m) \o n
    OBVIOUS
  <2>2. t \in Seq(X) /\ u \in Seq(X) /\ Len(t) = Len(u) /\ \A k \in 1..Len(t) : t[k] = u[k]
    BY <1>6, <1>7, <1>8, <2>1
  <2>3. t = u
    BY <2>2
  <2> QED
    BY <2>1, <2>3
<1> QED
  BY <1>2, <1>3, <1>4, <1>5, <1>9

LEMMA ReadsOn ==
  ASSUME NEW kind, NEW h, NEW m, NEW n, NEW p, NEW q, Reads(kind, h, m, p), Takes(kind, n, p, q)
  PROVE  Reads(kind, h, m \o n, q)
<1>1. m \in Seq(ChunksWritten) /\ n \in Seq(ChunksWritten) /\ m # <<>> /\ Head(m) = h
  BY DEF Reads, Takes
<1>2. PICK t : t = Tail(m)
  OBVIOUS
<1>3. /\ m \o n \in Seq(ChunksWritten) /\ m \o n # <<>> /\ Head(m \o n) = h
      /\ t \in Seq(ChunksWritten) /\ Tail(m \o n) = t \o n
  BY <1>1, <1>2, TailConcat
<1>4. CollectAll(kind, t) = p
  BY <1>2 DEF Reads
<1>5. CollectAll(kind, t \o n) = q
  BY <1>3, <1>4 DEF Takes
<1> QED
  BY <1>3, <1>5 DEF Reads

LEMMA ReadsAsNormal ==
  ASSUME NEW v, NEW m, NEW p, Reads("normal", Chunk("FHED", v), m, p), ~p.failed, p.ended
  PROVE  Parse(m) = NormalOf(v, p)
<1>1. Chunk("FHED", v).ty = "FHED" /\ Chunk("FHED", v).val = v /\ Chunk("FHED", v).ok
  BY DEF Chunk
<1>2. Head(m) = Chunk("FHED", v) /\ m # <<>> /\ CollectAll("normal", Tail(m)) = p
  BY DEF Reads
<1>3. Parse(m) = ParseAs("normal", Head(m), Tail(m))
  BY <1>1, <1>2 DEF Parse
<1> QED
  BY <1>1, <1>2, <1>3 DEF ParseAs, NormalOf

LEMMA ReadsAsSolid ==
  ASSUME NEW v, NEW m, NEW p, Reads("solid", Chunk("SHED", v), m, p), ~p.failed, p.ended
  PROVE  Parse(m) = SolidOf(v, p)
<1>1. Chunk("SHED", v).ty = "SHED" /\ Chunk("SHED", v).val = v /\ Chunk("SHED", v).ok
  BY DEF Chunk
<1>2. Head(m) = Chunk("SHED", v) /\ m # <<>> /\ CollectAll("solid", Tail(m)) = p
  BY DEF Reads
<1>3. Parse(m) = ParseAs("solid", Head(m), Tail(m))
  BY <1>1, <1>2 DEF Parse
<1> QED
  BY <1>1, <1>2, <1>3 DEF ParseAs, SolidOf

LEMMA NormalReturns ==
  ASSUME NEW e \in NormalEntries
  PROVE  Parse(WriteEntry(e)) = e
<1>0. PICK h, m0, m1, m2, m3, m4 :
        /\ h = Chunk("FHED", e.header) /\ m0 = e.extra
        /\ m1 = FacetChunk(e, "fSIZ") \o MetadataChunks(e) /\ m2 = Optional("PHSF", e.phsf)
        /\ m3 = EachAs("FDAT", e.data) /\ m4 = <<Chunk("FEND", 0)>>
  OBVIOUS
<1>1. /\ e.kind = "normal" /\ e.header \in Values /\ e.extra \in Seq(ForeignChunks("normal"))
      /\ e.phsf \in Optionals(Values) /\ e.data \in Seq(Values) /\ e.xattrs \in Seq(Values)
      /\ None \in Optionals(Values) /\ <<>> \in Seq(Values) /\ "normal" \in Kinds
      /\ EndOf("normal") = "FEND" /\ DataOf("normal") = "FDAT"
  BY DEF NormalEntries, Optionals, Kinds, EndOf, DataOf
<1>2. PICK w, none : w = Singles(e) /\ none = SinglesOf(w, {})
  OBVIOUS
<1>3. w \in [Single -> Optionals(Values)] /\ none \in [Single -> Optionals(Values)]
  <2>1. \A f \in Single : w[f] \in Optionals(Fits(f))
    BY <1>2, StoredTyped
  <2>2. none \in [Single -> Optionals(Values)]
    BY <1>2, <2>1, SinglesTyped
  <2>3. SinglesOf(w, Single) = w /\ SinglesOf(w, Single) \in [Single -> Optionals(Values)]
    BY <1>2, <2>1, SinglesTyped, StoredWhole
  <2> QED
    BY <2>2, <2>3
<1>4. PICK p0, p1, p2, p3, p4, p5 :
        /\ p0 = Going(None, <<>>, <<>>, <<>>, none)
        /\ p1 = Going(None, e.extra, <<>>, <<>>, none)
        /\ p2 = Going(None, e.extra, <<>>, e.xattrs, w)
        /\ p3 = Going(e.phsf, e.extra, <<>>, e.xattrs, w)
        /\ p4 = Going(e.phsf, e.extra, e.data, e.xattrs, w)
        /\ p5 = [p4 EXCEPT !.ended = TRUE]
  OBVIOUS
<1>5. p0 = Collected0
  <2>1. none = [f \in Single |-> None]
    BY <1>2 DEF SinglesOf
  <2> QED
    BY <1>4, <2>1 DEF Going, Collected0
<1>6. Takes("normal", m0, p0, p1)
  BY <1>0, <1>1, <1>3, <1>4, TakesEachForeign
<1>7. Takes("normal", m1, p1, p2)
  BY <1>0, <1>2, <1>4, TakesMetadata DEF Partly
<1>8. Takes("normal", m2, p2, p3)
  <2>1. p2 \in Records("normal")
    BY <1>1, <1>3, <1>4, GoingTyped
  <2> QED
    BY <1>0, <1>1, <1>4, <2>1, TakesHash
<1>9. Takes("normal", m3, p3, p4)
  BY <1>0, <1>1, <1>3, <1>4, TakesEachData
<1>10. Takes("normal", m4, p4, p5)
  <2>1. ~Ignored(p4)
    BY <1>4 DEF Going, Ignored
  <2>2. Takes("normal", <<Chunk(EndOf("normal"), 0)>>, p4, [p4 EXCEPT !.ended = TRUE])
    BY <1>1, <2>1, TakesEnd
  <2> QED
    BY <1>0, <1>1, <1>4, <2>2
<1>11. h \in ChunksWritten
  BY <1>0, <1>1 DEF ChunksWritten, Chunk
<1>12. Reads("normal", h, <<h>>, p0)
  BY <1>5, <1>11, ReadsHead
<1>13. Reads("normal", h, <<h>> \o m0, p1)
  BY <1>6, <1>12, ReadsOn
<1>14. Reads("normal", h, <<h>> \o m0 \o m1, p2)
  BY <1>7, <1>13, ReadsOn
<1>15. Reads("normal", h, <<h>> \o m0 \o m1 \o m2, p3)
  BY <1>8, <1>14, ReadsOn
<1>16. Reads("normal", h, <<h>> \o m0 \o m1 \o m2 \o m3, p4)
  BY <1>9, <1>15, ReadsOn
<1>17. Reads("normal", h, <<h>> \o m0 \o m1 \o m2 \o m3 \o m4, p5)
  BY <1>10, <1>16, ReadsOn
<1>18. WriteEntry(e) = <<h>> \o m0 \o m1 \o m2 \o m3 \o m4
  BY <1>0, <1>1 DEF WriteEntry
<1>19. p5 = [phsf |-> e.phsf, extra |-> e.extra, data |-> e.data, xattrs |-> e.xattrs, single |-> w,
             failed |-> FALSE, ended |-> TRUE]
  BY <1>4 DEF Going
<1>20. Parse(WriteEntry(e)) = NormalOf(e.header, p5)
  <2>1. ~p5.failed /\ p5.ended
    BY <1>19
  <2> QED
    BY <1>0, <1>17, <1>18, <2>1, ReadsAsNormal
<1>21. NormalOf(e.header, p5) = e
  <2>1. FillFromLegacy(p5.single) = e.facets /\ [t \in Times |-> TimeOf(p5.single, t)] = e.times
    BY <1>2, <1>19, StoredReturns
  <2>2. NormalOf(e.header, p5) =
          [kind |-> "normal", header |-> e.header, phsf |-> e.phsf, extra |-> e.extra,
           data |-> e.data, xattrs |-> e.xattrs, facets |-> e.facets, times |-> e.times]
    BY <1>19, <2>1 DEF NormalOf
  <2>3. e = [kind |-> "normal", header |-> e.header, phsf |-> e.phsf, extra |-> e.extra,
             data |-> e.data, xattrs |-> e.xattrs, facets |-> e.facets, times |-> e.times]
    BY DEF NormalEntries
  <2> QED
    BY <2>2, <2>3
<1> QED
  BY <1>20, <1>21

LEMMA SolidReturns ==
  ASSUME NEW e \in SolidEntries
  PROVE  Parse(WriteEntry(e)) = e
<1>0. PICK h, m0, m2, m3, m4 :
        /\ h = Chunk("SHED", e.header) /\ m0 = e.extra /\ m2 = Optional("PHSF", e.phsf)
        /\ m3 = EachAs("SDAT", e.data) /\ m4 = <<Chunk("SEND", 0)>>
  OBVIOUS
<1>1. /\ e.kind = "solid" /\ e.header \in Values /\ e.extra \in Seq(ForeignChunks("solid"))
      /\ e.phsf \in Optionals(Values) /\ e.data \in Seq(Values)
      /\ None \in Optionals(Values) /\ <<>> \in Seq(Values) /\ "solid" \in Kinds
      /\ EndOf("solid") = "SEND" /\ DataOf("solid") = "SDAT"
  BY DEF SolidEntries, Optionals, Kinds, EndOf, DataOf
<1>2. PICK none : none = [f \in Single |-> None]
  OBVIOUS
<1>3. none \in [Single -> Optionals(Values)]
  BY <1>1, <1>2
<1>4. PICK p0, p1, p3, p4, p5 :
        /\ p0 = Going(None, <<>>, <<>>, <<>>, none)
        /\ p1 = Going(None, e.extra, <<>>, <<>>, none)
        /\ p3 = Going(e.phsf, e.extra, <<>>, <<>>, none)
        /\ p4 = Going(e.phsf, e.extra, e.data, <<>>, none)
        /\ p5 = [p4 EXCEPT !.ended = TRUE]
  OBVIOUS
<1>5. p0 = Collected0
  BY <1>2, <1>4 DEF Going, Collected0
<1>6. Takes("solid", m0, p0, p1)
  BY <1>0, <1>1, <1>3, <1>4, TakesEachForeign
<1>8. Takes("solid", m2, p1, p3)
  <2>1. p1 \in Records("solid")
    BY <1>1, <1>3, <1>4, GoingTyped
  <2> QED
    BY <1>0, <1>1, <1>4, <2>1, TakesHash
<1>9. Takes("solid", m3, p3, p4)
  BY <1>0, <1>1, <1>3, <1>4, TakesEachData
<1>10. Takes("solid", m4, p4, p5)
  <2>1. ~Ignored(p4)
    BY <1>4 DEF Going, Ignored
  <2>2. Takes("solid", <<Chunk(EndOf("solid"), 0)>>, p4, [p4 EXCEPT !.ended = TRUE])
    BY <1>1, <2>1, TakesEnd
  <2> QED
    BY <1>0, <1>1, <1>4, <2>2
<1>11. h \in ChunksWritten
  BY <1>0, <1>1 DEF ChunksWritten, Chunk
<1>12. Reads("solid", h, <<h>>, p0)
  BY <1>5, <1>11, ReadsHead
<1>13. Reads("solid", h, <<h>> \o m0, p1)
  BY <1>6, <1>12, ReadsOn
<1>14. Reads("solid", h, <<h>> \o m0 \o <<>>, p1)
  <2>1. <<h>> \o m0 \in Seq(ChunksWritten)
    BY <1>13 DEF Reads
  <2>2. <<h>> \o m0 \o <<>> = <<h>> \o m0
    BY <2>1
  <2> QED
    BY <1>13, <2>2
<1>15. Reads("solid", h, <<h>> \o m0 \o <<>> \o m2, p3)
  BY <1>8, <1>14, ReadsOn
<1>16. Reads("solid", h, <<h>> \o m0 \o <<>> \o m2 \o m3, p4)
  BY <1>9, <1>15, ReadsOn
<1>17. Reads("solid", h, <<h>> \o m0 \o <<>> \o m2 \o m3 \o m4, p5)
  BY <1>10, <1>16, ReadsOn
<1>18. WriteEntry(e) = <<h>> \o m0 \o <<>> \o m2 \o m3 \o m4
  BY <1>0, <1>1 DEF WriteEntry
<1>19. p5 = [phsf |-> e.phsf, extra |-> e.extra, data |-> e.data, xattrs |-> <<>>, single |-> none,
             failed |-> FALSE, ended |-> TRUE]
  BY <1>4 DEF Going
<1>20. Parse(WriteEntry(e)) = SolidOf(e.header, p5)
  <2>1. ~p5.failed /\ p5.ended
    BY <1>19
  <2> QED
    BY <1>0, <1>17, <1>18, <2>1, ReadsAsSolid
<1>21. SolidOf(e.header, p5) = e
  BY <1>19 DEF SolidOf, SolidEntries
<1> QED
  BY <1>20, <1>21

\* What parsing makes is an entry.
LEMMA ParseTyped ==
  ASSUME NEW s \in Seq(Alphabet), Parse(s) # Invalid
  PROVE  Parse(s) \in NormalEntries \cup SolidEntries
<1>1. s # <<>> /\ (Head(s).ty = "FHED" \/ Head(s).ty = "SHED")
  BY DEF Parse
<1>2. Tail(s) \in Seq(Alphabet) /\ Head(s).val \in Values
  BY <1>1 DEF Values
<1>3. CASE Head(s).ty = "FHED"
  <2>1. Parse(s) = ParseAs("normal", Head(s), Tail(s))
    BY <1>1, <1>3 DEF Parse
  <2>2. PICK p : p = CollectAll("normal", Tail(s))
    OBVIOUS
  <2>3. Parse(s) = NormalOf(Head(s).val, p)
    BY <2>1, <2>2 DEF ParseAs, NormalOf
  <2>4. p \in Collected("normal")
    BY <1>2, <2>2, CollectAllTyped DEF Kinds
  <2> QED
    BY <1>2, <2>3, <2>4, NormalTyped
<1>4. CASE Head(s).ty = "SHED"
  <2>1. Parse(s) = ParseAs("solid", Head(s), Tail(s))
    BY <1>1, <1>4 DEF Parse
  <2>2. PICK p : p = CollectAll("solid", Tail(s))
    OBVIOUS
  <2>3. Parse(s) = SolidOf(Head(s).val, p)
    BY <2>1, <2>2 DEF ParseAs, SolidOf
  <2>4. p \in Collected("solid")
    BY <1>2, <2>2, CollectAllTyped DEF Kinds
  <2> QED
    BY <1>2, <2>3, <2>4, SolidTyped
<1> QED
  BY <1>1, <1>3, <1>4

\* An entry that is parsed, written and parsed again is the same entry, whoever
\* wrote its chunks and in whatever order they came.
THEOREM EntriesReturn ==
  ASSUME NEW s \in Seq(Alphabet), Parse(s) # Invalid
  PROVE  Parse(WriteEntry(Parse(s))) = Parse(s)
  BY ParseTyped, NormalReturns, SolidReturns
-----------------------------------------------------------------------------
(* The order of the chunks.                                                *)

\* The same but for the order of the chunks that are kept as they are.
Alike(p, q) ==
  /\ p.phsf = q.phsf /\ p.data = q.data /\ p.xattrs = q.xattrs /\ p.single = q.single
  /\ p.failed = q.failed /\ p.ended = q.ended /\ ToSet(p.extra) = ToSet(q.extra)

LEMMA ToSetGrows ==
  ASSUME NEW X, NEW s \in Seq(X), NEW c
  PROVE  ToSet(Append(s, c)) = ToSet(s) \cup {c}
<1>1. /\ DOMAIN Append(s, c) = 1..(Len(s) + 1) /\ DOMAIN s = 1..Len(s) /\ Len(s) \in Nat
      /\ \A k \in 1..Len(s) : Append(s, c)[k] = s[k] 
      /\ Append(s, c)[Len(s) + 1] = c
  OBVIOUS
<1>2. PICK t : t = Append(s, c)
  OBVIOUS
<1>3. ASSUME NEW x, x \in ToSet(t) PROVE x \in ToSet(s) \cup {c}
  <2>1. PICK k \in 1..(Len(s) + 1) : x = t[k]
    BY <1>1, <1>2, <1>3 DEF ToSet
  <2>2. CASE k \in 1..Len(s)
    BY <1>1, <1>2, <2>1, <2>2 DEF ToSet
  <2>3. CASE k = Len(s) + 1
    BY <1>1, <1>2, <2>1, <2>3
  <2> QED
    BY <1>1, <2>2, <2>3
<1>4. ASSUME NEW x, x \in ToSet(s) PROVE x \in ToSet(t)
  <2>1. PICK k \in 1..Len(s) : x = s[k]
    BY <1>1, <1>4 DEF ToSet
  <2>2. k \in 1..(Len(s) + 1) /\ t[k] = x
    BY <1>1, <1>2, <2>1
  <2> QED
    BY <1>1, <1>2, <2>2 DEF ToSet
<1>5. c \in ToSet(t)
  <2>1. Len(s) + 1 \in 1..(Len(s) + 1)
    BY <1>1
  <2> QED
    BY <1>1, <1>2, <2>1 DEF ToSet
<1>6. ToSet(t) = ToSet(s) \cup {c}
  BY <1>3, <1>4, <1>5
<1> QED
  BY <1>2, <1>6

LEMMA AlikeKept ==
  ASSUME NEW kind \in Kinds, NEW p \in Collected(kind), NEW q \in Collected(kind),
         Alike(p, q), NEW c \in Alphabet
  PROVE  Alike(Collect(kind, p, c), Collect(kind, q, c))
<1>0. /\ p \in Records(kind) /\ q \in Records(kind) /\ c.ok \in BOOLEAN
      /\ p.extra \in Seq(ForeignChunks(kind)) /\ q.extra \in Seq(ForeignChunks(kind))
  BY AlphabetAssumption DEF Collected, Records
<1>1. Ignored(p) <=> Ignored(q)
  BY DEF Alike, Ignored
<1>2. CASE Ignored(p)
  BY <1>0, <1>1, <1>2, CollectOthers
<1>3. CASE ~Ignored(p) /\ c.ty = EndOf(kind)
  <2>1. /\ Collect(kind, p, c) = [p EXCEPT !.ended = TRUE]
        /\ Collect(kind, q, c) = [q EXCEPT !.ended = TRUE]
    BY <1>1, <1>3, CollectEnds
  <2> QED
    BY <1>0, <2>1 DEF Alike, Records
<1>4. CASE ~Ignored(p) /\ Rejects(kind, c)
  <2>1. /\ Collect(kind, p, c) = [p EXCEPT !.failed = TRUE]
        /\ Collect(kind, q, c) = [q EXCEPT !.failed = TRUE]
    BY <1>0, <1>1, <1>4, CollectOthers
  <2> QED
    BY <1>0, <2>1 DEF Alike, Records
<1>5. CASE ~Ignored(p) /\ c.ty # EndOf(kind) /\ ~Rejects(kind, c)
  <2>1. PICK r, t : r = Collect(kind, p, c) /\ t = Collect(kind, q, c)
    OBVIOUS
  <2>2. Took(kind, p, c, r) /\ Took(kind, q, c, t)
    BY <1>0, <1>1, <1>5, <2>1, CollectFields
  <2>3. ToSet(r.extra) = ToSet(t.extra)
    <3>1. CASE Foreign(kind, c.ty)
      <4>1. r.extra = Append(p.extra, c) /\ t.extra = Append(q.extra, c)
        BY <2>2, <3>1 DEF Took
      <4>2. /\ ToSet(r.extra) = ToSet(p.extra) \cup {c}
            /\ ToSet(t.extra) = ToSet(q.extra) \cup {c}
        BY <1>0, <4>1, ToSetGrows
      <4>3. ToSet(p.extra) = ToSet(q.extra)
        BY DEF Alike
      <4> QED
        BY <4>2, <4>3
    <3>2. CASE ~Foreign(kind, c.ty)
      BY <2>2, <3>2 DEF Took, Alike
    <3> QED
      BY <3>1, <3>2
  <2>4. /\ r.failed = t.failed /\ r.ended = t.ended /\ r.phsf = t.phsf /\ r.data = t.data
        /\ r.xattrs = t.xattrs /\ r.single = t.single
    BY <2>2 DEF Took, Alike
  <2> QED
    BY <2>1, <2>3, <2>4 DEF Alike
<1> QED
  BY <1>2, <1>3, <1>4, <1>5

\* Two chunks of different types go to different fields.
LEMMA ChunksCommute ==
  ASSUME NEW kind \in Kinds, NEW p \in Collected(kind), NEW a \in Alphabet, NEW b \in Alphabet,
         a.ty # b.ty, a.ty # EndOf(kind), b.ty # EndOf(kind),
         NEW r, r = Collect(kind, Collect(kind, p, a), b), ~r.failed
  PROVE  Alike(r, Collect(kind, Collect(kind, p, b), a))
<1>0. p \in Records(kind) /\ a.ok \in BOOLEAN /\ b.ok \in BOOLEAN /\ p.extra \in Seq(ForeignChunks(kind))
  BY AlphabetAssumption DEF Collected, Records
<1>1. PICK pa, pb, t : /\ pa = Collect(kind, p, a) /\ pb = Collect(kind, p, b)
                       /\ r = Collect(kind, pa, b) /\ t = Collect(kind, pb, a)
  OBVIOUS
<1>2. pa \in Records(kind) /\ pb \in Records(kind)
  BY <1>1, CollectTyped DEF Collected
<1>3. CASE Ignored(p)
  <2>1. pa = p /\ pb = p /\ r = p /\ t = p
    BY <1>0, <1>1, <1>3, CollectOthers
  <2> QED
    BY <1>1, <2>1 DEF Alike
<1>4. CASE ~Ignored(p)
  <2>1. ~Rejects(kind, a)
    <3> SUFFICES ASSUME Rejects(kind, a) PROVE FALSE
      OBVIOUS
    <3>1. pa = [p EXCEPT !.failed = TRUE]
      BY <1>0, <1>1, <1>4, CollectOthers
    <3>2. pa.failed
      BY <1>0, <3>1 DEF Records
    <3>3. r = pa
      BY <1>0, <1>1, <3>2, CollectOthers DEF Ignored
    <3> QED
      BY <3>2, <3>3
  <2>2. Took(kind, p, a, pa)
    BY <1>0, <1>1, <1>4, <2>1, CollectFields
  <2>3. ~Ignored(pa)
    BY <2>2 DEF Took, Ignored
  <2>4. ~Rejects(kind, b)
    <3> SUFFICES ASSUME Rejects(kind, b) PROVE FALSE
      OBVIOUS
    <3>1. r = [pa EXCEPT !.failed = TRUE]
      BY <1>0, <1>1, <2>3, CollectOthers
    <3> QED
      BY <1>2, <3>1 DEF Records
  <2>5. Took(kind, pa, b, r) /\ Took(kind, p, b, pb)
    BY <1>0, <1>1, <1>2, <1>4, <2>3, <2>4, CollectFields
  <2>6. ~Ignored(pb)
    BY <2>5 DEF Took, Ignored
  <2>7. Took(kind, pb, a, t)
    BY <1>1, <1>2, <2>1, <2>6, CollectFields
  <2>8. /\ r.failed = t.failed /\ r.ended = t.ended /\ r.phsf = t.phsf /\ r.data = t.data
        /\ r.xattrs = t.xattrs
    BY <2>2, <2>5, <2>7 DEF Took
  <2>9. r.single = t.single
    <3>1. CASE Known(kind, a.ty) /\ a.ty # "xATR" /\ Known(kind, b.ty) /\ b.ty # "xATR"
      <4>1. /\ r.single = [[p.single EXCEPT ![a.ty] = Decoded(a)] EXCEPT ![b.ty] = Decoded(b)]
            /\ t.single = [[p.single EXCEPT ![b.ty] = Decoded(b)] EXCEPT ![a.ty] = Decoded(a)]
        BY <2>2, <2>5, <2>7, <3>1 DEF Took
      <4> HIDE DEF Decoded
      <4> QED
        BY <4>1
    <3>2. CASE ~(Known(kind, a.ty) /\ a.ty # "xATR" /\ Known(kind, b.ty) /\ b.ty # "xATR")
      BY <2>2, <2>5, <2>7, <3>2 DEF Took
    <3> QED
      BY <3>1, <3>2
  <2>10. ToSet(r.extra) = ToSet(t.extra)
    <3>1. CASE Foreign(kind, a.ty) /\ Foreign(kind, b.ty)
      <4>1. /\ pa.extra = Append(p.extra, a) /\ r.extra = Append(pa.extra, b)
            /\ pb.extra = Append(p.extra, b) /\ t.extra = Append(pb.extra, a)
        BY <2>2, <2>5, <2>7, <3>1 DEF Took
      <4>2. pa.extra \in Seq(ForeignChunks(kind)) /\ pb.extra \in Seq(ForeignChunks(kind))
        BY <1>2 DEF Records
      <4>3. /\ ToSet(pa.extra) = ToSet(p.extra) \cup {a} /\ ToSet(pb.extra) = ToSet(p.extra) \cup {b}
            /\ ToSet(r.extra) = ToSet(pa.extra) \cup {b} /\ ToSet(t.extra) = ToSet(pb.extra) \cup {a}
        BY <1>0, <4>1, <4>2, ToSetGrows
      <4> QED
        BY <4>3
    <3>2. CASE ~(Foreign(kind, a.ty) /\ Foreign(kind, b.ty))
      <4>1. r.extra = t.extra
        BY <2>2, <2>5, <2>7, <3>2 DEF Took
      <4> QED
        BY <4>1
    <3> QED
      BY <3>1, <3>2
  <2> QED
    BY <1>1, <2>8, <2>9, <2>10 DEF Alike
<1> QED
  BY <1>3, <1>4

\* v is u with the neighbours at j exchanged.
Exchanged(u, v, j) ==
  /\ Len(v) = Len(u) /\ v[j] = u[j + 1] /\ v[j + 1] = u[j]
  /\ \A k \in 1..Len(u) : k # j /\ k # j + 1 => v[k] = u[k]

LEMMA ExchangedAlike ==
  ASSUME NEW kind \in Kinds, NEW u \in Seq(Alphabet), NEW v \in Seq(Alphabet),
         NEW j \in 1..(Len(u) - 1), Exchanged(u, v, j), u[j].ty # u[j + 1].ty,
         u[j].ty # EndOf(kind), u[j + 1].ty # EndOf(kind), ~CollectAll(kind, u).failed
  PROVE  Alike(CollectAll(kind, u), CollectAll(kind, v))
<1> DEFINE m == Len(u)
<1>1. m \in Nat /\ Len(v) = m /\ m \in 0..m
  BY DEF Exchanged
<1>2. PICK g : Collects(kind, g, u)
  BY <1>1, CollectsExist
<1>3. PICK h : Collects(kind, h, v)
  BY <1>1, CollectsExist
<1>4. CollectAll(kind, u) = g[m] /\ CollectAll(kind, v) = h[m]
  BY <1>1, <1>2, <1>3, CollectAllIs
<1>5. /\ \A n \in 0..m : g[n] = IF n = 0 THEN Collected0 ELSE Collect(kind, g[n - 1], u[n])
      /\ \A n \in 0..m : h[n] = IF n = 0 THEN Collected0 ELSE Collect(kind, h[n - 1], v[n])
  BY <1>1, <1>2, <1>3 DEF Collects
<1>6. \A n \in 0..m : g[n] \in Collected(kind) /\ h[n] \in Collected(kind)
  BY <1>1, <1>2, <1>3, CollectsTyped
<1> DEFINE S == {n \in Nat : j + 1 + n <= m => g[j + 1 + n].failed \/ Alike(g[j + 1 + n], h[j + 1 + n])}
<1>7. 0 \in S
  <2>1. /\ j - 1 \in Nat /\ j - 1 <= m /\ j - 1 <= Len(v) /\ j \in 0..m /\ j + 1 \in 0..m
        /\ j # 0 /\ j + 1 # 0 /\ (j + 1) - 1 = j /\ j + 1 + 0 = j + 1 /\ j - 1 \in 0..m
    BY <1>1
  <2>2. \A k \in 1..(j - 1) : u[k] = v[k]
    BY <1>1 DEF Exchanged
  <2>3. g[j - 1] = h[j - 1]
    BY <1>1, <1>2, <1>3, <2>1, <2>2, CollectsUnique
  <2>4. PICK p, a, b : p = g[j - 1] /\ a = u[j] /\ b = u[j + 1]
    OBVIOUS
  <2>5. g[j] = Collect(kind, p, a) /\ g[j + 1] = Collect(kind, g[j], b)
    BY <1>5, <2>1, <2>4
  <2>6. h[j] = Collect(kind, p, b) /\ h[j + 1] = Collect(kind, h[j], a)
    BY <1>5, <2>1, <2>3, <2>4 DEF Exchanged
  <2>7. p \in Collected(kind) /\ a \in Alphabet /\ b \in Alphabet
    BY <1>6, <2>1, <2>4
  <2>8. ~g[j + 1].failed => Alike(g[j + 1], h[j + 1])
    BY <2>4, <2>5, <2>6, <2>7, ChunksCommute
  <2> QED
    BY <2>1, <2>8
<1>8. ASSUME NEW n \in Nat, n \in S PROVE n + 1 \in S
  <2> SUFFICES ASSUME j + 1 + (n + 1) <= m
               PROVE  g[j + 1 + (n + 1)].failed \/ Alike(g[j + 1 + (n + 1)], h[j + 1 + (n + 1)])
    OBVIOUS
  <2>1. PICK i, k : i = j + 1 + n /\ k = j + 1 + (n + 1)
    OBVIOUS
  <2>2. i \in 0..m /\ k \in 0..m /\ k - 1 = i /\ k # 0 /\ k \in 1..m /\ k # j /\ k # j + 1 /\ i <= m
    BY <1>1, <2>1
  <2>3. g[i].failed \/ Alike(g[i], h[i])
    BY <1>8, <2>1, <2>2
  <2>4. PICK c \in Alphabet : c = u[k] /\ c = v[k]
    BY <1>1, <2>2 DEF Exchanged
  <2>5. g[k] = Collect(kind, g[i], c) /\ h[k] = Collect(kind, h[i], c)
    BY <1>5, <2>2, <2>4
  <2>6. g[i] \in Collected(kind) /\ h[i] \in Collected(kind) /\ c.ok \in BOOLEAN
    BY <1>6, <2>2, AlphabetAssumption
  <2>7. CASE g[i].failed
    <3>1. g[k] = g[i]
      BY <2>5, <2>6, <2>7, CollectOthers DEF Ignored
    <3> QED
      BY <2>1, <2>7, <3>1
  <2>8. CASE Alike(g[i], h[i])
    BY <2>1, <2>5, <2>6, <2>8, AlikeKept
  <2> QED
    BY <2>3, <2>7, <2>8
<1> HIDE DEF S
<1>9. Nat \subseteq S
  BY <1>7, <1>8, SetInduction
<1>10. PICK n \in Nat : j + 1 + n = m
  <2>1. m - (j + 1) \in Nat /\ j + 1 + (m - (j + 1)) = m
    BY <1>1
  <2> QED
    BY <2>1
<1>11. g[m].failed \/ Alike(g[m], h[m])
  <2>1. j + 1 + n <= m
    BY <1>1, <1>10
  <2> QED
    BY <1>9, <1>10, <2>1 DEF S
<1> QED
  BY <1>4, <1>11
LEMMA OrderIsFree ==
  ASSUME NEW s \in Seq(Alphabet), Parse(s) # Invalid, NEW i \in 2..(Len(s) - 2),
         s[i].ty # s[i + 1].ty, {"FEND", "SEND"} \cap {s[i].ty, s[i + 1].ty} = {}
  PROVE  [Parse(Swapped(s, i)) EXCEPT !.extra = ToSet(@)] = [Parse(s) EXCEPT !.extra = ToSet(@)]
         /\ Parse(Swapped(s, i)) # Invalid
<1>1. PICK t : t = Swapped(s, i)
  OBVIOUS
<1>2. Len(s) \in Nat /\ i \in 1..Len(s) /\ i + 1 \in 1..Len(s) /\ i # 1 /\ i + 1 # 1 /\ i # i + 1
  OBVIOUS
<1>3. /\ t \in Seq(Alphabet) /\ Len(t) = Len(s) /\ t[i] = s[i + 1] /\ t[i + 1] = s[i]
      /\ \A k \in 1..Len(s) : k # i /\ k # i + 1 => t[k] = s[k]
  BY <1>1, <1>2 DEF Swapped
<1>4. PICK u, v, j : u = Tail(s) /\ v = Tail(t) /\ j = i - 1
  OBVIOUS
<1>5. /\ s # <<>> /\ t # <<>> /\ Head(t) = Head(s)
      /\ u \in Seq(Alphabet) /\ v \in Seq(Alphabet)
      /\ Len(u) = Len(s) - 1 /\ Len(v) = Len(s) - 1
      /\ \A k \in 1..(Len(s) - 1) : u[k] = s[k + 1] /\ v[k] = t[k + 1]
  <2>1. s # <<>> /\ t # <<>> /\ Len(s) > 0
    BY <1>2, <1>3
  <2>2. Head(s) = s[1] /\ Head(t) = t[1] /\ 1 \in 1..Len(s)
    BY <1>2, <1>3, <2>1
  <2>3. t[1] = s[1]
    BY <1>2, <1>3, <2>2
  <2> QED
    BY <1>2, <1>3, <1>4, <2>1, <2>2, <2>3
<1>6. /\ j \in 1..(Len(u) - 1) /\ j \in 1..(Len(s) - 1) /\ j + 1 \in 1..(Len(s) - 1)
      /\ j + 1 = i /\ (j + 1) + 1 = i + 1
  BY <1>2, <1>4, <1>5
<1>7. u[j] = s[i] /\ u[j + 1] = s[i + 1] /\ v[j] = t[i] /\ v[j + 1] = t[i + 1]
  BY <1>5, <1>6
<1>8. Exchanged(u, v, j)
  <2>1. ASSUME NEW k \in 1..Len(u), k # j, k # j + 1 PROVE v[k] = u[k]
    <3>1. k + 1 \in 1..Len(s) /\ k + 1 # i /\ k + 1 # i + 1 /\ k \in 1..(Len(s) - 1)
      BY <1>2, <1>4, <1>5, <2>1
    <3> QED
      BY <1>3, <1>5, <3>1
  <2> QED
    BY <1>3, <1>5, <1>7, <2>1 DEF Exchanged
<1>9. Head(s).ty = "FHED" \/ Head(s).ty = "SHED"
  BY <1>5 DEF Parse
<1>10. \A kind \in Kinds : u[j].ty # EndOf(kind) /\ u[j + 1].ty # EndOf(kind) /\ u[j].ty # u[j + 1].ty
  BY <1>7 DEF EndOf
<1>11. CASE Head(s).ty = "FHED"
  <2>0. "normal" \in Kinds
    BY DEF Kinds
  <2>1. PICK p, q : p = CollectAll("normal", u) /\ q = CollectAll("normal", v)
    OBVIOUS
  <2>2. Parse(s) = ParseAs("normal", Head(s), u) /\ Parse(t) = ParseAs("normal", Head(s), v)
    BY <1>4, <1>5, <1>11 DEF Parse
  <2>3. Head(s).ok /\ ~p.failed /\ p.ended /\ Parse(s) = NormalOf(Head(s).val, p)
    BY <2>1, <2>2 DEF ParseAs, NormalOf
  <2>4. Alike(p, q)
    BY <1>5, <1>6, <1>8, <1>10, <2>0, <2>1, <2>3, ExchangedAlike
  <2>5. Parse(t) = NormalOf(Head(s).val, q)
    BY <2>1, <2>2, <2>3, <2>4 DEF ParseAs, NormalOf, Alike
  <2>6. [NormalOf(Head(s).val, q) EXCEPT !.extra = ToSet(@)] =
          [NormalOf(Head(s).val, p) EXCEPT !.extra = ToSet(@)]
    <3>1. p.phsf = q.phsf /\ ToSet(p.extra) = ToSet(q.extra) /\ p.data = q.data
          /\ p.xattrs = q.xattrs /\ p.single = q.single
      BY <2>4 DEF Alike
    <3>2. PICK T, L, si : /\ si = p.single /\ T = [y \in Times |-> TimeOf(si, y)]
                          /\ L = FillFromLegacy(si)
      OBVIOUS
    <3>3. /\ NormalOf(Head(s).val, p) =
               [kind |-> "normal", header |-> Head(s).val, phsf |-> p.phsf, extra |-> p.extra,
                data |-> p.data, xattrs |-> p.xattrs, facets |-> L, times |-> T]
          /\ NormalOf(Head(s).val, q) =
               [kind |-> "normal", header |-> Head(s).val, phsf |-> q.phsf, extra |-> q.extra,
                data |-> q.data, xattrs |-> q.xattrs, facets |-> L, times |-> T]
      BY <3>1, <3>2 DEF NormalOf
    <3> QED
      BY <3>1, <3>3
  <2>7. NormalOf(Head(s).val, q) # Invalid
    <3>1. NormalOf(Head(s).val, q).kind = "normal" /\ Invalid.kind = "invalid"
      BY DEF NormalOf, Invalid
    <3> QED
      BY <3>1
  <2> QED
    BY <1>1, <2>3, <2>5, <2>6, <2>7
<1>12. CASE Head(s).ty = "SHED"
  <2>0. "solid" \in Kinds
    BY DEF Kinds
  <2>1. PICK p, q : p = CollectAll("solid", u) /\ q = CollectAll("solid", v)
    OBVIOUS
  <2>2. Parse(s) = ParseAs("solid", Head(s), u) /\ Parse(t) = ParseAs("solid", Head(s), v)
    BY <1>4, <1>5, <1>12 DEF Parse
  <2>3. Head(s).ok /\ ~p.failed /\ p.ended /\ Parse(s) = SolidOf(Head(s).val, p)
    BY <2>1, <2>2 DEF ParseAs, SolidOf
  <2>4. Alike(p, q)
    BY <1>5, <1>6, <1>8, <1>10, <2>0, <2>1, <2>3, ExchangedAlike
  <2>5. Parse(t) = SolidOf(Head(s).val, q)
    BY <2>1, <2>2, <2>3, <2>4 DEF ParseAs, SolidOf, Alike
  <2>6. [SolidOf(Head(s).val, q) EXCEPT !.extra = ToSet(@)] =
          [SolidOf(Head(s).val, p) EXCEPT !.extra = ToSet(@)]
    <3>1. \A w : [SolidOf(Head(s).val, w) EXCEPT !.extra = ToSet(@)] =
                   [kind |-> "solid", header |-> Head(s).val, phsf |-> w.phsf,
                    extra |-> ToSet(w.extra), data |-> w.data]
      BY DEF SolidOf
    <3>2. p.phsf = q.phsf /\ ToSet(p.extra) = ToSet(q.extra) /\ p.data = q.data
      BY <2>4 DEF Alike
    <3> QED
      BY <3>1, <3>2
  <2>7. SolidOf(Head(s).val, q) # Invalid
    <3>1. SolidOf(Head(s).val, q).kind = "solid" /\ Invalid.kind = "invalid"
      BY DEF SolidOf, Invalid
    <3> QED
      BY <3>1
  <2> QED
    BY <1>1, <2>3, <2>5, <2>6, <2>7
<1> QED
  BY <1>9, <1>11, <1>12

-----------------------------------------------------------------------------
(* The iterator over the entries of a stream.                              *)

\* Where the entries of a stream end.
Ends(s, n) == {k \in 1..n : s[k].ty = "FEND"}

\* What the iterator has handed out is as many as the ends it has met, it is
\* between two entries exactly behind an end, and it stops at the end.
Iterating ==
  /\ stream \in Seq(Alphabet)
  /\ pos \in 0..Len(stream) /\ chunks \in Seq(Alphabet)
  /\ state \in {"put", "read", "ended", "failed"}
  /\ state = "put" => pos = 0
  /\ state # "failed" =>
       /\ Len(read) = Cardinality(Ends(stream, pos))
       /\ chunks = <<>> <=> (pos = 0 \/ stream[pos].ty = "FEND")
  /\ Len(read) \in Nat
  /\ state = "ended" => pos = Len(stream) /\ chunks = <<>>

LEMMA EndsFinite ==
  ASSUME NEW s, NEW n \in Nat
  PROVE  IsFiniteSet(Ends(s, n)) /\ Cardinality(Ends(s, n)) \in Nat
<1>1. IsFiniteSet(1..n)
  BY FS_Interval
<1>2. Ends(s, n) \subseteq 1..n
  BY DEF Ends
<1> QED
  BY <1>1, <1>2, FS_Subset, FS_CardinalityType

LEMMA EndsNone ==
  ASSUME NEW s
  PROVE  Cardinality(Ends(s, 0)) = 0
<1>1. Ends(s, 0) = {}
  BY DEF Ends
<1> QED
  BY <1>1, FS_EmptySet

LEMMA EndsMore ==
  ASSUME NEW s, NEW n \in Nat
  PROVE  Cardinality(Ends(s, n + 1)) =
           IF s[n + 1].ty = "FEND" THEN Cardinality(Ends(s, n)) + 1 ELSE Cardinality(Ends(s, n))
<1>1. CASE s[n + 1].ty = "FEND"
  <2>1. Ends(s, n + 1) = Ends(s, n) \cup {n + 1} /\ n + 1 \notin Ends(s, n)
    BY <1>1 DEF Ends
  <2>2. Cardinality(Ends(s, n) \cup {n + 1}) = Cardinality(Ends(s, n)) + 1
    BY <2>1, EndsFinite, FS_AddElement
  <2> QED
    BY <1>1, <2>1, <2>2
<1>2. CASE s[n + 1].ty # "FEND"
  <2>1. Ends(s, n + 1) = Ends(s, n)
    BY <1>2 DEF Ends
  <2> QED
    BY <1>2, <2>1
<1> QED
  BY <1>1, <1>2

LEMMA IteratingFirst == EntryInit => Iterating
<1> SUFFICES ASSUME EntryInit PROVE Iterating
  OBVIOUS
<1>1. stream = <<>> /\ pos = 0 /\ chunks = <<>> /\ read = <<>> /\ state = "put"
  BY DEF EntryInit
<1>2. <<>> \in Seq(Alphabet) /\ Len(<<>>) = 0
  OBVIOUS
<1> QED
  BY <1>1, <1>2, EndsNone DEF Iterating

LEMMA IteratingKept == Iterating /\ [EntryNext]_evars => Iterating'
<1> SUFFICES ASSUME Iterating, [EntryNext]_evars PROVE Iterating'
  OBVIOUS
<1>0. /\ stream \in Seq(Alphabet) /\ Len(stream) \in Nat
      /\ pos \in 0..Len(stream) /\ pos \in Nat /\ chunks \in Seq(Alphabet)
      /\ state \in {"put", "read", "ended", "failed"}
      /\ state = "put" => pos = 0
      /\ state # "failed" =>
           /\ Len(read) = Cardinality(Ends(stream, pos))
           /\ chunks = <<>> <=> (pos = 0 \/ stream[pos].ty = "FEND")
      /\ Len(read) \in Nat
      /\ state = "ended" => pos = Len(stream) /\ chunks = <<>>
  BY DEF Iterating
<1>1. CASE PutChunk
  <2>1. PICK c \in Alphabet : stream' = Append(stream, c)
    BY <1>1 DEF PutChunk
  <2>2. state = "put" /\ pos = 0 /\ UNCHANGED <<pos, chunks, read, state>>
    BY <1>0, <1>1 DEF PutChunk
  <2>3. stream' \in Seq(Alphabet) /\ pos' \in 0..Len(stream')
    BY <1>0, <2>1, <2>2
  <2>4. Len(read) = 0 /\ Cardinality(Ends(stream', 0)) = 0 /\ chunks = <<>>
    BY <1>0, <2>2, EndsNone
  <2> QED
    BY <1>0, <2>2, <2>3, <2>4 DEF Iterating
<1>2. CASE Close
  BY <1>0, <1>2 DEF Iterating, Close
<1>3. CASE TakeChunk
  <2>1. /\ state = "read" /\ pos < Len(stream) /\ pos' = pos + 1 /\ stream' = stream
    BY <1>3 DEF TakeChunk
  <2>2. PICK c, all : c = stream[pos + 1] /\ all = Append(chunks, c)
    OBVIOUS
  <2>3. c \in Alphabet /\ all \in Seq(Alphabet) /\ all # <<>> /\ pos' \in 0..Len(stream') /\ pos' # 0
    BY <1>0, <2>1, <2>2
  <2>4. Cardinality(Ends(stream, pos')) =
          IF c.ty = "FEND" THEN Cardinality(Ends(stream, pos)) + 1 ELSE Cardinality(Ends(stream, pos))
    BY <1>0, <2>1, <2>2, EndsMore
  <2>5. CASE c.ty # "FEND"
    <3>1. chunks' = all /\ read' = read /\ state' = state
      BY <1>3, <2>2, <2>5 DEF TakeChunk
    <3> QED
      BY <1>0, <2>1, <2>2, <2>3, <2>4, <2>5, <3>1 DEF Iterating
  <2>6. CASE c.ty = "FEND"
    <3>1. /\ chunks' = <<>>
          /\ \/ state' = "failed" /\ read' = read
             \/ state' = state /\ \E e : read' = Append(read, e)
      BY <1>3, <2>2, <2>6 DEF TakeChunk
    <3>2. CASE state' = "failed" /\ read' = read
      BY <1>0, <2>1, <2>3, <3>1, <3>2 DEF Iterating
    <3>3. CASE state' = state /\ \E e : read' = Append(read, e)
      <4>1. Len(read') = Len(read) + 1
        BY <1>0, <3>3
      <4> QED
        BY <1>0, <2>1, <2>2, <2>3, <2>4, <2>6, <3>1, <3>3, <4>1 DEF Iterating
    <3> QED
      BY <3>1, <3>2, <3>3
  <2> QED
    BY <2>5, <2>6
<1>4. CASE EndOfStream
  BY <1>0, <1>4 DEF Iterating, EndOfStream, EndsQuietly
<1>5. CASE UNCHANGED evars
  BY <1>0, <1>5 DEF Iterating, evars
<1> QED
  BY <1>1, <1>2, <1>3, <1>4, <1>5 DEF EntryNext

LEMMA IteratingSafe == Iterating => RewriteKeeps
<1> SUFFICES ASSUME Iterating PROVE RewriteKeeps
  OBVIOUS
<1>0. stream \in Seq(Alphabet) /\ Len(stream) \in Nat
  BY DEF Iterating
<1>1. OrderFree
  <2> SUFFICES ASSUME Parse(stream) # Invalid, NEW i \in 2..(Len(stream) - 2),
                      stream[i].ty # stream[i + 1].ty,
                      {"FEND", "SEND"} \cap {stream[i].ty, stream[i + 1].ty} = {}
               PROVE  /\ Parse(Swapped(stream, i)) # Invalid
                      /\ [Parse(Swapped(stream, i)) EXCEPT !.extra = ToSet(@)] =
                           [Parse(stream) EXCEPT !.extra = ToSet(@)]
    BY DEF OrderFree
  <2> QED
    BY <1>0, OrderIsFree
<1>2. state = "read" /\ pos = 0 =>
        LET e == Parse(stream) IN e # Invalid => Parse(WriteEntry(e)) = e
  BY <1>0, EntriesReturn
<1>3. state = "ended" =>
        /\ stream # <<>> => Last(stream).ty = "FEND"
        /\ Len(read) = Cardinality({k \in DOMAIN stream : stream[k].ty = "FEND"})
  <2> SUFFICES ASSUME state = "ended"
               PROVE  /\ stream # <<>> => Last(stream).ty = "FEND"
                      /\ Len(read) = Cardinality({k \in DOMAIN stream : stream[k].ty = "FEND"})
    OBVIOUS
  <2>1. pos = Len(stream) /\ chunks = <<>> /\ state # "failed"
    BY DEF Iterating
  <2>2. pos = 0 \/ stream[pos].ty = "FEND"
    BY <2>1 DEF Iterating
  <2>3. Len(read) = Cardinality(Ends(stream, pos))
    BY <2>1 DEF Iterating
  <2>4. {k \in DOMAIN stream : stream[k].ty = "FEND"} = Ends(stream, pos)
    BY <1>0, <2>1 DEF Ends
  <2>5. stream # <<>> => Last(stream) = stream[pos] /\ pos # 0
    BY <1>0, <2>1 DEF Last
  <2> QED
    BY <2>2, <2>3, <2>4, <2>5
<1> QED
  BY <1>1, <1>2, <1>3 DEF RewriteKeeps

\* What a rewriting command reads and writes back is read again as the same
\* entry, the order of its chunks is free, and the iterator over the entries of
\* a stream ends only behind an entry, when it has handed out each of them.
THEOREM RewritesKeep == LayersSpec => []RewriteKeeps
<1>1. LayersInit => Iterating
  BY IteratingFirst DEF LayersInit
<1>2. Iterating /\ [Collection \/ Entries \/ Segments \/ BlockChain \/ Writing]_allvars => Iterating'
  <2> SUFFICES ASSUME Iterating, [Collection \/ Entries \/ Segments \/ BlockChain \/ Writing]_allvars
               PROVE  [EntryNext]_evars
    BY IteratingKept
  <2> QED
    BY DEF Collection, Entries, Segments, BlockChain, Writing, allvars
<1> QED
  BY <1>1, <1>2, IteratingSafe, PTL DEF LayersSpec
=============================================================================
