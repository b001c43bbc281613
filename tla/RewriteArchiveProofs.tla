------------------------ MODULE RewriteArchiveProofs ------------------------
(***************************************************************************)
(* Proofs about RewriteArchive, for any archives, any command lines and any *)
(* number of commands at work on one archive.                              *)
(*                                                                         *)
(* The invariant follows each command: what it has read of the archive it  *)
(* opened is the readable entries of the items it has begun, but for those *)
(* still to come of the block it is in; and the staged file holds just what *)
(* they were to become.  Each archive a command has opened, and so the one *)
(* it leaves, holds every entry of the first archive that no finished      *)
(* command has deleted or could not read, under the protection it had.     *)
(***************************************************************************)
EXTENDS RewriteArchive, Induction

-----------------------------------------------------------------------------
(* The invariant                                                           *)

Working(st) == st \in {"item", "block", "commit"}
Sound(s) == s \in Seq(Items) /\ \A k \in DOMAIN s : ~s[k].solid => Len(s[k].entries) = 1

\* The readable entries of the first n items of s.
Part(item, o) == IF Garbled(item, o) THEN <<>> ELSE item.entries
Parts(s, o, n) == [k \in 1..n |-> Part(s[k], o)]
ReadOf(s, o, n) == FlattenSeq(Parts(s, o, n))
Named(o, es) == {k \in DOMAIN o.patterns : \E e \in ToSet(es) : e.name \in o.patterns[k]}

\* A command in state st, with line o, that has opened s, reads item a, has i
\* left of its block, has staged g and matched m.
Fits(st, o, s, a, i, g) ==
  /\ Sound(s) /\ Sound(g) /\ i \in Seq(Entry) /\ a \in 1..(Len(s) + 1)
  /\ st = "block" =>
       /\ a <= Len(s) /\ ToSet(i) \subseteq ToSet(s[a].entries)
       /\ o.keep_solid => g # <<>> /\ g[Len(g)].solid
  /\ st # "block" => i = <<>>
  /\ st = "commit" => a = Len(s) + 1
Passed(st, o, s, a, i, g, m, seen) ==
  /\ seen \o i = ReadOf(s, o, IF st = "block" THEN a ELSE a - 1)
  /\ Entries(g) = Outcomes(o, seen)
  /\ m = Named(o, seen)
CommandInv(st, o, s, a, i, g, m) ==
  /\ st = "open" => a = 1 /\ i = <<>> /\ g = <<>> /\ m = {}
  /\ st = "commit" => m = DOMAIN o.patterns
  /\ Working(st) => /\ Fits(st, o, s, a, i, g)
                    /\ \E seen \in Seq(Entry) : Passed(st, o, s, a, i, g, m, seen)

\* Every entry of s was made of the file of one of f.
Known(f, s) ==
  \A x \in ToSet(Entries(s)) : \E e \in ToSet(Entries(f)) : e.id = x.id /\ e.name = x.name
\* What is encrypted in f is encrypted alike in s.
Alike(f, enc, key, x) ==
  \A k \in DOMAIN f : f[k].enc # "none" =>
    \A e \in ToSet(f[k].entries) : e.id = x.id => enc = f[k].enc /\ key = f[k].key
Faithful(f, s) ==
  \A j \in DOMAIN s : \A x \in ToSet(s[j].entries) : Alike(f, s[j].enc, s[j].key, x)
KeepsAlike(f, st, o, s, a, i, g) ==
  Working(st) =>
    /\ Faithful(f, s)
    /\ o.keep_solid =>
         /\ Faithful(f, g)
         /\ st = "block" /\ i # <<>> =>
              /\ g[Len(g)].enc = s[a].enc
              /\ s[a].enc # "none" => g[Len(g)].key = s[a].key

States == {"open", "item", "block", "commit", "done", "failed", "panicked"}
TypeInv ==
  /\ IsArchive(first) /\ Sound(archive)
  /\ op \in [Commands -> CommandLines] /\ step \in [Commands -> States]
  /\ source \in [Commands -> Seq(Items)] /\ at \in [Commands -> Nat]
  /\ inner \in [Commands -> Seq(Entry)] /\ staged \in [Commands -> Seq(Items)]
  /\ DOMAIN matched = Commands
Works(c) ==
  CommandInv(step[c], op[c], source[c], at[c], inner[c], staged[c], matched[c])
WorkInv == \A c \in Commands : Works(c)
KnownInv ==
  Known(first, archive) /\ \A c \in Commands : Working(step[c]) => Known(first, source[c])
LostTo(c, e) ==
  /\ step[c] = "done"
  /\ Deletes(op[c], e) \/ \E k \in DOMAIN source[c] : Garbled(source[c][k], op[c])
Lost(e) == \E c \in Commands : LostTo(c, e)
StayInv ==
  \A e \in ToSet(Entries(first)) :
    \/ Lost(e)
    \/ e.id \in Ids(archive) /\ \A c \in Commands : Working(step[c]) => e.id \in Ids(source[c])
KeptSolid == \A c \in Commands : step[c] = "done" => op[c].keep_solid
Protects(c) ==
  KeepsAlike(first, step[c], op[c], source[c], at[c], inner[c], staged[c])
AlikeInv == KeptSolid => Faithful(first, archive) /\ \A c \in Commands : Protects(c)
RewriteInv == TypeInv /\ WorkInv /\ KnownInv /\ StayInv /\ AlikeInv

-----------------------------------------------------------------------------
(* The entries of an archive                                               *)

\* A sequence that is another one and one element more.
LEMMA IsAppend ==
  ASSUME NEW T, NEW g \in Seq(T), NEW x \in T, NEW h \in Seq(T), Len(h) = Len(g) + 1,
         h[Len(g) + 1] = x, \A k \in 1..Len(g) : h[k] = g[k]
  PROVE  h = Append(g, x)
<1> DEFINE u == Append(g, x)
<1>1. Len(g) \in Nat /\ u \in Seq(T) /\ Len(u) = Len(g) + 1 /\ u[Len(g) + 1] = x
      /\ \A k \in 1..Len(g) : u[k] = g[k]
  OBVIOUS
<1> HIDE DEF u
<1>2. \A k \in 1..(Len(g) + 1) : k \in 1..Len(g) \/ k = Len(g) + 1
  BY <1>1
<1>3. \A k \in 1..Len(h) : h[k] = u[k]
  BY <1>1, <1>2
<1>4. Len(h) = Len(u)
  BY <1>1
<1>5. h = u
  BY <1>1, <1>3, <1>4, SeqEqual
<1> QED
  BY <1>5 DEF u

LEMMA JoinThree == \A p, q, r \in Seq(Entry) : (p \o q) \o r = p \o (q \o r)
  BY ConcatAssociative

LEMMA ItemFacts ==
  ASSUME NEW x \in Items
  PROVE  /\ x.entries \in Seq(Entry) /\ x.solid \in BOOLEAN
         /\ x.enc \in Ciphers /\ x.key \in Keys
  BY DEF Items

LEMMA EntriesFacts ==
  ASSUME NEW s \in Seq(Items)
  PROVE  /\ [k \in DOMAIN s |-> s[k].entries] \in Seq(Seq(Entry))
         /\ Entries(s) \in Seq(Entry)
         /\ \A x : x \in ToSet(Entries(s)) <=> \E k \in DOMAIN s : x \in ToSet(s[k].entries)
<1> DEFINE ss == [k \in DOMAIN s |-> s[k].entries]
<1>1. \A k \in 1..Len(s) : s[k].entries \in Seq(Entry)
  <2> SUFFICES ASSUME NEW k \in 1..Len(s) PROVE s[k].entries \in Seq(Entry)
    OBVIOUS
  <2>1. s[k] \in Items
    OBVIOUS
  <2> QED
    BY <2>1, ItemFacts
<1>2. ss \in Seq(Seq(Entry)) /\ DOMAIN ss = DOMAIN s /\ \A k \in DOMAIN s : ss[k] = s[k].entries
  <2>1. DOMAIN s = 1..Len(s) /\ Len(s) \in Nat
    OBVIOUS
  <2>2. ss = [k \in 1..Len(s) |-> s[k].entries]
    BY <2>1
  <2>3. ss \in Seq(Seq(Entry))
    BY <1>1, <2>1, <2>2, IsASeq
  <2> QED
    BY <2>3
<1>3. Entries(s) = FlattenSeq(ss)
  BY DEF Entries
<1> HIDE DEF ss
<1>4. FlattenSeq(ss) \in Seq(Entry)
  BY <1>2, <<>> \in Seq(Entry), FlattenAppend
<1>5. \A x : x \in ToSet(FlattenSeq(ss)) <=> \E k \in DOMAIN ss : x \in ToSet(ss[k])
  BY <1>2, FlattenElements
<1> QED
  BY <1>2, <1>3, <1>4, <1>5 DEF ss

\* The last item of an archive apart.
LEMMA EntriesAppend ==
  ASSUME NEW s \in Seq(Items), NEW x \in Items
  PROVE  /\ Append(s, x) \in Seq(Items)
         /\ Entries(Append(s, x)) = Entries(s) \o x.entries
<1> DEFINE ss == [k \in DOMAIN s |-> s[k].entries]
           t == Append(s, x)
           tt == [k \in DOMAIN t |-> t[k].entries]
<1>1. t \in Seq(Items) /\ Len(t) = Len(s) + 1 /\ t[Len(s) + 1] = x
      /\ \A k \in 1..Len(s) : t[k] = s[k]
  OBVIOUS
<1>2. ss \in Seq(Seq(Entry)) /\ tt \in Seq(Seq(Entry))
  BY <1>1, EntriesFacts
<1>3. x.entries \in Seq(Entry)
  BY ItemFacts
<1>4. tt = Append(ss, x.entries)
  <2>1. /\ Len(tt) = Len(s) + 1 /\ Len(ss) = Len(s)
        /\ \A k \in 1..(Len(s) + 1) : tt[k] = t[k].entries
        /\ \A k \in 1..Len(s) : ss[k] = s[k].entries
    <3>1. DOMAIN t = 1..(Len(s) + 1) /\ DOMAIN s = 1..Len(s) /\ Len(s) \in Nat
      BY <1>1
    <3> HIDE DEF t
    <3> QED
      BY <3>1
  <2> HIDE DEF ss, tt, t
  <2>2. tt[Len(ss) + 1] = x.entries /\ \A k \in 1..Len(ss) : tt[k] = ss[k]
    BY <1>1, <2>1, Len(s) \in Nat
  <2>3. Len(tt) = Len(ss) + 1
    BY <2>1
  <2> QED
    BY <1>2, <1>3, <2>2, <2>3, IsAppend
<1>5. Entries(t) = FlattenSeq(tt) /\ Entries(s) = FlattenSeq(ss)
  BY DEF Entries
<1> HIDE DEF t, tt, ss
<1>6. FlattenSeq(Append(ss, x.entries)) = FlattenSeq(ss) \o x.entries
  BY <1>2, <1>3, FlattenAppend
<1>7. t \in Seq(Items) /\ Entries(t) = Entries(s) \o x.entries
  BY <1>1, <1>4, <1>5, <1>6
<1> QED
  BY <1>7 DEF t

\* More entries at the end of the last item.
LEMMA EntriesGrow ==
  ASSUME NEW s \in Seq(Items), s # <<>>, NEW new \in Seq(Entry), NEW t \in Seq(Items),
         Len(t) = Len(s), \A k \in 1..Len(s) : k # Len(s) => t[k] = s[k],
         t[Len(s)].entries = s[Len(s)].entries \o new
  PROVE  Entries(t) = Entries(s) \o new
<1>1. PICK f \in Seq(Items), x \in Items : s = Append(f, x)
  BY SequenceEmptyOrAppend
<1> DEFINE n == Len(f) + 1
           y == t[n]
<1>2. /\ n \in Nat /\ Len(s) = n /\ s[n] = x /\ n \in 1..n
      /\ \A k \in 1..n : k # n => s[k] = f[k]
  <2>1. Len(f) \in Nat /\ Len(s) = Len(f) + 1 /\ s[Len(f) + 1] = x
        /\ \A k \in 1..Len(f) : s[k] = f[k]
    BY <1>1
  <2> QED
    BY <2>1
<1>3. x.entries \in Seq(Entry)
  BY ItemFacts
<1>4. y \in Items /\ y.entries = x.entries \o new
  BY <1>2
<1>5. \A k \in 1..n : k # n => t[k] = s[k]
  BY <1>2
<1>7. t = Append(f, y)
  <2>1. \A k \in 1..Len(f) : k \in 1..n /\ k # n
    BY Len(f) \in Nat
  <2>2. t \in Seq(Items) /\ y \in Items /\ Len(t) = Len(f) + 1 /\ t[Len(f) + 1] = y
        /\ \A k \in 1..Len(f) : t[k] = f[k]
    BY <1>2, <1>4, <1>5, <2>1
  <2> HIDE DEF y
  <2> QED
    BY <2>2, IsAppend
<1>8. Entries(s) = Entries(f) \o x.entries /\ Entries(t) = Entries(f) \o y.entries
      /\ Entries(f) \in Seq(Entry)
  <2> HIDE DEF y
  <2> QED
    BY <1>1, <1>4, <1>7, EntriesAppend, EntriesFacts
<1>9. Entries(f) \o (x.entries \o new) = (Entries(f) \o x.entries) \o new
  <2>1. Entries(f) \in Seq(Entry) /\ x.entries \in Seq(Entry) /\ new \in Seq(Entry)
    BY <1>3, <1>8
  <2> DEFINE p == Entries(f)
             q == x.entries
  <2>2. p \in Seq(Entry) /\ q \in Seq(Entry)
    BY <2>1
  <2> HIDE DEF p, q
  <2>3. (p \o q) \o new = p \o (q \o new)
    BY <2>2, JoinThree, Zenon
  <2> QED
    BY <2>3 DEF p, q
<1> QED
  BY <1>4, <1>8, <1>9

-----------------------------------------------------------------------------
(* What becomes of an entry, and of a sequence of them                     *)

LEMMA OutcomeFacts ==
  ASSUME NEW o \in CommandLines, NEW e \in Entry
  PROVE  /\ Outcome(o, e) \in Seq(Entry)
         /\ Transform(o, e) = Outcome(o, e)
         /\ Deletes(o, e) => Outcome(o, e) = <<>>
         /\ ~Deletes(o, e) => \E x \in Entry : /\ Outcome(o, e) = <<x>>
                                              /\ x.id = e.id /\ x.name = e.name
<1>1. o.kind \in {"set", "delete"} /\ o.meta \in Nat
  BY DEF CommandLines
<1>2. e.meta \in Nat /\ e = [e EXCEPT !.meta = e.meta]
  BY DEF Entry
<1>3. [e EXCEPT !.meta = o.meta] \in Entry
      /\ [e EXCEPT !.meta = o.meta].id = e.id /\ [e EXCEPT !.meta = o.meta].name = e.name
  BY <1>1 DEF Entry
<1>4. CASE Deletes(o, e)
  <2>1. Outcome(o, e) = <<>> /\ <<>> \in Seq(Entry)
    BY <1>4 DEF Outcome
  <2>2. Selected(o, e) /\ o.kind # "set" /\ e.name \notin o.exclude
    BY <1>4 DEF Deletes
  <2>3. Transform(o, e) = <<>>
    BY <2>2 DEF Transform
  <2> QED
    BY <1>4, <2>1, <2>3
<1>5. CASE ~Deletes(o, e) /\ o.kind = "set" /\ Selected(o, e)
  <2> DEFINE x == [e EXCEPT !.meta = o.meta]
  <2>1. Outcome(o, e) = <<x>>
    BY <1>5 DEF Outcome
  <2>2. Transform(o, e) = <<x>>
    BY <1>5 DEF Transform
  <2>3. x \in Entry /\ x.id = e.id /\ x.name = e.name
    BY <1>3
  <2> HIDE DEF x
  <2>4. <<x>> \in Seq(Entry)
    BY <2>3
  <2> QED
    BY <1>5, <2>1, <2>2, <2>3, <2>4
<1>6. CASE ~Deletes(o, e) /\ ~(o.kind = "set" /\ Selected(o, e))
  <2>1. Outcome(o, e) = <<[e EXCEPT !.meta = e.meta]>>
    BY <1>6 DEF Outcome
  <2>2. Outcome(o, e) = <<e>> /\ <<e>> \in Seq(Entry)
    BY <1>2, <2>1
  <2>3. Transform(o, e) = <<e>>
    BY <1>1, <1>6 DEF Transform, Deletes
  <2> QED
    BY <1>6, <2>2, <2>3
<1> QED
  BY <1>4, <1>5, <1>6

LEMMA OutcomesAppend ==
  ASSUME NEW o \in CommandLines, NEW es \in Seq(Entry), NEW e \in Entry
  PROVE  /\ Outcomes(o, es) \in Seq(Entry)
         /\ Outcomes(o, Append(es, e)) = Outcomes(o, es) \o Outcome(o, e)
         /\ \A x : x \in ToSet(Outcomes(o, es)) <=> \E y \in ToSet(es) : x \in ToSet(Outcome(o, y))
<1> DEFINE f == [x \in Entry |-> Outcome(o, x)]
           g == [k \in DOMAIN es |-> f[es[k]]]
           t == Append(es, e)
           h == [k \in DOMAIN t |-> f[t[k]]]
<1>1. f \in [Entry -> Seq(Entry)] /\ \A x \in Entry : f[x] = Outcome(o, x)
  BY OutcomeFacts
<1>2. \A s \in Seq(Entry) :
        [k \in DOMAIN s |-> Outcome(o, s[k])] = [k \in DOMAIN s |-> f[s[k]]]
  <2> SUFFICES ASSUME NEW s \in Seq(Entry), NEW k \in DOMAIN s PROVE s[k] \in Entry
    OBVIOUS
  <2> QED
    OBVIOUS
<1>3. t \in Seq(Entry)
  OBVIOUS
<1>4. Outcomes(o, es) = FlattenSeq(g) /\ Outcomes(o, t) = FlattenSeq(h)
  BY <1>2, <1>3 DEF Outcomes
<1> HIDE DEF f
<1>5. g \in Seq(Seq(Entry)) /\ h = Append(g, f[e]) /\ f[e] \in Seq(Entry)
  <2> DEFINE n == Len(es)
  <2>1. n \in Nat /\ DOMAIN es = 1..n /\ \A k \in 1..n : es[k] \in Entry
    OBVIOUS
  <2>2. /\ Len(t) = n + 1 /\ DOMAIN t = 1..(n + 1) /\ t[n + 1] = e
        /\ \A k \in 1..n : t[k] = es[k]
        /\ \A k \in 1..(n + 1) : t[k] \in Entry
    <3>1. t \in Seq(Entry) /\ Len(t) = n + 1 /\ t[n + 1] = e /\ \A k \in 1..n : t[k] = es[k]
      OBVIOUS
    <3> HIDE DEF t
    <3> QED
      BY <2>1, <3>1
  <2> HIDE DEF n, t
  <2>3. g \in Seq(Seq(Entry)) /\ Len(g) = n /\ \A k \in 1..n : g[k] = f[es[k]]
    BY <1>1, <2>1
  <2>4. h \in Seq(Seq(Entry)) /\ Len(h) = n + 1 /\ \A k \in 1..(n + 1) : h[k] = f[t[k]]
    BY <1>1, <2>1, <2>2
  <2>5. f[e] \in Seq(Entry)
    BY <1>1
  <2> HIDE DEF g, h
  <2>6. Len(h) = Len(g) + 1 /\ h[Len(g) + 1] = f[e] /\ \A k \in 1..Len(g) : h[k] = g[k]
    <3>1. n + 1 \in 1..(n + 1)
      BY <2>1
    <3>2. h[n + 1] = f[t[n + 1]]
      BY <2>4, <3>1
    <3>3. h[n + 1] = f[e]
      BY <2>2, <3>2
    <3>4. ASSUME NEW k \in 1..n PROVE h[k] = g[k]
      <4>1. k \in 1..(n + 1)
        BY <2>1
      <4>2. h[k] = f[t[k]] /\ t[k] = es[k] /\ g[k] = f[es[k]]
        BY <2>2, <2>3, <2>4, <4>1
      <4> QED
        BY <4>2
    <3> QED
      BY <2>3, <2>4, <3>3, <3>4
  <2>7. h = Append(g, f[e])
    BY <2>3, <2>4, <2>5, <2>6, IsAppend
  <2> QED
    BY <2>3, <2>5, <2>7
<1>6. DOMAIN g = DOMAIN es /\ \A k \in DOMAIN es : g[k] = f[es[k]] /\ es[k] \in Entry
  OBVIOUS
<1> HIDE DEF g, h, t
<1>7. FlattenSeq(g) \in Seq(Entry) /\ FlattenSeq(h) = FlattenSeq(g) \o f[e]
  BY <1>5, FlattenAppend
<1>8. \A x : x \in ToSet(FlattenSeq(g)) <=> \E k \in DOMAIN g : x \in ToSet(g[k])
  BY <1>5, FlattenElements
<1>9. \A x : (\E k \in DOMAIN g : x \in ToSet(g[k])) <=> \E y \in ToSet(es) : x \in ToSet(Outcome(o, y))
  <2>1. \A k \in DOMAIN g : g[k] = Outcome(o, es[k])
    BY <1>1, <1>6
  <2> QED
    BY <1>6, <2>1 DEF ToSet
<1> QED
  BY <1>1, <1>4, <1>7, <1>8, <1>9 DEF t

-----------------------------------------------------------------------------
(* What a command has read                                                 *)

LEMMA PartFacts ==
  ASSUME NEW s \in Seq(Items), NEW o
  PROVE  \A k \in 1..Len(s) : Part(s[k], o) \in Seq(Entry)
<1> SUFFICES ASSUME NEW k \in 1..Len(s) PROVE Part(s[k], o) \in Seq(Entry)
  OBVIOUS
<1>1. s[k] \in Items
  OBVIOUS
<1> QED
  BY <1>1, ItemFacts, <<>> \in Seq(Entry) DEF Part

LEMMA ReadFacts ==
  ASSUME NEW s \in Seq(Items), NEW o, NEW n \in 0..Len(s)
  PROVE  /\ ReadOf(s, o, n) \in Seq(Entry)
         /\ \A x : x \in ToSet(ReadOf(s, o, n)) <=> \E k \in 1..n : x \in ToSet(Part(s[k], o))
         /\ n + 1 <= Len(s) => ReadOf(s, o, n + 1) = ReadOf(s, o, n) \o Part(s[n + 1], o)
         /\ n = 0 => ReadOf(s, o, n) = <<>>
         /\ n = Len(s) => ReadOf(s, o, n) = Readable(s, o)
<1> DEFINE p == Parts(s, o, n)
<1>0. Len(s) \in Nat /\ n \in Nat /\ n <= Len(s)
  OBVIOUS
<1>1. \A k \in 1..n : Part(s[k], o) \in Seq(Entry)
  <2>1. \A k \in 1..Len(s) : Part(s[k], o) \in Seq(Entry)
    BY PartFacts
  <2> QED
    BY <1>0, <2>1
<1>2. p \in Seq(Seq(Entry)) /\ Len(p) = n /\ DOMAIN p = 1..n /\ \A k \in 1..n : p[k] = Part(s[k], o)
  BY <1>0, <1>1 DEF Parts
<1>3. ReadOf(s, o, n) = FlattenSeq(p)
  BY DEF ReadOf
<1> HIDE DEF p
<1>4. FlattenSeq(p) \in Seq(Entry)
  BY <1>2, <<>> \in Seq(Entry), FlattenAppend
<1>5. \A x : x \in ToSet(FlattenSeq(p)) <=> \E k \in 1..n : x \in ToSet(Part(s[k], o))
  <2>1. \A x : x \in ToSet(FlattenSeq(p)) <=> \E k \in DOMAIN p : x \in ToSet(p[k])
    BY <1>2, FlattenElements
  <2> QED
    BY <1>2, <2>1
<1>6. ASSUME n + 1 <= Len(s)
      PROVE  ReadOf(s, o, n + 1) = ReadOf(s, o, n) \o Part(s[n + 1], o)
  <2> DEFINE q == Parts(s, o, n + 1)
             x == Part(s[n + 1], o)
  <2>1. n + 1 \in 1..Len(s) /\ n + 1 \in Nat
    BY <1>0, <1>6
  <2>2. x \in Seq(Entry)
    BY <2>1, PartFacts
  <2>3. \A k \in 1..(n + 1) : Part(s[k], o) \in Seq(Entry)
    <3>1. \A k \in 1..Len(s) : Part(s[k], o) \in Seq(Entry)
      BY PartFacts
    <3> QED
      BY <1>0, <1>6, <3>1
  <2>4. q \in Seq(Seq(Entry)) /\ Len(q) = n + 1 /\ \A k \in 1..(n + 1) : q[k] = Part(s[k], o)
    BY <2>1, <2>3 DEF Parts
  <2>5. ReadOf(s, o, n + 1) = FlattenSeq(q)
    BY DEF ReadOf
  <2> HIDE DEF q
  <2>6. q[Len(p) + 1] = x /\ \A k \in 1..Len(p) : q[k] = p[k]
    BY <1>0, <1>2, <2>4
  <2>7. Len(q) = Len(p) + 1
    BY <1>2, <2>4
  <2> HIDE DEF x
  <2>8. q = Append(p, x)
    BY <1>2, <2>2, <2>4, <2>6, <2>7, IsAppend
  <2>9. FlattenSeq(Append(p, x)) = FlattenSeq(p) \o x
    BY <1>2, <2>2, FlattenAppend
  <2> QED
    BY <1>3, <2>5, <2>8, <2>9 DEF x
<1>7. n = 0 => FlattenSeq(p) = <<>>
  <2> SUFFICES ASSUME n = 0 PROVE FlattenSeq(p) = <<>>
    OBVIOUS
  <2>1. p = <<>>
    BY <1>2
  <2> QED
    BY <2>1, FlattenEmpty
<1>8. n = Len(s) => FlattenSeq(p) = Readable(s, o)
  <2> SUFFICES ASSUME n = Len(s) PROVE FlattenSeq(p) = Readable(s, o)
    OBVIOUS
  <2>1. p = [k \in DOMAIN s |-> IF Garbled(s[k], o) THEN <<>> ELSE s[k].entries]
    BY DEF p, Parts, Part
  <2> QED
    BY <2>1 DEF Readable
<1> QED
  BY <1>3, <1>4, <1>5, <1>6, <1>7, <1>8

LEMMA NamedAppend ==
  ASSUME NEW o, NEW es \in Seq(Entry), NEW e \in Entry
  PROVE  Named(o, Append(es, e)) = Named(o, es) \cup MatchedBy(o, e)
<1>1. ToSet(Append(es, e)) = ToSet(es) \cup {e}
  <2>1. Append(es, e) = es \o <<e>> /\ <<e>> \in Seq(Entry)
    BY AppendIsConcat
  <2>2. Range(es \o <<e>>) = Range(es) \cup Range(<<e>>)
    BY <2>1, RangeConcatenation
  <2>3. Range(<<e>>) = {e}
    BY DEF Range
  <2>4. \A s : ToSet(s) = Range(s)
    BY DEF ToSet, Range
  <2> QED
    BY <2>1, <2>2, <2>3, <2>4
<1> QED
  BY <1>1 DEF Named, MatchedBy

-----------------------------------------------------------------------------
(* What a command writes of one entry                                      *)

\* g2 is g and what becomes of e, protected by enc and key.
Writes(g, g2, o, e, enc, key) ==
  /\ Sound(g2)
  /\ Entries(g2) = Entries(g) \o Outcome(o, e)
  /\ \A j \in DOMAIN g2 : \A x \in ToSet(g2[j].entries) :
       \/ j \in DOMAIN g /\ x \in ToSet(g[j].entries) /\ g2[j].enc = g[j].enc /\ g2[j].key = g[j].key
       \/ x.id = e.id /\ g2[j].enc = enc /\ g2[j].key = key

\* As an item of its own.
LEMMA WriteItem ==
  ASSUME NEW o \in CommandLines, NEW e \in Entry, NEW g, Sound(g), NEW enc, NEW key,
         NEW w \in Seq(Items), Len(w) = Len(Transform(o, e)),
         \A k \in 1..Len(w) : /\ w[k].entries = <<Transform(o, e)[k]>>
                              /\ w[k].enc = enc /\ w[k].key = key
  PROVE  Writes(g, g \o w, o, e, enc, key)
<1>1. g \in Seq(Items) /\ \A k \in DOMAIN g : ~g[k].solid => Len(g[k].entries) = 1
  BY DEF Sound
<1>2. Transform(o, e) = Outcome(o, e)
  BY OutcomeFacts
<1>3. Entries(g) \in Seq(Entry)
  BY <1>1, EntriesFacts
<1>4. CASE Deletes(o, e)
  <2>1. Outcome(o, e) = <<>>
    BY <1>4, OutcomeFacts
  <2>2. w = <<>>
    BY <1>2, <2>1
  <2>3. g \o w = g /\ Entries(g) \o <<>> = Entries(g)
    BY <1>1, <1>3, <2>2, ConcatEmptySeq
  <2> QED
    BY <2>1, <2>3 DEF Writes
<1>5. CASE ~Deletes(o, e)
  <2>1. PICK x \in Entry : Outcome(o, e) = <<x>> /\ x.id = e.id
    BY <1>5, OutcomeFacts
  <2>2. Len(Transform(o, e)) = 1 /\ Transform(o, e)[1] = x
    BY <1>2, <2>1
  <2> DEFINE y == w[1]
             t == Append(g, y)
  <2>3. y \in Items /\ y.entries = <<x>> /\ y.enc = enc /\ y.key = key /\ w = <<y>>
    <3>1. 1 \in 1..Len(w) /\ Len(w) = 1
      BY <2>2
    <3>2. y.entries = <<x>> /\ y.enc = enc /\ y.key = key
      BY <2>2, <3>1
    <3>3. y \in Items /\ w = <<y>>
      BY <3>1
    <3> QED
      BY <3>2, <3>3
  <2> HIDE DEF y
  <2>4. g \o w = t
    BY <1>1, <2>3, AppendIsConcat
  <2>5. /\ t \in Seq(Items) /\ Len(t) = Len(g) + 1 /\ t[Len(g) + 1] = y
        /\ \A k \in 1..Len(g) : t[k] = g[k]
        /\ DOMAIN t = 1..(Len(g) + 1) /\ DOMAIN g = 1..Len(g) /\ Len(g) \in Nat
    BY <1>1, <2>3
  <2>6. Entries(t) = Entries(g) \o Outcome(o, e)
    BY <1>1, <2>1, <2>3, EntriesAppend
  <2> HIDE DEF t
  <2>7. \A j \in DOMAIN t : j = Len(g) + 1 \/ (j \in DOMAIN g /\ t[j] = g[j])
    BY <2>5
  <2>8. Sound(t)
    <3>1. Len(y.entries) = 1
      BY <2>3
    <3>2. ASSUME NEW j \in DOMAIN t, ~t[j].solid PROVE Len(t[j].entries) = 1
      <4>1. CASE j = Len(g) + 1
        BY <2>5, <3>1, <4>1
      <4>2. CASE j \in DOMAIN g /\ t[j] = g[j]
        BY <1>1, <3>2, <4>2
      <4> QED
        BY <2>7, <4>1, <4>2
    <3> QED
      BY <2>5, <3>2 DEF Sound
  <2>9. ASSUME NEW j \in DOMAIN t, NEW z \in ToSet(t[j].entries)
        PROVE  \/ j \in DOMAIN g /\ z \in ToSet(g[j].entries) /\ t[j].enc = g[j].enc /\ t[j].key = g[j].key
               \/ z.id = e.id /\ t[j].enc = enc /\ t[j].key = key
    <3>1. CASE j = Len(g) + 1
      <4>1. t[j].entries = <<x>> /\ t[j].enc = enc /\ t[j].key = key
        BY <2>3, <2>5, <3>1
      <4>2. z \in ToSet(<<x>>)
        BY <2>9, <4>1
      <4>3. z = x
        BY <4>2 DEF ToSet
      <4> QED
        BY <2>1, <4>1, <4>3
    <3>2. CASE j \in DOMAIN g /\ t[j] = g[j]
      BY <2>9, <3>2
    <3> QED
      BY <2>7, <3>1, <3>2
  <2> QED
    BY <2>4, <2>6, <2>8, <2>9 DEF Writes
<1> QED
  BY <1>4, <1>5

\* At the end of the open block.
Extends(g, t, new) == t = [g EXCEPT ![Len(g)].entries = @ \o new]
LEMMA WriteBlock ==
  ASSUME NEW o \in CommandLines, NEW e \in Entry, NEW g, Sound(g), g # <<>>, g[Len(g)].solid,
         NEW t, Extends(g, t, Transform(o, e))
  PROVE  /\ Writes(g, t, o, e, g[Len(g)].enc, g[Len(g)].key)
         /\ t # <<>> /\ t[Len(t)].solid
         /\ t[Len(t)].enc = g[Len(g)].enc /\ t[Len(t)].key = g[Len(g)].key
<1> DEFINE n == Len(g)
           new == Transform(o, e)
<1>1. g \in Seq(Items) /\ \A k \in DOMAIN g : ~g[k].solid => Len(g[k].entries) = 1
  BY DEF Sound
<1>2. new \in Seq(Entry) /\ new = Outcome(o, e) /\ \A x \in ToSet(new) : x.id = e.id
  <2>1. new = Outcome(o, e) /\ new \in Seq(Entry)
    BY OutcomeFacts
  <2>2. new = <<>> \/ \E x \in Entry : new = <<x>> /\ x.id = e.id
    BY <2>1, OutcomeFacts
  <2>3. ToSet(<<>>) = {} /\ \A x : ToSet(<<x>>) = {x}
    BY DEF ToSet
  <2> QED
    BY <2>1, <2>2, <2>3
<1>3. g[n] \in Items /\ n \in DOMAIN g /\ n \in Nat /\ n # 0 /\ DOMAIN g = 1..n /\ n \in 1..n
  BY <1>1
<1> DEFINE p == g[n].entries
           y == [g[n] EXCEPT !.entries = @ \o new]
<1>4. p \in Seq(Entry) /\ p \o new \in Seq(Entry)
  <2>1. p \in Seq(Entry)
    BY <1>3, ItemFacts
  <2> HIDE DEF p, new
  <2> QED
    BY <1>2, <2>1
<1>5. t = [g EXCEPT ![n] = y]
  BY DEF Extends
<1> HIDE DEF new
<1>6. y \in Items /\ y.entries = p \o new /\ y.solid /\ y.enc = g[n].enc /\ y.key = g[n].key
  <2> DEFINE z == g[n]
  <2>1. z \in Items /\ p = z.entries /\ z.solid /\ y = [z EXCEPT !.entries = p \o new]
    BY <1>3
  <2> HIDE DEF z, p, y
  <2>2. y \in Items /\ y.entries = p \o new /\ y.solid = z.solid /\ y.enc = z.enc /\ y.key = z.key
    BY <1>4, <2>1 DEF Items
  <2> QED
    BY <2>1, <2>2 DEF z
<1> HIDE DEF y
<1>13. /\ t \in Seq(Items) /\ Len(t) = n /\ t[n] = y
      /\ \A k \in 1..n : k # n => t[k] = g[k]
  <2> HIDE DEF n
  <2> DEFINE v == [g EXCEPT ![n] = y]
  <2>1. n \in 1..Len(g) /\ Len(g) = n
    BY <1>3 DEF n
  <2>2. /\ v \in Seq(Items) /\ Len(v) = Len(g)
        /\ \A j \in 1..Len(g) : v[j] = IF j = n THEN y ELSE g[j]
    BY <1>1, <1>6, <2>1, ExceptSeq
  <2>3. t = v
    BY <1>5
  <2> HIDE DEF v
  <2> QED
    BY <2>1, <2>2, <2>3
<1>14. Entries(t) = Entries(g) \o new
  <2>1. t[n].entries = g[n].entries \o new
    BY <1>6, <1>13
  <2> QED
    BY <1>1, <1>2, <1>13, <2>1, EntriesGrow
<1>7. DOMAIN t = DOMAIN g /\ \A j \in DOMAIN t : j = n \/ t[j] = g[j]
  <2>1. DOMAIN t = 1..n
    BY <1>13, <1>3
  <2> QED
    BY <1>13, <1>3, <2>1
<1>8. Sound(t)
  BY <1>1, <1>6, <1>7, <1>13 DEF Sound
<1>9. ASSUME NEW j \in DOMAIN t, NEW z \in ToSet(t[j].entries)
      PROVE  \/ j \in DOMAIN g /\ z \in ToSet(g[j].entries) /\ t[j].enc = g[j].enc /\ t[j].key = g[j].key
             \/ z.id = e.id /\ t[j].enc = g[n].enc /\ t[j].key = g[n].key
  <2>1. CASE j = n
    <3>1. Range(p \o new) = Range(p) \cup Range(new)
      <4> HIDE DEF p
      <4> QED
        BY <1>2, <1>4, RangeConcatenation
    <3>2. \A s : ToSet(s) = Range(s)
      BY DEF ToSet, Range
    <3>3. z \in ToSet(p) \/ z \in ToSet(new)
      BY <1>9, <1>6, <1>13, <2>1, <3>1, <3>2
    <3> QED
      BY <1>2, <1>3, <1>6, <1>13, <2>1, <3>3 DEF p
  <2>2. CASE t[j] = g[j]
    BY <1>7, <1>9, <2>2
  <2> QED
    BY <1>7, <2>1, <2>2
<1>10. Entries(t) = Entries(g) \o Outcome(o, e)
  BY <1>2, <1>14
<1>11. Writes(g, t, o, e, g[n].enc, g[n].key)
  BY <1>8, <1>9, <1>10 DEF Writes
<1>12. t # <<>>
  BY <1>3, <1>13
<1> QED
  BY <1>6, <1>11, <1>12, <1>13

LEMMA WritesFaithful ==
  ASSUME NEW f, NEW g, NEW t, NEW o, NEW e, NEW enc, NEW key,
         Faithful(f, g), Writes(g, t, o, e, enc, key), Alike(f, enc, key, e)
  PROVE  Faithful(f, t)
<1> SUFFICES ASSUME NEW j \in DOMAIN t, NEW x \in ToSet(t[j].entries)
             PROVE  Alike(f, t[j].enc, t[j].key, x)
  BY DEF Faithful
<1>1. CASE j \in DOMAIN g /\ x \in ToSet(g[j].entries) /\ t[j].enc = g[j].enc /\ t[j].key = g[j].key
  BY <1>1 DEF Faithful
<1>2. CASE x.id = e.id /\ t[j].enc = enc /\ t[j].key = key
  BY <1>2 DEF Alike
<1> QED
  BY <1>1, <1>2 DEF Writes

-----------------------------------------------------------------------------
(* What the steps of a command do to what it has read and staged           *)

LEMMA Opened ==
  ASSUME NEW o \in CommandLines, NEW s, Sound(s)
  PROVE  CommandInv("item", o, s, 1, <<>>, <<>>, {})
<1>1. s \in Seq(Items) /\ Len(s) \in Nat
  BY DEF Sound
<1>2. Fits("item", o, s, 1, <<>>, <<>>)
  <2>1. Sound(<<>>) /\ <<>> \in Seq(Entry)
    BY DEF Sound
  <2>2. 1 \in 1..(Len(s) + 1)
    BY <1>1
  <2> QED
    BY <2>1, <2>2 DEF Fits
<1>3. Passed("item", o, s, 1, <<>>, <<>>, {}, <<>>)
  <2>1. ReadOf(s, o, 0) = <<>>
    <3>1. 0 \in 0..Len(s)
      BY <1>1
    <3> QED
      BY <1>1, <3>1, ReadFacts
  <2>2. ReadOf(s, o, 1 - 1) = <<>>
    BY <2>1
  <2>3. Entries(<<>>) = <<>> /\ Outcomes(o, <<>>) = <<>>
    <3>1. [k \in DOMAIN <<>> |-> <<>>[k].entries] = <<>>
      OBVIOUS
    <3>2. [k \in DOMAIN <<>> |-> Outcome(o, <<>>[k])] = <<>>
      OBVIOUS
    <3> QED
      BY <3>1, <3>2, FlattenEmpty DEF Entries, Outcomes
  <2>4. Named(o, <<>>) = {}
    BY DEF Named, ToSet
  <2>5. <<>> \o <<>> = <<>>
    OBVIOUS
  <2> QED
    BY <2>2, <2>3, <2>4, <2>5 DEF Passed
<1>4. <<>> \in Seq(Entry)
  OBVIOUS
<1> QED
  BY <1>2, <1>3, <1>4 DEF CommandInv, Working

\* One more entry has been passed through the transform.
LEMMA OneMore ==
  ASSUME NEW o \in CommandLines, NEW st, NEW s, NEW a, NEW i, NEW g, NEW m,
         NEW seen \in Seq(Entry), Passed(st, o, s, a, i, g, m, seen),
         NEW e \in Entry, NEW t, NEW enc, NEW key, Writes(g, t, o, e, enc, key)
  PROVE  /\ Append(seen, e) \in Seq(Entry)
         /\ Entries(t) = Outcomes(o, Append(seen, e))
         /\ m \cup MatchedBy(o, e) = Named(o, Append(seen, e))
<1>1. Outcomes(o, Append(seen, e)) = Outcomes(o, seen) \o Outcome(o, e)
  BY OutcomesAppend
<1>2. Named(o, Append(seen, e)) = Named(o, seen) \cup MatchedBy(o, e)
  BY NamedAppend
<1>3. Append(seen, e) \in Seq(Entry)
  OBVIOUS
<1> QED
  BY <1>1, <1>2, <1>3 DEF Passed, Writes

LEMMA NormalEntry ==
  ASSUME NEW s, Sound(s), NEW o, NEW a \in 1..Len(s), ~s[a].solid
  PROVE  /\ s[a] \in Items /\ s[a].entries[1] \in Entry
         /\ s[a].entries = <<s[a].entries[1]>> /\ Part(s[a], o) = s[a].entries
<1>1. s[a] \in Items /\ Len(s[a].entries) = 1
  BY DEF Sound
<1>2. s[a].entries \in Seq(Entry)
  BY <1>1, ItemFacts
<1>3. Part(s[a], o) = s[a].entries
  BY DEF Part, Garbled
<1> DEFINE z == s[a].entries
<1>4. z \in Seq(Entry) /\ Len(z) = 1
  BY <1>1, <1>2
<1> HIDE DEF z
<1>5. z[1] \in Entry /\ z = <<z[1]>>
  BY <1>4
<1> QED
  BY <1>1, <1>3, <1>5 DEF z

LEMMA NormalRead ==
  ASSUME NEW o \in CommandLines, NEW s, NEW a, NEW i, NEW g, NEW m, NEW e,
         CommandInv("item", o, s, a, i, g, m), a <= Len(s), ~s[a].solid, e = s[a].entries[1],
         NEW t, NEW enc, NEW key, Writes(g, t, o, e, enc, key)
  PROVE  CommandInv("item", o, s, a + 1, i, t, m \cup MatchedBy(o, e))
<1>1. /\ Sound(s) /\ a \in 1..(Len(s) + 1) /\ i = <<>> /\ Sound(t)
      /\ s \in Seq(Items) /\ Len(s) \in Nat
  BY DEF CommandInv, Working, Fits, Writes, Sound
<1>2. PICK seen \in Seq(Entry) : Passed("item", o, s, a, i, g, m, seen)
  BY DEF CommandInv, Working
<1>3. a \in 1..Len(s) /\ a - 1 \in 0..Len(s) /\ (a - 1) + 1 = a /\ (a + 1) - 1 = a
  BY <1>1
<1>4. e \in Entry /\ s[a].entries = <<e>> /\ Part(s[a], o) = <<e>>
  BY <1>1, <1>3, NormalEntry
<1>5. /\ Append(seen, e) \in Seq(Entry)
      /\ Entries(t) = Outcomes(o, Append(seen, e))
      /\ m \cup MatchedBy(o, e) = Named(o, Append(seen, e))
  BY <1>2, <1>4, OneMore
<1>6. Append(seen, e) \o i = ReadOf(s, o, (a + 1) - 1)
  <2>1. seen \o i = ReadOf(s, o, a - 1)
    BY <1>2 DEF Passed
  <2>2. seen \o i = seen
    BY <1>1, ConcatEmptySeq
  <2>3. ReadOf(s, o, (a - 1) + 1) = ReadOf(s, o, a - 1) \o Part(s[(a - 1) + 1], o)
    BY <1>1, <1>3, ReadFacts
  <2>4. ReadOf(s, o, a) = seen \o <<e>>
    BY <1>3, <1>4, <2>1, <2>2, <2>3
  <2>5. Append(seen, e) = seen \o <<e>>
    BY <1>4, AppendIsConcat
  <2>6. Append(seen, e) \o i = Append(seen, e)
    BY <1>1, <1>5, ConcatEmptySeq
  <2> QED
    BY <1>3, <2>4, <2>5, <2>6
<1>7. Passed("item", o, s, a + 1, i, t, m \cup MatchedBy(o, e), Append(seen, e))
  BY <1>5, <1>6 DEF Passed
<1>8. Fits("item", o, s, a + 1, i, t)
  <2>1. a + 1 \in 1..(Len(s) + 1) /\ <<>> \in Seq(Entry)
    BY <1>1, <1>3
  <2> QED
    BY <1>1, <2>1 DEF Fits
<1> QED
  BY <1>5, <1>7, <1>8 DEF CommandInv, Working

LEMMA DecryptedPart ==
  ASSUME NEW x \in Items, x.solid, NEW o \in CommandLines,
         NEW d \in Decrypted(x, o.password), d.ok
  PROVE  /\ d.entries = Part(x, o)
         /\ d.entries # <<>> => x.enc = "none" \/ o.password = x.key
<1>1. CASE x.enc = "none" \/ o.password = x.key
  <2>1. d.entries = x.entries
    BY <1>1 DEF Decrypted
  <2>2. ~Garbled(x, o)
    BY <1>1 DEF Garbled
  <2> QED
    BY <1>1, <2>1, <2>2 DEF Part
<1>2. CASE ~(x.enc = "none" \/ o.password = x.key)
  <2>1. d.entries = <<>> /\ o.password # "none" /\ x.enc = "ctr"
    BY <1>2 DEF Decrypted
  <2>2. Garbled(x, o)
    BY <1>2, <2>1 DEF Garbled
  <2> QED
    BY <2>1, <2>2 DEF Part
<1> QED
  BY <1>1, <1>2

\* A block like the one read is opened in the staged file, if one is.
Opens(g, t, item, o) ==
  t = IF o.keep_solid THEN Append(g, SameProtection(item, o.password)) ELSE g

LEMMA OpensBlock ==
  ASSUME NEW g, Sound(g), NEW x \in Items, NEW o \in CommandLines, NEW t, Opens(g, t, x, o)
  PROVE  /\ Sound(t) /\ Entries(t) = Entries(g)
         /\ \A f : Faithful(f, g) => Faithful(f, t)
         /\ o.keep_solid =>
              /\ t # <<>> /\ t[Len(t)].solid /\ t[Len(t)].enc = x.enc
              /\ x.enc # "none" => t[Len(t)].key = o.password
<1>1. g \in Seq(Items) /\ \A k \in DOMAIN g : ~g[k].solid => Len(g[k].entries) = 1
  BY DEF Sound
<1>2. CASE ~o.keep_solid
  BY <1>2 DEF Opens
<1>3. CASE o.keep_solid
  <2> DEFINE y == SameProtection(x, o.password)
             n == Len(g)
  <2>1. o.password \in Keys /\ "none" \in Keys
    BY DEF CommandLines, Keys
  <2>2. /\ y \in Items /\ y.solid /\ y.enc = x.enc /\ y.entries = <<>>
        /\ x.enc # "none" => y.key = o.password
    <3>1. x.enc \in Ciphers /\ <<>> \in Seq(Entry)
      BY ItemFacts
    <3> QED
      BY <2>1, <3>1 DEF SameProtection, Block, Items
  <2>3. t = Append(g, y)
    BY <1>3 DEF Opens
  <2> HIDE DEF y
  <2>4. /\ t \in Seq(Items) /\ n \in Nat /\ Len(t) = n + 1 /\ t[n + 1] = y
        /\ DOMAIN t = 1..(n + 1) /\ DOMAIN g = 1..n /\ \A k \in 1..n : t[k] = g[k]
    BY <1>1, <2>2, <2>3
  <2>5. Entries(t) = Entries(g)
    <3>1. Entries(t) = Entries(g) \o <<>> /\ Entries(g) \in Seq(Entry)
      BY <1>1, <2>2, <2>3, EntriesAppend, EntriesFacts
    <3> QED
      BY <3>1, ConcatEmptySeq
  <2>6. \A j \in DOMAIN t : j = n + 1 \/ (j \in DOMAIN g /\ t[j] = g[j])
    BY <2>4
  <2>7. Sound(t)
    BY <1>1, <2>2, <2>4, <2>6 DEF Sound
  <2>8. ASSUME NEW f, Faithful(f, g) PROVE Faithful(f, t)
    <3> SUFFICES ASSUME NEW j \in DOMAIN t, NEW z \in ToSet(t[j].entries)
                 PROVE  Alike(f, t[j].enc, t[j].key, z)
      BY DEF Faithful
    <3>1. CASE j = n + 1
      <4>1. z \in ToSet(<<>>)
        BY <2>2, <2>4, <3>1
      <4> QED
        BY <4>1 DEF ToSet
    <3>2. CASE j \in DOMAIN g /\ t[j] = g[j]
      BY <2>8, <3>2 DEF Faithful
    <3> QED
      BY <2>6, <3>1, <3>2
  <2>9. t # <<>> /\ t[Len(t)] = y
    BY <2>4
  <2> QED
    BY <2>2, <2>5, <2>7, <2>8, <2>9
<1> QED
  BY <1>2, <1>3

LEMMA BlockOpened ==
  ASSUME NEW o \in CommandLines, NEW s, NEW a, NEW i, NEW g, NEW m,
         CommandInv("item", o, s, a, i, g, m), a <= Len(s), s[a].solid,
         NEW d \in Decrypted(s[a], o.password), d.ok, NEW t, Opens(g, t, s[a], o)
  PROVE  /\ CommandInv("block", o, s, a, d.entries, t, m)
         /\ d.entries \in Seq(Entry)
<1>1. /\ Sound(s) /\ Sound(g) /\ a \in 1..(Len(s) + 1) /\ i = <<>>
      /\ s \in Seq(Items) /\ Len(s) \in Nat
  BY DEF CommandInv, Working, Fits, Sound
<1>2. PICK seen \in Seq(Entry) : Passed("item", o, s, a, i, g, m, seen)
  BY DEF CommandInv, Working
<1>3. a \in 1..Len(s) /\ a - 1 \in 0..Len(s) /\ (a - 1) + 1 = a
  BY <1>1
<1>4. s[a] \in Items
  BY <1>1, <1>3
<1>5. d.entries = Part(s[a], o)
  BY <1>4, DecryptedPart
<1>6. d.entries \in Seq(Entry) /\ ToSet(d.entries) \subseteq ToSet(s[a].entries)
  <2>1. d.entries \in Seq(Entry)
    BY <1>1, <1>3, <1>5, PartFacts
  <2>2. d.entries = s[a].entries \/ d.entries = <<>>
    BY <1>5 DEF Part
  <2> QED
    BY <2>1, <2>2 DEF ToSet
<1>7. /\ Sound(t) /\ Entries(t) = Entries(g)
      /\ o.keep_solid => t # <<>> /\ t[Len(t)].solid
  BY <1>1, <1>4, OpensBlock
<1>8. Passed("block", o, s, a, d.entries, t, m, seen)
  <2>1. seen \o i = ReadOf(s, o, a - 1)
    BY <1>2 DEF Passed
  <2>2. seen \o i = seen
    BY <1>1, ConcatEmptySeq
  <2>3. ReadOf(s, o, (a - 1) + 1) = ReadOf(s, o, a - 1) \o Part(s[(a - 1) + 1], o)
    BY <1>1, <1>3, ReadFacts
  <2>4. seen \o d.entries = ReadOf(s, o, a)
    BY <1>3, <1>5, <2>1, <2>2, <2>3
  <2> QED
    BY <1>2, <1>7, <2>4 DEF Passed
<1>9. Fits("block", o, s, a, d.entries, t)
  BY <1>1, <1>6, <1>7 DEF Fits
<1> QED
  BY <1>6, <1>8, <1>9 DEF CommandInv, Working

\* The first of what is left of the block goes through the transform.
LEMMA InnerRead ==
  ASSUME NEW o \in CommandLines, NEW s, NEW a, NEW i, NEW g, NEW m,
         CommandInv("block", o, s, a, i, g, m), i # <<>>,
         NEW t, NEW enc, NEW key, Writes(g, t, o, i[1], enc, key),
         o.keep_solid => t # <<>> /\ t[Len(t)].solid
  PROVE  CommandInv("block", o, s, a, Tail(i), t, m \cup MatchedBy(o, i[1]))
<1> DEFINE e == i[1]
           r == Tail(i)
<1>1. /\ Sound(s) /\ a \in 1..(Len(s) + 1) /\ a <= Len(s) /\ i \in Seq(Entry) /\ Sound(t)
      /\ ToSet(i) \subseteq ToSet(s[a].entries)
  BY DEF CommandInv, Working, Fits, Writes
<1>2. PICK seen \in Seq(Entry) : Passed("block", o, s, a, i, g, m, seen)
  BY DEF CommandInv, Working
<1>3. e \in Entry /\ r \in Seq(Entry) /\ i = <<e>> \o r /\ <<e>> \in Seq(Entry)
  <2>1. e \in Entry /\ r \in Seq(Entry) /\ <<e>> \in Seq(Entry)
    BY <1>1
  <2>2. i = <<e>> \o r
    BY <1>1
  <2> QED
    BY <2>1, <2>2
<1>4. ToSet(r) \subseteq ToSet(i)
  <2>1. Range(i) = Range(<<e>>) \cup Range(r)
    <3> HIDE DEF e, r
    <3> QED
      BY <1>3, RangeConcatenation
  <2>2. \A q : ToSet(q) = Range(q)
    BY DEF ToSet, Range
  <2> QED
    BY <2>1, <2>2
<1> HIDE DEF e, r
<1>5. /\ Append(seen, e) \in Seq(Entry)
      /\ Entries(t) = Outcomes(o, Append(seen, e))
      /\ m \cup MatchedBy(o, e) = Named(o, Append(seen, e))
  <2>1. Writes(g, t, o, e, enc, key)
    BY DEF e
  <2> QED
    BY <1>2, <1>3, <2>1, OneMore
<1>6. Append(seen, e) \o r = seen \o i
  <2>1. Append(seen, e) = seen \o <<e>>
    BY <1>3, AppendIsConcat
  <2> DEFINE q == <<e>>
  <2>2. q \in Seq(Entry)
    BY <1>3
  <2> HIDE DEF q
  <2>3. (seen \o q) \o r = seen \o (q \o r)
    BY <1>3, <2>2, JoinThree, Zenon
  <2> QED
    BY <1>3, <2>1, <2>3 DEF q
<1>7. Passed("block", o, s, a, r, t, m \cup MatchedBy(o, e), Append(seen, e))
  BY <1>2, <1>5, <1>6 DEF Passed
<1>8. Fits("block", o, s, a, r, t)
  BY <1>1, <1>3, <1>4 DEF Fits
<1>9. CommandInv("block", o, s, a, r, t, m \cup MatchedBy(o, e))
  BY <1>5, <1>7, <1>8 DEF CommandInv, Working
<1> QED
  BY <1>9 DEF e, r

LEMMA BlockClosed ==
  ASSUME NEW o, NEW s, NEW a, NEW i, NEW g, NEW m,
         CommandInv("block", o, s, a, i, g, m), i = <<>>
  PROVE  CommandInv("item", o, s, a + 1, i, g, m)
<1>1. Sound(s) /\ Sound(g) /\ a \in 1..(Len(s) + 1) /\ a <= Len(s) /\ i \in Seq(Entry)
  BY DEF CommandInv, Working, Fits
<1>2. PICK seen \in Seq(Entry) : Passed("block", o, s, a, i, g, m, seen)
  BY DEF CommandInv, Working
<1>3. Len(s) \in Nat /\ a \in Nat /\ (a + 1) - 1 = a /\ a + 1 \in 1..(Len(s) + 1)
  BY <1>1 DEF Sound
<1>4. Passed("item", o, s, a + 1, i, g, m, seen)
  BY <1>2, <1>3 DEF Passed
<1>5. Fits("item", o, s, a + 1, i, g)
  BY <1>1, <1>3 DEF Fits
<1> QED
  BY <1>4, <1>5 DEF CommandInv, Working

LEMMA AllChecked ==
  ASSUME NEW o, NEW s, NEW a, NEW i, NEW g, NEW m,
         CommandInv("item", o, s, a, i, g, m), a > Len(s), m = DOMAIN o.patterns
  PROVE  CommandInv("commit", o, s, a, i, g, m)
<1>1. Sound(s) /\ Sound(g) /\ a \in 1..(Len(s) + 1) /\ i \in Seq(Entry) /\ i = <<>>
  BY DEF CommandInv, Working, Fits
<1>2. PICK seen \in Seq(Entry) : Passed("item", o, s, a, i, g, m, seen)
  BY DEF CommandInv, Working
<1>3. Len(s) \in Nat /\ a = Len(s) + 1
  BY <1>1 DEF Sound
<1>4. Passed("commit", o, s, a, i, g, m, seen)
  BY <1>2 DEF Passed
<1>5. Fits("commit", o, s, a, i, g)
  BY <1>1, <1>3 DEF Fits
<1> QED
  BY <1>4, <1>5 DEF CommandInv, Working

\* A command that is about to commit has read all that it can.
LEMMA AllRead ==
  ASSUME NEW o, NEW s, NEW a, NEW i, NEW g, NEW m,
         CommandInv("commit", o, s, a, i, g, m)
  PROVE  /\ Sound(s) /\ Sound(g) /\ Readable(s, o) \in Seq(Entry)
         /\ Entries(g) = Outcomes(o, Readable(s, o))
         /\ DOMAIN o.patterns = Named(o, Readable(s, o))
         /\ \A x : x \in ToSet(Readable(s, o)) <=>
                     \E k \in DOMAIN s : x \in ToSet(Part(s[k], o))
<1>1. /\ Sound(s) /\ Sound(g) /\ i = <<>> /\ a = Len(s) + 1 /\ m = DOMAIN o.patterns
      /\ s \in Seq(Items) /\ Len(s) \in Nat
  BY DEF CommandInv, Working, Fits, Sound
<1>2. PICK seen \in Seq(Entry) : Passed("commit", o, s, a, i, g, m, seen)
  BY DEF CommandInv, Working
<1>3. a - 1 = Len(s) /\ Len(s) \in 0..Len(s) /\ DOMAIN s = 1..Len(s)
  BY <1>1
<1>4. seen \o i = ReadOf(s, o, Len(s)) /\ Entries(g) = Outcomes(o, seen) /\ m = Named(o, seen)
  BY <1>2, <1>3 DEF Passed
<1>5. seen \o i = seen
  BY <1>1, ConcatEmptySeq
<1>6. ReadOf(s, o, Len(s)) = Readable(s, o)
      /\ \A x : x \in ToSet(ReadOf(s, o, Len(s))) <=> \E k \in 1..Len(s) : x \in ToSet(Part(s[k], o))
  BY <1>1, <1>3, ReadFacts
<1> QED
  BY <1>1, <1>3, <1>4, <1>5, <1>6

-----------------------------------------------------------------------------
(* The protection of what is staged                                        *)

LEMMA NormalProtected ==
  ASSUME NEW f, NEW o \in CommandLines, NEW s, NEW a, NEW i, NEW g, NEW m, NEW e,
         CommandInv("item", o, s, a, i, g, m), a <= Len(s), ~s[a].solid, e = s[a].entries[1],
         NEW t, Writes(g, t, o, e, s[a].enc, s[a].key),
         KeepsAlike(f, "item", o, s, a, i, g)
  PROVE  KeepsAlike(f, "item", o, s, a + 1, i, t)
<1>1. Sound(s) /\ a \in 1..Len(s)
  BY DEF CommandInv, Working, Fits
<1>2. e \in ToSet(s[a].entries) /\ a \in DOMAIN s
  <2>1. s[a].entries = <<e>>
    BY <1>1, NormalEntry
  <2>2. e \in ToSet(<<e>>)
    BY DEF ToSet
  <2> QED
    BY <1>1, <2>1, <2>2 DEF Sound
<1>3. Faithful(f, s) /\ (o.keep_solid => Faithful(f, g))
  BY DEF KeepsAlike, Working
<1>4. Alike(f, s[a].enc, s[a].key, e)
  BY <1>2, <1>3 DEF Faithful
<1>5. o.keep_solid => Faithful(f, t)
  BY <1>3, <1>4, WritesFaithful
<1> QED
  BY <1>3, <1>5 DEF KeepsAlike

LEMMA BlockProtected ==
  ASSUME NEW f, NEW o \in CommandLines, NEW s, NEW a, NEW i, NEW g, NEW m,
         CommandInv("item", o, s, a, i, g, m), a <= Len(s), s[a].solid,
         NEW d \in Decrypted(s[a], o.password), d.ok, NEW t, Opens(g, t, s[a], o),
         KeepsAlike(f, "item", o, s, a, i, g)
  PROVE  KeepsAlike(f, "block", o, s, a, d.entries, t)
<1>1. Sound(s) /\ Sound(g) /\ a \in 1..Len(s)
  BY DEF CommandInv, Working, Fits
<1>2. s[a] \in Items
  BY <1>1 DEF Sound
<1>3. Faithful(f, s) /\ (o.keep_solid => Faithful(f, g))
  BY DEF KeepsAlike, Working
<1>4. /\ Faithful(f, g) => Faithful(f, t)
      /\ o.keep_solid => /\ t[Len(t)].enc = s[a].enc
                         /\ s[a].enc # "none" => t[Len(t)].key = o.password
  BY <1>1, <1>2, OpensBlock
<1>5. d.entries # <<>> => s[a].enc = "none" \/ o.password = s[a].key
  BY <1>2, DecryptedPart
<1> QED
  BY <1>3, <1>4, <1>5 DEF KeepsAlike

LEMMA InnerProtected ==
  ASSUME NEW f, NEW o \in CommandLines, NEW s, NEW a, NEW i, NEW g, NEW m,
         CommandInv("block", o, s, a, i, g, m), i # <<>>, NEW t, NEW enc, NEW key,
         Writes(g, t, o, i[1], enc, key),
         o.keep_solid => /\ enc = g[Len(g)].enc /\ key = g[Len(g)].key
                         /\ t[Len(t)].enc = enc /\ t[Len(t)].key = key,
         KeepsAlike(f, "block", o, s, a, i, g)
  PROVE  KeepsAlike(f, "block", o, s, a, Tail(i), t)
<1>1. Sound(s) /\ a \in 1..Len(s) /\ i \in Seq(Entry) /\ ToSet(i) \subseteq ToSet(s[a].entries)
  BY DEF CommandInv, Working, Fits
<1> DEFINE e == i[1]
<1>2. e \in ToSet(s[a].entries) /\ a \in DOMAIN s
  <2>1. 1 \in DOMAIN i
    BY <1>1
  <2>2. e \in ToSet(i)
    BY <2>1 DEF ToSet
  <2> QED
    BY <1>1, <2>2 DEF Sound
<1>3. /\ Faithful(f, s)
      /\ o.keep_solid => /\ Faithful(f, g) /\ g[Len(g)].enc = s[a].enc
                         /\ s[a].enc # "none" => g[Len(g)].key = s[a].key
  BY DEF KeepsAlike, Working
<1>4. Alike(f, s[a].enc, s[a].key, e)
  BY <1>2, <1>3 DEF Faithful
<1>5. ASSUME o.keep_solid PROVE Alike(f, enc, key, e)
  <2>1. enc = s[a].enc /\ (s[a].enc # "none" => key = s[a].key)
    BY <1>3, <1>5
  <2> SUFFICES ASSUME NEW k \in DOMAIN f, f[k].enc # "none",
                      NEW x \in ToSet(f[k].entries), x.id = e.id
               PROVE  enc = f[k].enc /\ key = f[k].key
    BY DEF Alike
  <2>2. s[a].enc = f[k].enc /\ s[a].key = f[k].key
    BY <1>4 DEF Alike
  <2> QED
    BY <2>1, <2>2
<1>6. o.keep_solid => Faithful(f, t)
  BY <1>3, <1>5, WritesFaithful
<1> QED
  BY <1>3, <1>6 DEF KeepsAlike

-----------------------------------------------------------------------------
(* The steps                                                               *)

\* A step of c is no other command's.
Frame(c) ==
  /\ op' = op /\ first' = first /\ step[c] # "done"
  /\ \A d \in Commands \ {c} :
       /\ step'[d] = step[d] /\ source'[d] = source[d] /\ at'[d] = at[d]
       /\ inner'[d] = inner[d] /\ staged'[d] = staged[d] /\ matched'[d] = matched[d]
\* c goes on with the archive it opened, or gives up.
Reads(c) ==
  /\ archive' = archive /\ source'[c] = source[c] /\ step'[c] # "done"
  /\ Working(step'[c]) => Working(step[c])
Goes(c) == Frame(c) /\ TypeInv' /\ Works(c)'

LEMMA OpenGoes ==
  ASSUME TypeInv, WorkInv, NEW c \in Commands, Open(c)
  PROVE  /\ Goes(c)
         /\ archive' = archive /\ source'[c] = archive /\ step'[c] = "item"
         /\ Faithful(first, archive) => Protects(c)'
<1>1. /\ step[c] = "open" /\ source' = [source EXCEPT ![c] = archive]
      /\ step' = [step EXCEPT ![c] = "item"]
      /\ UNCHANGED <<archive, op, at, inner, staged, matched, first>>
  BY DEF Open, Goto
<1>2. /\ step'[c] = "item" /\ source'[c] = archive
      /\ \A d \in Commands \ {c} : step'[d] = step[d] /\ source'[d] = source[d]
  BY <1>1 DEF TypeInv
<1>3. Frame(c)
  BY <1>1, <1>2 DEF Frame
<1>4. TypeInv'
  <2>1. archive \in Seq(Items)
    BY DEF TypeInv, Sound
  <2> QED
    BY <1>1, <2>1 DEF TypeInv, States
<1>5. at[c] = 1 /\ inner[c] = <<>> /\ staged[c] = <<>> /\ matched[c] = {}
  BY <1>1 DEF WorkInv, Works, CommandInv
<1>6. Works(c)'
  <2>1. op[c] \in CommandLines /\ Sound(archive)
    BY DEF TypeInv
  <2>2. CommandInv("item", op[c], archive, 1, <<>>, <<>>, {})
    BY <2>1, Opened
  <2> QED
    BY <1>1, <1>2, <1>5, <2>2 DEF Works
<1>7. Faithful(first, archive) => Protects(c)'
  <2>1. Faithful(first, <<>>)
    BY DEF Faithful
  <2> QED
    BY <1>1, <1>2, <1>5, <2>1 DEF Protects, KeepsAlike
<1> QED
  BY <1>1, <1>2, <1>3, <1>4, <1>6, <1>7 DEF Goes

LEMMA ReadNormalGoes ==
  ASSUME TypeInv, WorkInv, NEW c \in Commands, ReadNormal(c)
  PROVE  Goes(c) /\ Reads(c) /\ (Protects(c) => Protects(c)')
<1> DEFINE o == op[c]
           s == source[c]
           a == at[c]
           g == staged[c]
           e == Item(c).entries[1]
           w == [k \in DOMAIN Transform(o, e) |->
                   [Item(c) EXCEPT !.entries = <<Transform(o, e)[k]>>]]
           t == g \o w
           m == matched[c] \cup MatchedBy(o, e)
<1>1. /\ step[c] = "item" /\ a <= Len(s) /\ ~Item(c).solid /\ Item(c) = s[a]
      /\ staged' = [staged EXCEPT ![c] = t] /\ matched' = [matched EXCEPT ![c] = m]
      /\ at' = [at EXCEPT ![c] = a + 1]
      /\ UNCHANGED <<archive, op, step, source, inner, first>>
  BY DEF ReadNormal, More, Item
<1>2. o \in CommandLines /\ Works(c) /\ a \in Nat
  BY DEF TypeInv, WorkInv
<1>3. CommandInv("item", o, s, a, inner[c], g, matched[c])
  BY <1>1, <1>2 DEF Works
<1>4. Sound(s) /\ Sound(g) /\ a \in 1..Len(s)
  <2>1. Sound(s) /\ Sound(g) /\ a \in 1..(Len(s) + 1)
    BY <1>3 DEF CommandInv, Working, Fits
  <2>2. Len(s) \in Nat
    BY <2>1 DEF Sound
  <2>3. a <= Len(s)
    BY <1>1
  <2> QED
    BY <2>1, <2>2, <2>3
<1>5. s[a] \in Items /\ e \in Entry
  BY <1>1, <1>4, NormalEntry
<1>6. Writes(g, t, o, e, s[a].enc, s[a].key)
  <2> DEFINE tr == Transform(o, e)
             y(k) == [s[a] EXCEPT !.entries = <<tr[k]>>]
  <2>1. tr \in Seq(Entry)
    BY <1>2, <1>5, OutcomeFacts
  <2>2. ASSUME NEW k \in DOMAIN tr
        PROVE  /\ y(k) \in Items /\ y(k).entries = <<tr[k]>>
               /\ y(k).enc = s[a].enc /\ y(k).key = s[a].key
    <3>1. <<tr[k]>> \in Seq(Entry)
      BY <2>1
    <3> HIDE DEF tr, s, a
    <3> QED
      BY <1>5, <3>1 DEF Items
  <2>3. w = [k \in DOMAIN tr |-> y(k)]
    BY <1>1
  <2> HIDE DEF w, y, tr
  <2>4. /\ w \in Seq(Items) /\ Len(w) = Len(tr)
        /\ \A k \in 1..Len(w) : /\ w[k].entries = <<tr[k]>>
                                /\ w[k].enc = s[a].enc /\ w[k].key = s[a].key
    BY <2>1, <2>2, <2>3
  <2> HIDE DEF o, e, g, s, a
  <2> QED
    BY <1>2, <1>4, <1>5, <2>4, WriteItem DEF tr
<1> HIDE DEF o, s, a, g, e, t, m, w
<1>7. CommandInv("item", o, s, a + 1, inner[c], t, m)
  BY <1>1, <1>2, <1>3, <1>6, NormalRead DEF e, m
<1>8. Sound(t) /\ t \in Seq(Items)
  BY <1>6 DEF Writes, Sound
<1>9. /\ staged'[c] = t /\ matched'[c] = m /\ at'[c] = a + 1
      /\ \A d \in Commands \ {c} :
           staged'[d] = staged[d] /\ matched'[d] = matched[d] /\ at'[d] = at[d]
  BY <1>1 DEF TypeInv
<1>10. Frame(c) /\ Reads(c)
  BY <1>1, <1>9 DEF Frame, Reads
<1>11. TypeInv'
  BY <1>1, <1>2, <1>8 DEF TypeInv
<1>12. Works(c)'
  BY <1>1, <1>7, <1>9 DEF Works, o, s
<1>13. ASSUME Protects(c) PROVE Protects(c)'
  <2>1. KeepsAlike(first, "item", o, s, a, inner[c], g)
    BY <1>1, <1>13 DEF Protects, o, s, a, g
  <2>2. KeepsAlike(first, "item", o, s, a + 1, inner[c], t)
    BY <1>1, <1>2, <1>3, <1>6, <2>1, NormalProtected DEF e
  <2> QED
    BY <1>1, <1>9, <2>2 DEF Protects, o, s
<1> QED
  BY <1>10, <1>11, <1>12, <1>13 DEF Goes

LEMMA OpenBlockGoes ==
  ASSUME TypeInv, WorkInv, NEW c \in Commands, OpenBlock(c)
  PROVE  Goes(c) /\ Reads(c) /\ (Protects(c) => Protects(c)')
<1> DEFINE o == op[c]
           s == source[c]
           a == at[c]
           g == staged[c]
           t == IF o.keep_solid THEN Append(g, SameProtection(Item(c), o.password)) ELSE g
<1>1. /\ step[c] = "item" /\ a <= Len(s) /\ s[a].solid /\ Item(c) = s[a]
      /\ staged' = [staged EXCEPT ![c] = t] /\ step' = [step EXCEPT ![c] = "block"]
      /\ UNCHANGED <<archive, op, source, at, matched, first>>
  BY DEF OpenBlock, More, Item, Goto
<1>2. PICK d \in Decrypted(s[a], o.password) :
        d.ok /\ inner' = [inner EXCEPT ![c] = d.entries]
  BY DEF OpenBlock, Item
<1>3. o \in CommandLines /\ Works(c)
  BY DEF TypeInv, WorkInv
<1>4. Opens(g, t, s[a], o)
  BY <1>1 DEF Opens
<1> HIDE DEF o, s, a, g, t
<1>5. CommandInv("item", o, s, a, inner[c], g, matched[c])
  BY <1>1, <1>3 DEF Works, o, s, a, g
<1>6. CommandInv("block", o, s, a, d.entries, t, matched[c]) /\ d.entries \in Seq(Entry)
  BY <1>1, <1>2, <1>3, <1>4, <1>5, BlockOpened
<1>7. t \in Seq(Items)
  BY <1>6 DEF CommandInv, Working, Fits, Sound
<1>8. /\ staged'[c] = t /\ step'[c] = "block" /\ inner'[c] = d.entries
      /\ \A b \in Commands \ {c} :
           staged'[b] = staged[b] /\ step'[b] = step[b] /\ inner'[b] = inner[b]
  BY <1>1, <1>2 DEF TypeInv
<1>9. Frame(c) /\ Reads(c)
  BY <1>1, <1>8 DEF Frame, Reads, Working
<1>10. TypeInv'
  BY <1>1, <1>2, <1>6, <1>7 DEF TypeInv, States
<1>11. Works(c)'
  BY <1>1, <1>6, <1>8 DEF Works, o, s, a
<1>12. ASSUME Protects(c) PROVE Protects(c)'
  <2>1. KeepsAlike(first, "item", o, s, a, inner[c], g)
    BY <1>1, <1>12 DEF Protects, o, s, a, g
  <2>2. KeepsAlike(first, "block", o, s, a, d.entries, t)
    BY <1>1, <1>2, <1>3, <1>4, <1>5, <2>1, BlockProtected
  <2> QED
    BY <1>1, <1>8, <2>2 DEF Protects, o, s, a
<1> QED
  BY <1>9, <1>10, <1>11, <1>12 DEF Goes

LEMMA NormalItemFacts ==
  ASSUME NEW e \in Entry
  PROVE  /\ NormalItem(e) \in Items /\ NormalItem(e).entries = <<e>>
         /\ NormalItem(e).enc = "none" /\ NormalItem(e).key = "none"
<1> DEFINE q == <<e>>
<1>1. q \in Seq(Entry)
  OBVIOUS
<1>2. NormalItem(e) = [solid |-> FALSE, enc |-> "none", key |-> "none", entries |-> q]
  BY DEF NormalItem
<1> HIDE DEF q
<1>3. NormalItem(e).entries = q /\ NormalItem(e).enc = "none" /\ NormalItem(e).key = "none"
  BY <1>2
<1>4. NormalItem(e) \in Items
  <2>1. "none" \in Ciphers /\ "none" \in Keys
    BY DEF Ciphers, Keys
  <2> QED
    BY <1>1, <1>2, <2>1 DEF Items
<1> QED
  BY <1>3, <1>4 DEF q

\* An entry of a block, in either strategy.
InnerItems(new) == [k \in DOMAIN new |-> NormalItem(new[k])]
WritesInner(g, t, o, new) ==
  IF o.keep_solid THEN Extends(g, t, new) ELSE t = g \o InnerItems(new)

LEMMA WriteInner ==
  ASSUME NEW o \in CommandLines, NEW e \in Entry, NEW g, Sound(g),
         o.keep_solid => g # <<>> /\ g[Len(g)].solid,
         NEW t, WritesInner(g, t, o, Transform(o, e)), NEW enc, NEW key,
         enc = (IF o.keep_solid THEN g[Len(g)].enc ELSE "none"),
         key = (IF o.keep_solid THEN g[Len(g)].key ELSE "none")
  PROVE  /\ Writes(g, t, o, e, enc, key)
         /\ o.keep_solid => /\ t # <<>> /\ t[Len(t)].solid
                            /\ t[Len(t)].enc = enc /\ t[Len(t)].key = key
<1>1. CASE o.keep_solid
  <2>1. Extends(g, t, Transform(o, e)) /\ enc = g[Len(g)].enc /\ key = g[Len(g)].key
    BY <1>1 DEF WritesInner
  <2>2. /\ Writes(g, t, o, e, g[Len(g)].enc, g[Len(g)].key)
        /\ t # <<>> /\ t[Len(t)].solid
        /\ t[Len(t)].enc = g[Len(g)].enc /\ t[Len(t)].key = g[Len(g)].key
    BY <1>1, <2>1, WriteBlock
  <2> QED
    BY <2>1, <2>2
<1>2. CASE ~o.keep_solid
  <2> DEFINE new == Transform(o, e)
             w == InnerItems(new)
  <2>1. t = g \o w /\ enc = "none" /\ key = "none"
    BY <1>2 DEF WritesInner
  <2>2. new \in Seq(Entry)
    BY OutcomeFacts
  <2> HIDE DEF new
  <2>3. ASSUME NEW k \in DOMAIN new
        PROVE  /\ NormalItem(new[k]) \in Items /\ NormalItem(new[k]).entries = <<new[k]>>
               /\ NormalItem(new[k]).enc = "none" /\ NormalItem(new[k]).key = "none"
    <3>1. new[k] \in Entry
      BY <2>2
    <3> QED
      BY <3>1, NormalItemFacts
  <2>4. /\ w \in Seq(Items) /\ Len(w) = Len(new)
        /\ \A k \in 1..Len(w) : w[k].entries = <<new[k]>> /\ w[k].enc = "none" /\ w[k].key = "none"
    BY <2>2, <2>3 DEF InnerItems
  <2> HIDE DEF w
  <2>5. Writes(g, g \o w, o, e, "none", "none")
    BY <2>4, WriteItem DEF new
  <2> QED
    BY <1>2, <2>1, <2>5
<1> QED
  BY <1>1, <1>2

LEMMA ReadInnerGoes ==
  ASSUME TypeInv, WorkInv, NEW c \in Commands, ReadInner(c)
  PROVE  Goes(c) /\ Reads(c) /\ (Protects(c) => Protects(c)')
<1> DEFINE o == op[c]
           s == source[c]
           a == at[c]
           i == inner[c]
           g == staged[c]
           e == i[1]
           new == Transform(o, e)
           w == [k \in DOMAIN new |-> NormalItem(new[k])]
           grown == [g EXCEPT ![Len(g)].entries = @ \o new]
           t == IF o.keep_solid THEN grown ELSE g \o w
           m == matched[c] \cup MatchedBy(o, e)
           enc == IF o.keep_solid THEN g[Len(g)].enc ELSE "none"
           key == IF o.keep_solid THEN g[Len(g)].key ELSE "none"
<1>1. /\ step[c] = "block" /\ i # <<>>
      /\ staged' = [staged EXCEPT ![c] = t] /\ matched' = [matched EXCEPT ![c] = m]
      /\ inner' = [inner EXCEPT ![c] = Tail(i)]
      /\ UNCHANGED <<archive, op, step, source, at, first>>
  BY DEF ReadInner
<1>2. o \in CommandLines /\ Works(c)
  BY DEF TypeInv, WorkInv
<1>3. CommandInv("block", o, s, a, i, g, matched[c])
  BY <1>1, <1>2 DEF Works
<1>4. Sound(g) /\ i \in Seq(Entry) /\ (o.keep_solid => g # <<>> /\ g[Len(g)].solid)
  BY <1>3 DEF CommandInv, Working, Fits
<1>5. e \in Entry /\ Tail(i) \in Seq(Entry)
  <2>1. i \in Seq(Entry) /\ i # <<>>
    BY <1>1, <1>4
  <2> QED
    BY <2>1
<1>6. /\ Writes(g, t, o, e, enc, key)
      /\ o.keep_solid => /\ t # <<>> /\ t[Len(t)].solid
                         /\ t[Len(t)].enc = enc /\ t[Len(t)].key = key
  <2>1. WritesInner(g, t, o, Transform(o, e))
    BY DEF WritesInner, InnerItems, Extends
  <2>2. /\ enc = (IF o.keep_solid THEN g[Len(g)].enc ELSE "none")
        /\ key = (IF o.keep_solid THEN g[Len(g)].key ELSE "none")
    OBVIOUS
  <2> HIDE DEF o, g, e, t, enc, key
  <2> QED
    BY <1>2, <1>4, <1>5, <2>1, <2>2, WriteInner
<1>7. o.keep_solid => enc = g[Len(g)].enc /\ key = g[Len(g)].key
  OBVIOUS
<1> HIDE DEF o, s, a, i, g, t, m, enc, key, new, w, grown
<1>8. CommandInv("block", o, s, a, Tail(i), t, matched[c] \cup MatchedBy(o, i[1]))
  BY <1>1, <1>2, <1>3, <1>6, InnerRead
<1>9. t \in Seq(Items)
  BY <1>6 DEF Writes, Sound
<1>10. /\ staged'[c] = t /\ matched'[c] = m /\ inner'[c] = Tail(i)
      /\ \A d \in Commands \ {c} :
           staged'[d] = staged[d] /\ matched'[d] = matched[d] /\ inner'[d] = inner[d]
  BY <1>1 DEF TypeInv
<1>11. Frame(c) /\ Reads(c)
  BY <1>1, <1>10 DEF Frame, Reads
<1>12. TypeInv'
  BY <1>1, <1>5, <1>9 DEF TypeInv
<1>13. Works(c)'
  BY <1>1, <1>8, <1>10 DEF Works, o, s, a, m
<1>14. ASSUME Protects(c) PROVE Protects(c)'
  <2>1. KeepsAlike(first, "block", o, s, a, i, g)
    BY <1>1, <1>14 DEF Protects, o, s, a, i, g
  <2>2. KeepsAlike(first, "block", o, s, a, Tail(i), t)
    BY <1>1, <1>2, <1>3, <1>6, <1>7, <2>1, InnerProtected
  <2> QED
    BY <1>1, <1>10, <2>2 DEF Protects, o, s, a
<1> QED
  BY <1>11, <1>12, <1>13, <1>14 DEF Goes

LEMMA CloseBlockGoes ==
  ASSUME TypeInv, WorkInv, NEW c \in Commands, CloseBlock(c)
  PROVE  Goes(c) /\ Reads(c) /\ (Protects(c) => Protects(c)')
<1> DEFINE o == op[c]
           s == source[c]
           a == at[c]
           i == inner[c]
           g == staged[c]
           m == matched[c]
<1>1. /\ step[c] = "block" /\ i = <<>>
      /\ at' = [at EXCEPT ![c] = a + 1] /\ step' = [step EXCEPT ![c] = "item"]
      /\ UNCHANGED <<archive, op, source, inner, staged, matched, first>>
  BY DEF CloseBlock, Goto
<1>2. CommandInv("block", o, s, a, i, g, m) /\ a \in Nat
  BY <1>1 DEF TypeInv, WorkInv, Works
<1>3. /\ at'[c] = a + 1 /\ step'[c] = "item"
      /\ \A d \in Commands \ {c} : at'[d] = at[d] /\ step'[d] = step[d]
  BY <1>1 DEF TypeInv
<1>4. Frame(c) /\ Reads(c)
  BY <1>1, <1>3 DEF Frame, Reads, Working
<1>5. TypeInv'
  BY <1>1, <1>2 DEF TypeInv, States
<1> HIDE DEF o, s, a, i, g, m
<1>6. CommandInv("item", o, s, a + 1, i, g, m)
  BY <1>1, <1>2, BlockClosed
<1>7. Works(c)'
  BY <1>1, <1>3, <1>6 DEF Works, o, s, i, g, m
<1>8. Protects(c) => Protects(c)'
  <2>1. KeepsAlike(first, "block", o, s, a, i, g) => KeepsAlike(first, "item", o, s, a + 1, i, g)
    BY DEF KeepsAlike, Working
  <2> QED
    BY <1>1, <1>3, <2>1 DEF Protects, o, s, a, i, g
<1> QED
  BY <1>4, <1>5, <1>7, <1>8 DEF Goes

\* A command that gives up.
LEMMA Ends ==
  ASSUME TypeInv, WorkInv, NEW c \in Commands, step[c] \notin {"done"},
         NEW st \in {"failed", "panicked"}, step' = [step EXCEPT ![c] = st],
         UNCHANGED <<archive, op, source, at, inner, staged, matched, first>>
  PROVE  Goes(c) /\ Reads(c) /\ (Protects(c) => Protects(c)')
<1>1. step'[c] = st /\ ~Working(st) /\ st # "open" /\ st # "done" /\ st # "commit"
      /\ \A d \in Commands \ {c} : step'[d] = step[d]
  BY DEF TypeInv, Working
<1>2. Frame(c) /\ Reads(c)
  BY <1>1 DEF Frame, Reads
<1>3. TypeInv'
  <2>1. st \in States
    BY DEF States
  <2> QED
    BY <2>1 DEF TypeInv
<1>4. Works(c)'
  BY <1>1 DEF Works, CommandInv
<1>5. Protects(c)'
  BY <1>1 DEF Protects, KeepsAlike
<1> QED
  BY <1>2, <1>3, <1>4, <1>5 DEF Goes

LEMMA CheckGoes ==
  ASSUME TypeInv, WorkInv, NEW c \in Commands, Check(c)
  PROVE  Goes(c) /\ Reads(c) /\ (Protects(c) => Protects(c)')
<1>1. /\ step[c] = "item" /\ at[c] > Len(source[c])
      /\ step' = [step EXCEPT ![c] = IF AllMatched(c) THEN "commit" ELSE "failed"]
      /\ UNCHANGED <<archive, op, source, at, inner, staged, matched, first>>
  BY DEF Check, Goto
<1>2. CASE ~AllMatched(c)
  <2>1. step' = [step EXCEPT ![c] = "failed"] /\ step[c] \notin {"done"}
    BY <1>1, <1>2
  <2> QED
    BY <1>1, <2>1, Ends
<1>3. CASE AllMatched(c)
  <2>1. step' = [step EXCEPT ![c] = "commit"]
    BY <1>1, <1>3
  <2>2. step'[c] = "commit" /\ \A d \in Commands \ {c} : step'[d] = step[d]
    BY <2>1 DEF TypeInv
  <2>3. Frame(c) /\ Reads(c)
    BY <1>1, <2>2 DEF Frame, Reads, Working
  <2>4. TypeInv'
    BY <1>1, <2>1 DEF TypeInv, States
  <2>5. CommandInv("item", op[c], source[c], at[c], inner[c], staged[c], matched[c])
    BY <1>1 DEF WorkInv, Works
  <2>6. CommandInv("commit", op[c], source[c], at[c], inner[c], staged[c], matched[c])
    <3>1. matched[c] = DOMAIN op[c].patterns /\ at[c] > Len(source[c])
      BY <1>1, <1>3 DEF AllMatched
    <3> QED
      BY <2>5, <3>1, AllChecked
  <2>7. Works(c)'
    BY <1>1, <2>2, <2>6 DEF Works
  <2>8. Protects(c) => Protects(c)'
    BY <1>1, <2>2 DEF Protects, KeepsAlike, Working
  <2> QED
    BY <2>3, <2>4, <2>7, <2>8 DEF Goes
<1> QED
  BY <1>2, <1>3

LEMMA CommitGoes ==
  ASSUME TypeInv, WorkInv, NEW c \in Commands, Commit(c)
  PROVE  /\ Goes(c) /\ Protects(c)'
         /\ step[c] = "commit" /\ step'[c] = "done" /\ archive' = staged[c] /\ source' = source
<1>1. /\ step[c] = "commit" /\ archive' = staged[c] /\ step' = [step EXCEPT ![c] = "done"]
      /\ UNCHANGED <<op, source, at, inner, staged, matched, first>>
  BY DEF Commit, Goto
<1>2. step'[c] = "done" /\ \A d \in Commands \ {c} : step'[d] = step[d]
  BY <1>1 DEF TypeInv
<1>3. Frame(c)
  BY <1>1, <1>2 DEF Frame
<1>4. Sound(archive')
  <2>1. CommandInv("commit", op[c], source[c], at[c], inner[c], staged[c], matched[c])
    BY <1>1 DEF WorkInv, Works
  <2>2. Sound(staged[c])
    BY <2>1, AllRead
  <2> QED
    BY <1>1, <2>2
<1>5. TypeInv'
  BY <1>1, <1>4 DEF TypeInv, States
<1>6. Works(c)'
  BY <1>2 DEF Works, CommandInv, Working
<1>7. Protects(c)'
  BY <1>2 DEF Protects, KeepsAlike, Working
<1> QED
  BY <1>1, <1>2, <1>3, <1>5, <1>6, <1>7 DEF Goes

\* A step opens the archive, commits, or neither.
LEMMA EachStep ==
  ASSUME TypeInv, WorkInv, RewriteNext
  PROVE  \E c \in Commands :
           /\ Goes(c)
           /\ \/ Open(c)
              \/ Commit(c)
              \/ Reads(c) /\ (Protects(c) => Protects(c)')
<1>1. PICK c \in Commands :
        \/ Open(c) \/ ReadNormal(c) \/ OpenBlock(c) \/ OpenBlockFails(c) \/ OpenBlockPanics(c)
        \/ ReadInner(c) \/ CloseBlock(c) \/ Check(c) \/ Commit(c) \/ Fails(c)
  BY DEF RewriteNext
<1>2. CASE Open(c)
  BY <1>2, OpenGoes
<1>3. CASE ReadNormal(c)
  BY <1>3, ReadNormalGoes
<1>4. CASE OpenBlock(c)
  BY <1>4, OpenBlockGoes
<1>5. CASE OpenBlockFails(c)
  <2>1. step[c] \notin {"done"} /\ step' = [step EXCEPT ![c] = "failed"]
        /\ UNCHANGED <<archive, op, source, at, inner, staged, matched, first>>
    BY <1>5 DEF OpenBlockFails, More, Goto
  <2> QED
    BY <2>1, Ends
<1>6. CASE OpenBlockPanics(c)
  <2>1. step[c] \notin {"done"} /\ step' = [step EXCEPT ![c] = "panicked"]
        /\ UNCHANGED <<archive, op, source, at, inner, staged, matched, first>>
    BY <1>6 DEF OpenBlockPanics, More, Goto
  <2> QED
    BY <2>1, Ends
<1>7. CASE ReadInner(c)
  BY <1>7, ReadInnerGoes
<1>8. CASE CloseBlock(c)
  BY <1>8, CloseBlockGoes
<1>9. CASE Check(c)
  BY <1>9, CheckGoes
<1>10. CASE Commit(c)
  BY <1>10, CommitGoes
<1>11. CASE Fails(c)
  <2>1. step[c] \notin {"done"} /\ step' = [step EXCEPT ![c] = "failed"]
        /\ UNCHANGED <<archive, op, source, at, inner, staged, matched, first>>
    BY <1>11 DEF Fails, Goto
  <2> QED
    BY <2>1, Ends
<1> QED
  BY <1>1, <1>2, <1>3, <1>4, <1>5, <1>6, <1>7, <1>8, <1>9, <1>10, <1>11

-----------------------------------------------------------------------------
(* The archive that a command leaves                                       *)

LEMMA FrameKeeps ==
  ASSUME NEW c \in Commands, Frame(c), NEW d \in Commands \ {c}
  PROVE  (Works(d) => Works(d)') /\ (Protects(d) => Protects(d)')
  BY DEF Frame, Works, Protects

\* What is lost stays lost; and if every command keeps its blocks, it did so before.
LEMMA FrameLoses ==
  ASSUME NEW c \in Commands, Frame(c)
  PROVE  (\A e : Lost(e) => Lost(e)') /\ (KeptSolid' => KeptSolid)
<1>1. ASSUME NEW e, Lost(e) PROVE Lost(e)'
  <2>1. PICK d \in Commands : LostTo(d, e)
    BY <1>1 DEF Lost
  <2>2. d # c
    BY <2>1 DEF Frame, LostTo
  <2>3. step'[d] = step[d] /\ source'[d] = source[d] /\ op' = op
    BY <2>2 DEF Frame
  <2>4. LostTo(d, e)'
    BY <2>1, <2>3 DEF LostTo
  <2> QED
    BY <2>4 DEF Lost
<1>2. ASSUME KeptSolid' PROVE KeptSolid
  <2> SUFFICES ASSUME NEW d \in Commands, step[d] = "done" PROVE op[d].keep_solid
    BY DEF KeptSolid
  <2>1. d # c
    BY DEF Frame
  <2>2. step'[d] = "done" /\ op' = op
    BY <2>1 DEF Frame
  <2> QED
    BY <1>2, <2>2 DEF KeptSolid
<1> QED
  BY <1>1, <1>2

LEMMA UniqueIds ==
  ASSUME NEW a, IsArchive(a), NEW x \in ToSet(Entries(a)), NEW y \in ToSet(Entries(a)), x.id = y.id
  PROVE  x = y
<1>1. a \in Seq(Items)
  BY DEF IsArchive
<1>2. PICK j \in DOMAIN a : x \in ToSet(a[j].entries)
  BY <1>1, EntriesFacts
<1>3. PICK k \in DOMAIN a : y \in ToSet(a[k].entries)
  BY <1>1, EntriesFacts
<1>4. PICK p \in DOMAIN a[j].entries : x = a[j].entries[p]
  BY <1>2 DEF ToSet
<1>5. PICK q \in DOMAIN a[k].entries : y = a[k].entries[q]
  BY <1>3 DEF ToSet
<1>6. j = k /\ p = q
  BY <1>4, <1>5 DEF IsArchive
<1> QED
  BY <1>4, <1>5, <1>6

\* Each entry of a command's outcome was made of one of the archive it read.
LEMMA CommitKnown ==
  ASSUME NEW o \in CommandLines, NEW s, NEW a, NEW i, NEW g, NEW m, NEW f,
         CommandInv("commit", o, s, a, i, g, m), Known(f, s)
  PROVE  Known(f, g)
<1>1. /\ s \in Seq(Items) /\ Readable(s, o) \in Seq(Entry)
      /\ Entries(g) = Outcomes(o, Readable(s, o))
      /\ \A x : x \in ToSet(Readable(s, o)) <=> \E k \in DOMAIN s : x \in ToSet(Part(s[k], o))
  BY AllRead DEF Sound
<1> SUFFICES ASSUME NEW x \in ToSet(Entries(g))
             PROVE  \E e \in ToSet(Entries(f)) : e.id = x.id /\ e.name = x.name
  BY DEF Known
<1>2. PICK y \in ToSet(Readable(s, o)) : x \in ToSet(Outcome(o, y))
  <2> DEFINE r == Readable(s, o)
  <2>1. CASE r = <<>>
    <3>1. [k \in DOMAIN <<>> |-> Outcome(o, <<>>[k])] = <<>>
      OBVIOUS
    <3>2. Outcomes(o, <<>>) = <<>>
      BY <3>1, FlattenEmpty DEF Outcomes
    <3> QED
      BY <1>1, <2>1, <3>2 DEF ToSet
  <2>2. CASE r # <<>>
    <3> HIDE DEF r
    <3>1. r \in Seq(Entry)
      BY <1>1 DEF r
    <3>2. r[1] \in Entry
      BY <2>2, <3>1
    <3>3. \A z : z \in ToSet(Outcomes(o, r)) <=> \E y \in ToSet(r) : z \in ToSet(Outcome(o, y))
      BY <3>1, <3>2, OutcomesAppend
    <3> QED
      BY <1>1, <3>3 DEF r
  <2> QED
    BY <2>1, <2>2
<1>3. PICK k \in DOMAIN s : y \in ToSet(Part(s[k], o))
  BY <1>1, <1>2
<1>4. y \in ToSet(s[k].entries)
  BY <1>3 DEF Part, ToSet
<1>5. y \in ToSet(Entries(s))
  BY <1>1, <1>4, EntriesFacts
<1>6. y \in Entry
  <2>1. ToSet(Readable(s, o)) = Range(Readable(s, o))
    BY DEF ToSet, Range
  <2>2. \A q \in Seq(Entry) : Range(q) \subseteq Entry
    BY DEF Range
  <2> QED
    BY <1>1, <1>2, <2>1, <2>2
<1>7. x.id = y.id /\ x.name = y.name
  <2>1. ToSet(<<>>) = {} /\ \A z : ToSet(<<z>>) = {z}
    BY DEF ToSet
  <2>2. ~Deletes(o, y)
    BY <1>2, <1>6, <2>1, OutcomeFacts
  <2>3. PICK z \in Entry : Outcome(o, y) = <<z>> /\ z.id = y.id /\ z.name = y.name
    BY <1>6, <2>2, OutcomeFacts
  <2> QED
    BY <1>2, <2>1, <2>3
<1> QED
  BY <1>5, <1>7 DEF Known

\* And what is not in the outcome was deleted, or could not be read.
LEMMA CommitLoses ==
  ASSUME NEW o \in CommandLines, NEW s, NEW a, NEW i, NEW g, NEW m,
         CommandInv("commit", o, s, a, i, g, m), NEW n \in Ids(s)
  PROVE  \/ n \in Ids(g)
         \/ \E k \in DOMAIN s : Garbled(s[k], o)
         \/ \E y \in ToSet(Entries(s)) : y.id = n /\ Deletes(o, y)
<1>1. /\ s \in Seq(Items) /\ Readable(s, o) \in Seq(Entry)
      /\ Entries(g) = Outcomes(o, Readable(s, o))
      /\ \A x : x \in ToSet(Readable(s, o)) <=> \E k \in DOMAIN s : x \in ToSet(Part(s[k], o))
  BY AllRead DEF Sound
<1>2. PICK y \in ToSet(Entries(s)) : y.id = n
  BY DEF Ids
<1>3. PICK k \in DOMAIN s : y \in ToSet(s[k].entries)
  BY <1>1, EntriesFacts
<1>4. SUFFICES ASSUME ~Garbled(s[k], o), ~Deletes(o, y) PROVE n \in Ids(g)
  BY <1>2, <1>3
<1>5. y \in ToSet(Readable(s, o))
  BY <1>1, <1>3, <1>4 DEF Part
<1>6. y \in Entry
  <2>1. ToSet(Readable(s, o)) = Range(Readable(s, o))
    BY DEF ToSet, Range
  <2>2. \A q \in Seq(Entry) : Range(q) \subseteq Entry
    BY DEF Range
  <2> QED
    BY <1>1, <1>5, <2>1, <2>2
<1>7. PICK z \in Entry : Outcome(o, y) = <<z>> /\ z.id = y.id
  BY <1>4, <1>6, OutcomeFacts
<1>8. z \in ToSet(Outcome(o, y))
  BY <1>7 DEF ToSet
<1>9. z \in ToSet(Entries(g))
  BY <1>1, <1>5, <1>8, OutcomesAppend
<1> QED
  BY <1>2, <1>7, <1>9 DEF Ids

LEMMA SameNameDeleted ==
  ASSUME NEW o, NEW x, NEW y, x.name = y.name, Deletes(o, x) PROVE Deletes(o, y)
  BY DEF Deletes, Selected, MatchedBy

-----------------------------------------------------------------------------
(* The invariant is kept                                                   *)

LEMMA KnownKept ==
  ASSUME RewriteInv, NEW c \in Commands, Goes(c), Open(c) \/ Commit(c) \/ Reads(c)
  PROVE  KnownInv'
<1>1. TypeInv /\ WorkInv /\ first' = first
      /\ \A d \in Commands \ {c} : step'[d] = step[d] /\ source'[d] = source[d]
  BY DEF RewriteInv, Goes, Frame
<1>2. Known(first, archive) /\ \A d \in Commands : Working(step[d]) => Known(first, source[d])
  BY DEF RewriteInv, KnownInv
<1>3. \A d \in Commands \ {c} : Working(step'[d]) => Known(first, source'[d])
  BY <1>1, <1>2
<1>4. Known(first, archive') /\ (Working(step'[c]) => Known(first, source'[c]))
  <2>1. CASE Open(c)
    <3>1. archive' = archive /\ source'[c] = archive
      BY <1>1, <2>1, OpenGoes
    <3> QED
      BY <1>2, <3>1
  <2>2. CASE Commit(c)
    <3>1. step[c] = "commit" /\ step'[c] = "done" /\ archive' = staged[c]
      BY <1>1, <2>2, CommitGoes
    <3>2. CommandInv("commit", op[c], source[c], at[c], inner[c], staged[c], matched[c])
          /\ op[c] \in CommandLines /\ Known(first, source[c])
      BY <1>1, <1>2, <3>1 DEF WorkInv, Works, TypeInv, Working
    <3>3. Known(first, staged[c])
      BY <3>2, CommitKnown
    <3> QED
      BY <3>1, <3>3 DEF Working
  <2>3. CASE Reads(c)
    BY <1>2, <2>3 DEF Reads
  <2> QED
    BY <2>1, <2>2, <2>3
<1>5. \A d \in Commands : Working(step'[d]) => Known(first, source'[d])
  BY <1>3, <1>4
<1> QED
  BY <1>1, <1>4, <1>5 DEF KnownInv

LEMMA StayKept ==
  ASSUME RewriteInv, NEW c \in Commands, Goes(c), Open(c) \/ Commit(c) \/ Reads(c)
  PROVE  StayInv'
<1>1. TypeInv /\ WorkInv /\ Frame(c) /\ first' = first /\ op' = op
      /\ \A d \in Commands \ {c} : step'[d] = step[d] /\ source'[d] = source[d]
  BY DEF RewriteInv, Goes, Frame
<1>2. SUFFICES ASSUME NEW e \in ToSet(Entries(first)), ~Lost(e)'
               PROVE  /\ e.id \in Ids(archive')
                      /\ \A d \in Commands : Working(step'[d]) => e.id \in Ids(source'[d])
  BY <1>1 DEF StayInv
<1>3. ~Lost(e)
  BY <1>1, <1>2, FrameLoses
<1>4. e.id \in Ids(archive) /\ \A d \in Commands : Working(step[d]) => e.id \in Ids(source[d])
  BY <1>3 DEF RewriteInv, StayInv
<1>5. \A d \in Commands \ {c} : Working(step'[d]) => e.id \in Ids(source'[d])
  BY <1>1, <1>4
<1>6. e.id \in Ids(archive') /\ (Working(step'[c]) => e.id \in Ids(source'[c]))
  <2>1. CASE Open(c)
    <3>1. archive' = archive /\ source'[c] = archive
      BY <1>1, <2>1, OpenGoes
    <3> QED
      BY <1>4, <3>1
  <2>2. CASE Commit(c)
    <3>1. step[c] = "commit" /\ step'[c] = "done" /\ archive' = staged[c] /\ source' = source
      BY <1>1, <2>2, CommitGoes
    <3>2. CommandInv("commit", op[c], source[c], at[c], inner[c], staged[c], matched[c])
          /\ op[c] \in CommandLines /\ e.id \in Ids(source[c]) /\ Known(first, source[c])
      BY <1>1, <1>4, <3>1 DEF WorkInv, Works, TypeInv, Working, RewriteInv, KnownInv
    <3>3. ~LostTo(c, e)'
      BY <1>2 DEF Lost
    <3>4. ~Deletes(op[c], e) /\ ~\E k \in DOMAIN source[c] : Garbled(source[c][k], op[c])
      BY <1>1, <3>1, <3>3 DEF LostTo
    <3>5. ASSUME NEW y \in ToSet(Entries(source[c])), y.id = e.id PROVE ~Deletes(op[c], y)
      <4>1. PICK x \in ToSet(Entries(first)) : x.id = y.id /\ x.name = y.name
        BY <3>2 DEF Known
      <4>2. IsArchive(first)
        BY <1>1 DEF TypeInv
      <4>3. x = e
        BY <3>5, <4>1, <4>2, UniqueIds
      <4> QED
        BY <3>4, <4>1, <4>3, SameNameDeleted
    <3>6. e.id \in Ids(staged[c])
      BY <3>2, <3>4, <3>5, CommitLoses
    <3> QED
      BY <3>1, <3>6 DEF Working
  <2>3. CASE Reads(c)
    BY <1>4, <2>3 DEF Reads
  <2> QED
    BY <2>1, <2>2, <2>3
<1> QED
  BY <1>5, <1>6

LEMMA AlikeKept ==
  ASSUME RewriteInv, NEW c \in Commands, Goes(c),
         Open(c) \/ Commit(c) \/ (Reads(c) /\ (Protects(c) => Protects(c)'))
  PROVE  AlikeInv'
<1>1. TypeInv /\ WorkInv /\ Frame(c) /\ first' = first /\ op' = op
  BY DEF RewriteInv, Goes, Frame
<1>2. SUFFICES ASSUME KeptSolid'
               PROVE  Faithful(first', archive') /\ \A d \in Commands : Protects(d)'
  BY DEF AlikeInv
<1>3. Faithful(first, archive) /\ \A d \in Commands : Protects(d)
  <2>1. KeptSolid
    BY <1>1, <1>2, FrameLoses
  <2> QED
    BY <2>1 DEF RewriteInv, AlikeInv
<1>4. \A d \in Commands \ {c} : Protects(d)'
  BY <1>1, <1>3, FrameKeeps
<1>5. Faithful(first, archive') /\ Protects(c)'
  <2>1. CASE Open(c)
    BY <1>1, <1>3, <2>1, OpenGoes
  <2>2. CASE Commit(c)
    <3>1. step[c] = "commit" /\ step'[c] = "done" /\ archive' = staged[c] /\ Protects(c)'
      BY <1>1, <2>2, CommitGoes
    <3>2. op[c].keep_solid
      BY <1>1, <1>2, <3>1 DEF KeptSolid
    <3>3. Faithful(first, staged[c])
      BY <1>3, <3>1, <3>2 DEF Protects, KeepsAlike, Working
    <3> QED
      BY <3>1, <3>3
  <2>3. CASE Reads(c) /\ (Protects(c) => Protects(c)')
    BY <1>3, <2>3 DEF Reads
  <2> QED
    BY <2>1, <2>2, <2>3
<1> QED
  BY <1>1, <1>4, <1>5

LEMMA InvStep == RewriteInv /\ [RewriteNext]_wvars => RewriteInv'
<1> SUFFICES ASSUME RewriteInv, [RewriteNext]_wvars PROVE RewriteInv'
  OBVIOUS
<1>1. CASE RewriteNext
  <2>1. TypeInv /\ WorkInv
    BY DEF RewriteInv
  <2>2. PICK c \in Commands :
          Goes(c) /\ (Open(c) \/ Commit(c) \/ (Reads(c) /\ (Protects(c) => Protects(c)')))
    BY <1>1, <2>1, EachStep
  <2>3. TypeInv'
    BY <2>2 DEF Goes
  <2>4. WorkInv'
    <3> SUFFICES ASSUME NEW d \in Commands PROVE Works(d)'
      BY DEF WorkInv
    <3>1. CASE d = c
      BY <2>2, <3>1 DEF Goes
    <3>2. CASE d # c
      BY <2>1, <2>2, <3>2, FrameKeeps DEF Goes, WorkInv
    <3> QED
      BY <3>1, <3>2
  <2>5. KnownInv'
    BY <2>2, KnownKept
  <2>6. StayInv'
    BY <2>2, StayKept
  <2>7. AlikeInv'
    BY <2>2, AlikeKept
  <2> QED
    BY <2>3, <2>4, <2>5, <2>6, <2>7 DEF RewriteInv
<1>2. CASE UNCHANGED wvars
  <2>1. UNCHANGED <<archive, op, step, source, at, inner, staged, matched, first>>
    BY <1>2 DEF wvars
  <2>2. TypeInv'
    BY <2>1 DEF RewriteInv, TypeInv
  <2>3. WorkInv'
    BY <2>1 DEF RewriteInv, WorkInv, Works
  <2>4. KnownInv'
    BY <2>1 DEF RewriteInv, KnownInv
  <2>5. StayInv'
    BY <2>1 DEF RewriteInv, StayInv, Lost, LostTo
  <2>6. AlikeInv'
    BY <2>1 DEF RewriteInv, AlikeInv, KeptSolid, Protects
  <2> QED
    BY <2>2, <2>3, <2>4, <2>5, <2>6 DEF RewriteInv
<1> QED
  BY <1>1, <1>2

LEMMA InitFaithful == ASSUME NEW a, IsArchive(a) PROVE Faithful(a, a)
<1> SUFFICES ASSUME NEW j \in DOMAIN a, NEW x \in ToSet(a[j].entries), NEW k \in DOMAIN a,
                    NEW e \in ToSet(a[k].entries), e.id = x.id
             PROVE  a[j].enc = a[k].enc /\ a[j].key = a[k].key
  BY DEF Faithful, Alike
<1>1. PICK p \in DOMAIN a[j].entries : x = a[j].entries[p]
  BY DEF ToSet
<1>2. PICK q \in DOMAIN a[k].entries : e = a[k].entries[q]
  BY DEF ToSet
<1>3. j = k
  BY <1>1, <1>2 DEF IsArchive
<1> QED
  BY <1>3

LEMMA InvInit == RewriteInit => RewriteInv
<1> SUFFICES ASSUME RewriteInit PROVE RewriteInv
  OBVIOUS
<1>1. /\ IsArchive(archive) /\ first = archive /\ op \in [Commands -> CommandLines]
      /\ step = [c \in Commands |-> "open"]
      /\ source = [c \in Commands |-> <<>>] /\ at = [c \in Commands |-> 1]
      /\ inner = [c \in Commands |-> <<>>] /\ staged = [c \in Commands |-> <<>>]
      /\ matched = [c \in Commands |-> {}]
  BY RewriteAssumption DEF RewriteInit
<1>2. \A c \in Commands :
        /\ step[c] = "open" /\ at[c] = 1 /\ inner[c] = <<>> /\ staged[c] = <<>> /\ matched[c] = {}
        /\ ~Working(step[c])
  BY <1>1 DEF Working
<1>3. TypeInv
  <2>1. Sound(archive)
    BY <1>1 DEF Sound, IsArchive
  <2>2. <<>> \in Seq(Items) /\ <<>> \in Seq(Entry) /\ 1 \in Nat
    OBVIOUS
  <2> QED
    BY <1>1, <2>1, <2>2 DEF TypeInv, States
<1>4. WorkInv
  BY <1>2 DEF WorkInv, Works, CommandInv
<1>5. KnownInv
  BY <1>1, <1>2 DEF KnownInv, Known
<1>6. StayInv
  BY <1>1, <1>2 DEF StayInv, Ids
<1>7. AlikeInv
  BY <1>1, <1>2, InitFaithful DEF AlikeInv, Protects, KeepsAlike
<1> QED
  BY <1>3, <1>4, <1>5, <1>6, <1>7 DEF RewriteInv

-----------------------------------------------------------------------------
(* The theorems                                                            *)

LEMMA OneItem ==
  ASSUME NEW x \in Items
  PROVE  \A n : n \in Ids(<<x>>) => \E e \in ToSet(x.entries) : e.id = n
<1> DEFINE s == <<x>>
<1>1. s \in Seq(Items) /\ DOMAIN s = {1} /\ s[1] = x
  OBVIOUS
<1> HIDE DEF s
<1>2. \A e : e \in ToSet(Entries(s)) <=> \E k \in DOMAIN s : e \in ToSet(s[k].entries)
  BY <1>1, EntriesFacts
<1>3. \A n : n \in Ids(s) => \E e \in ToSet(x.entries) : e.id = n
  BY <1>1, <1>2 DEF Ids
<1> QED
  BY <1>3 DEF s

LEMMA InvStays == RewriteInv => EntriesStay
<1> SUFFICES ASSUME RewriteInv PROVE EntriesStay
  OBVIOUS
<1>1. NothingVanishes
  BY DEF RewriteInv, StayInv, Lost, LostTo, NothingVanishes
<1>2. StaysEncrypted
  <2> SUFFICES ASSUME KeptSolid, NEW k \in DOMAIN first, first[k].enc # "none",
                      NEW j \in DOMAIN archive,
                      Ids(<<first[k]>>) \cap Ids(<<archive[j]>>) # {}
               PROVE  archive[j].enc = first[k].enc /\ archive[j].key = first[k].key
    BY DEF StaysEncrypted, KeptSolid
  <2>1. first \in Seq(Items) /\ archive \in Seq(Items)
    BY DEF RewriteInv, TypeInv, IsArchive, Sound
  <2>2. first[k] \in Items /\ archive[j] \in Items
    BY <2>1
  <2>3. PICK n : n \in Ids(<<first[k]>>) /\ n \in Ids(<<archive[j]>>)
    OBVIOUS
  <2>4. PICK e \in ToSet(first[k].entries) : e.id = n
    BY <2>2, <2>3, OneItem
  <2>5. PICK x \in ToSet(archive[j].entries) : x.id = n
    BY <2>2, <2>3, OneItem
  <2>6. Alike(first, archive[j].enc, archive[j].key, x)
    BY DEF RewriteInv, AlikeInv, Faithful
  <2> QED
    BY <2>4, <2>5, <2>6 DEF Alike
<1> QED
  BY <1>1, <1>2 DEF EntriesStay

LEMMA StepTransforms == RewriteInv /\ [RewriteNext]_wvars => CommitStep
<1> SUFFICES ASSUME RewriteInv, RewriteNext, archive' # archive
             PROVE  \E c \in Commands :
                      LET old == Readable(source[c], op[c])
                      IN /\ step[c] # "done" /\ step'[c] = "done"
                         /\ Entries(archive') = Outcomes(op[c], old)
                         /\ \A k \in DOMAIN op[c].patterns :
                              \E e \in ToSet(old) : e.name \in op[c].patterns[k]
  BY DEF CommitStep, wvars
<1>1. TypeInv /\ WorkInv
  BY DEF RewriteInv
<1>2. PICK c \in Commands : Open(c) \/ Commit(c) \/ Reads(c)
  BY <1>1, EachStep
<1>3. Commit(c)
  BY <1>1, <1>2, OpenGoes DEF Reads
<1>4. step[c] = "commit" /\ step'[c] = "done" /\ archive' = staged[c]
  BY <1>1, <1>3, CommitGoes
<1>5. CommandInv("commit", op[c], source[c], at[c], inner[c], staged[c], matched[c])
  BY <1>1, <1>4 DEF WorkInv, Works
<1> DEFINE old == Readable(source[c], op[c])
<1>6. Entries(staged[c]) = Outcomes(op[c], old) /\ DOMAIN op[c].patterns = Named(op[c], old)
  BY <1>5, AllRead
<1>7. \A k \in DOMAIN op[c].patterns : \E e \in ToSet(old) : e.name \in op[c].patterns[k]
  BY <1>6 DEF Named
<1> QED
  BY <1>4, <1>6, <1>7

\* No entry is lost but by a delete command that names it or a wrong password
\* for a cipher that cannot tell, and what was encrypted stays so, whatever
\* commands run at once on the archive and whichever of them fail: the staged
\* file of execute_archive_transform never holds less than was read.
THEOREM RewritesKeepEntries == RewriteSpec => []EntriesStay
<1>1. RewriteInit => RewriteInv
  BY InvInit
<1>2. RewriteInv /\ [RewriteNext]_wvars => RewriteInv'
  BY InvStep
<1>3. RewriteInv => EntriesStay
  BY InvStays
<1> QED
  BY <1>1, <1>2, <1>3, PTL DEF RewriteSpec

\* Whatever replaces the archive is what one command makes of every readable
\* entry of a whole archive, in order, and each of its patterns names one of
\* them (ensure_all_matched before persist).
THEOREM RewritesAreTransforms == RewriteSpec => CommitIsTransform
<1>1. RewriteInit => RewriteInv
  BY InvInit
<1>2. RewriteInv /\ [RewriteNext]_wvars => RewriteInv'
  BY InvStep
<1>3. RewriteInv /\ [RewriteNext]_wvars => CommitStep
  BY StepTransforms
<1>4. RewriteInv /\ [RewriteNext]_wvars => [CommitStep]_wvars
  BY <1>3
<1> QED
  BY <1>1, <1>2, <1>4, PTL DEF RewriteSpec, CommitIsTransform
=============================================================================
