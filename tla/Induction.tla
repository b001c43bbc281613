------------------------------- MODULE Induction -------------------------------
(***************************************************************************)
(* Induction over the natural numbers, for sets: the proofs of this        *)
(* project use it for what a recursive function computes and for the       *)
(* minimum of a set.  And what FlattenSeq makes of a sequence of sequences. *)
(***************************************************************************)
EXTENDS SequencesExt, SequenceTheorems, WellFoundedInduction, TLAPS

LEMMA LessRelation == \A x, y \in Nat : <<y, x>> \in OpToRel(<, Nat) <=> y < x
  BY DEF OpToRel

\* Every set of numbers with an element has a least one.
LEMMA LeastElement ==
  ASSUME NEW S, S \subseteq Nat, S # {}
  PROVE  \E x \in S : \A y \in S : x <= y
<1> DEFINE R == OpToRel(<, Nat)
<1>1. IsWellFoundedOn(R, Nat) /\ \A x, y \in Nat : <<y, x>> \in R <=> y < x
  BY NatLessThanWellFounded, LessRelation
<1> HIDE DEF R
<1>2. PICK x \in S : \A y \in S : ~(<<y, x>> \in R)
  BY <1>1, WFMin
<1>3. \A y \in S : ~(y < x) /\ y \in Nat /\ x \in Nat
  BY <1>1, <1>2
<1> QED
  BY <1>2, <1>3

\* A set that has 0, and with every number the one after it, has them all.
LEMMA SetInduction ==
  ASSUME NEW G, 0 \in G, \A n \in Nat : n \in G => n + 1 \in G
  PROVE  Nat \subseteq G
<1> DEFINE T == {n \in Nat : n \notin G}
<1> SUFFICES ASSUME T # {} PROVE FALSE
  OBVIOUS
<1>1. PICK m \in T : \A y \in T : m <= y
  BY LeastElement
<1>2. m # 0 /\ m - 1 \in Nat /\ m - 1 \notin T
  BY <1>1
<1> QED
  BY <1>1, <1>2

-----------------------------------------------------------------------------
(* FlattenSeq                                                              *)

\* g joins the elements of ss one after the other.
Joins(g, ss) == g = [i \in 1..Len(ss) |-> IF i = 1 THEN ss[i] ELSE g[i - 1] \o ss[i]]

LEMMA FlattenJoins ==
  ASSUME NEW ss, Len(ss) \in Nat \ {0}
  PROVE  FlattenSeq(ss) = (CHOOSE g : Joins(g, ss))[Len(ss)]
<1>1. Len(ss) # 0
  OBVIOUS
<1> QED
  BY <1>1 DEF FlattenSeq, Joins

\* Two of them are the same.
LEMMA JoinsUnique ==
  ASSUME NEW ss, Len(ss) \in Nat \ {0}, NEW g, NEW h, Joins(g, ss), Joins(h, ss)
  PROVE  g[Len(ss)] = h[Len(ss)]
<1> DEFINE m == Len(ss)
           S == {i \in Nat : i + 1 <= m => g[i + 1] = h[i + 1]}
<1>0. \A i \in 1..m : /\ g[i] = IF i = 1 THEN ss[i] ELSE g[i - 1] \o ss[i]
                      /\ h[i] = IF i = 1 THEN ss[i] ELSE h[i - 1] \o ss[i]
  BY DEF Joins
<1>1. 0 \in S
  <2>1. 1 \in 1..m
    OBVIOUS
  <2> QED
    BY <1>0, <2>1
<1>2. ASSUME NEW i \in Nat, i \in S PROVE i + 1 \in S
  <2> SUFFICES ASSUME i + 1 + 1 <= m PROVE g[i + 1 + 1] = h[i + 1 + 1]
    OBVIOUS
  <2>1. i + 1 + 1 \in 1..m /\ i + 1 + 1 # 1 /\ i + 1 + 1 - 1 = i + 1 /\ i + 1 <= m
    OBVIOUS
  <2>2. g[i + 1] = h[i + 1]
    BY <1>2, <2>1
  <2> QED
    BY <1>0, <2>1, <2>2
<1>3. m - 1 \in S
  <2> HIDE DEF S
  <2>1. Nat \subseteq S
    BY <1>1, <1>2, SetInduction
  <2> QED
    BY <2>1
<1> QED
  BY <1>3

LEMMA FlattenEmpty == FlattenSeq(<<>>) = <<>>
  BY DEF FlattenSeq

\* There is always one.
LEMMA JoinsExist ==
  ASSUME NEW T
  PROVE  \A n \in Nat : \A ss \in Seq(Seq(T)) : Len(ss) = n + 1 =>
           \E g : Joins(g, ss) /\ \A i \in 1..(n + 1) : g[i] \in Seq(T)
<1> DEFINE Good(n) == \A ss \in Seq(Seq(T)) : Len(ss) = n + 1 =>
                        \E g : Joins(g, ss) /\ \A i \in 1..(n + 1) : g[i] \in Seq(T)
           S == {n \in Nat : Good(n)}
<1>1. Good(0)
  <2> SUFFICES ASSUME NEW ss \in Seq(Seq(T)), Len(ss) = 1
               PROVE  \E g : Joins(g, ss) /\ \A i \in 1..1 : g[i] \in Seq(T)
    OBVIOUS
  <2> DEFINE g == [i \in 1..Len(ss) |-> ss[i]]
  <2>1. \A i \in 1..Len(ss) : i = 1 /\ g[i] = ss[i] /\ ss[i] \in Seq(T)
    <3>1. \A i \in 1..Len(ss) : i = 1
      OBVIOUS
    <3>2. \A i \in 1..Len(ss) : ss[i] \in Seq(T)
      BY ElementOfSeq
    <3> QED
      BY <3>1, <3>2
  <2>2. g = [i \in 1..Len(ss) |-> IF i = 1 THEN ss[i] ELSE g[i - 1] \o ss[i]]
    BY <2>1
  <2> HIDE DEF g
  <2>3. Joins(g, ss)
    BY <2>2 DEF Joins
  <2> QED
    BY <2>1, <2>3
<1>2. ASSUME NEW n \in Nat, Good(n) PROVE Good(n + 1)
  <2> SUFFICES ASSUME NEW ss \in Seq(Seq(T)), Len(ss) = n + 1 + 1
               PROVE  \E g : Joins(g, ss) /\ \A i \in 1..(n + 1 + 1) : g[i] \in Seq(T)
    OBVIOUS
  <2> DEFINE front == SubSeq(ss, 1, n + 1)
  <2>1. front \in Seq(Seq(T)) /\ Len(front) = n + 1 /\ \A i \in 1..(n + 1) : front[i] = ss[i]
    OBVIOUS
  <2> HIDE DEF front
  <2>2. PICK g : Joins(g, front) /\ \A i \in 1..(n + 1) : g[i] \in Seq(T)
    BY <1>2, <2>1
  <2>3. \A i \in 1..(n + 1) : g[i] = IF i = 1 THEN ss[i] ELSE g[i - 1] \o ss[i]
    BY <2>1, <2>2 DEF Joins
  <2> DEFINE h == [i \in 1..(n + 1 + 1) |-> IF i = n + 1 + 1 THEN g[n + 1] \o ss[i] ELSE g[i]]
  <2>4. ASSUME NEW i \in 1..(n + 1 + 1)
        PROVE  h[i] \in Seq(T) /\ h[i] = IF i = 1 THEN ss[i] ELSE h[i - 1] \o ss[i]
    <3>1. CASE i = n + 1 + 1
      <4>1. i # 1 /\ i - 1 = n + 1 /\ n + 1 \in 1..(n + 1 + 1) /\ n + 1 # n + 1 + 1
        BY <3>1
      <4>2. h[n + 1] = g[n + 1]
        BY <4>1
      <4>3. ss[i] \in Seq(T) /\ g[n + 1] \in Seq(T)
        BY <2>2
      <4>4. g[n + 1] \o ss[i] \in Seq(T)
        BY <4>3
      <4> QED
        BY <3>1, <4>1, <4>2, <4>4
    <3>2. CASE i # n + 1 + 1
      <4>1. i \in 1..(n + 1) /\ h[i] = g[i]
        BY <3>2
      <4>2. i # 1 => h[i - 1] = g[i - 1]
        BY <4>1
      <4> QED
        BY <2>2, <2>3, <4>1, <4>2
    <3> QED
      BY <3>1, <3>2
  <2>5. h = [i \in 1..Len(ss) |-> IF i = 1 THEN ss[i] ELSE h[i - 1] \o ss[i]]
    <3>1. h = [i \in 1..Len(ss) |-> h[i]]
      OBVIOUS
    <3> HIDE DEF h
    <3> QED
      BY <2>4, <3>1
  <2> HIDE DEF h
  <2>6. Joins(h, ss)
    BY <2>5 DEF Joins
  <2> QED
    BY <2>4, <2>6
<1> HIDE DEF Good
<1>3. Nat \subseteq S
  <2>1. 0 \in S /\ \A n \in Nat : n \in S => n + 1 \in S
    BY <1>1, <1>2
  <2> HIDE DEF S
  <2> QED
    BY <2>1, SetInduction
<1> QED
  BY <1>3 DEF Good

\* One more sequence comes at the end.
LEMMA FlattenAppend ==
  ASSUME NEW T, NEW ss \in Seq(Seq(T)), NEW x \in Seq(T)
  PROVE  /\ FlattenSeq(ss) \in Seq(T)
         /\ FlattenSeq(Append(ss, x)) = FlattenSeq(ss) \o x
<1> DEFINE tt == Append(ss, x)
           n == Len(ss)
<1>1. /\ tt \in Seq(Seq(T)) /\ Len(tt) = n + 1 /\ tt[n + 1] = x
      /\ \A i \in 1..n : tt[i] = ss[i]
      /\ n \in Nat
  OBVIOUS
<1> HIDE DEF tt
<1>2. PICK h : Joins(h, tt) /\ \A i \in 1..(n + 1) : h[i] \in Seq(T)
  BY <1>1, JoinsExist
<1> DEFINE u == CHOOSE g : Joins(g, tt)
<1>3. FlattenSeq(tt) = h[n + 1]
  <2>1. Joins(u, tt)
    BY <1>2
  <2>2. FlattenSeq(tt) = u[Len(tt)]
    BY <1>1, FlattenJoins
  <2> HIDE DEF u
  <2>3. u[Len(tt)] = h[Len(tt)]
    BY <1>1, <1>2, <2>1, JoinsUnique
  <2> QED
    BY <1>1, <2>2, <2>3
<1>4. \A i \in 1..(n + 1) : h[i] = IF i = 1 THEN tt[i] ELSE h[i - 1] \o tt[i]
  BY <1>1, <1>2 DEF Joins
<1>5. CASE n = 0
  <2>1. ss = <<>> /\ FlattenSeq(ss) = <<>>
    <3>1. ss = <<>>
      BY <1>5
    <3> QED
      BY <3>1, FlattenEmpty
  <2>2. h[n + 1] = x
    BY <1>1, <1>4, <1>5
  <2>3. <<>> \o x = x
    OBVIOUS
  <2> QED
    BY <1>3, <2>1, <2>2, <2>3, <<>> \in Seq(T) DEF tt
<1>6. CASE n # 0
  <2> DEFINE g == [i \in 1..n |-> h[i]]
             v == CHOOSE f : Joins(f, ss)
  <2>1. Joins(g, ss)
    <3>1. ASSUME NEW i \in 1..n
          PROVE  h[i] = IF i = 1 THEN ss[i] ELSE g[i - 1] \o ss[i]
      BY <1>1, <1>4
    <3>2. g = [i \in 1..Len(ss) |-> IF i = 1 THEN ss[i] ELSE g[i - 1] \o ss[i]]
      BY <3>1
    <3> HIDE DEF g
    <3> QED
      BY <3>2 DEF Joins
  <2>2. Joins(v, ss)
    BY <2>1
  <2>3. FlattenSeq(ss) = v[Len(ss)]
    BY <1>1, <1>6, FlattenJoins
  <2>4. g[n] = h[n] /\ h[n] \in Seq(T)
    BY <1>1, <1>2, <1>6
  <2> HIDE DEF g, v
  <2>5. v[Len(ss)] = g[Len(ss)]
    BY <1>1, <1>6, <2>1, <2>2, JoinsUnique
  <2>6. h[n + 1] = h[n] \o x
    <3>1. n \in Nat /\ n + 1 \in 1..(n + 1) /\ n + 1 # 1 /\ (n + 1) - 1 = n
      BY <1>1, <1>6
    <3> HIDE DEF n
    <3>2. h[n + 1] = h[(n + 1) - 1] \o tt[n + 1]
      BY <1>4, <3>1
    <3> QED
      BY <1>1, <3>1, <3>2
  <2> QED
    BY <1>3, <2>3, <2>4, <2>5, <2>6 DEF tt
<1> QED
  BY <1>5, <1>6

\* Nothing is added and nothing left out.
LEMMA FlattenElements ==
  ASSUME NEW T, NEW ss \in Seq(Seq(T))
  PROVE  \A x : x \in ToSet(FlattenSeq(ss)) <=> \E k \in DOMAIN ss : x \in ToSet(ss[k])
<1> DEFINE Good(n) == \A s \in Seq(Seq(T)) : Len(s) = n =>
                        \A x : x \in ToSet(FlattenSeq(s)) <=> \E k \in DOMAIN s : x \in ToSet(s[k])
           S == {n \in Nat : Good(n)}
<1>1. Good(0)
  <2> SUFFICES ASSUME NEW s \in Seq(Seq(T)), Len(s) = 0, NEW x
               PROVE  x \in ToSet(FlattenSeq(s)) <=> \E k \in DOMAIN s : x \in ToSet(s[k])
    OBVIOUS
  <2>1. s = <<>> /\ DOMAIN s = {}
    OBVIOUS
  <2>2. FlattenSeq(s) = <<>>
    BY <2>1, FlattenEmpty
  <2>3. ToSet(<<>>) = {}
    BY DEF ToSet
  <2> QED
    BY <2>1, <2>2, <2>3
<1>2. ASSUME NEW n \in Nat, Good(n) PROVE Good(n + 1)
  <2> SUFFICES ASSUME NEW s \in Seq(Seq(T)), Len(s) = n + 1, NEW x
               PROVE  x \in ToSet(FlattenSeq(s)) <=> \E k \in DOMAIN s : x \in ToSet(s[k])
    OBVIOUS
  <2> DEFINE f == SubSeq(s, 1, n)
             y == s[n + 1]
  <2>1. /\ f \in Seq(Seq(T)) /\ Len(f) = n /\ y \in Seq(T)
        /\ \A k \in 1..n : f[k] = s[k]
    OBVIOUS
  <2>2. s = Append(f, y)
    <3>1. Len(Append(f, y)) = n + 1 /\ Append(f, y) \in Seq(Seq(T))
      BY <2>1
    <3>2. \A k \in 1..(n + 1) : Append(f, y)[k] = s[k]
      BY <2>1
    <3> QED
      BY <3>1, <3>2, SeqEqual
  <2> HIDE DEF f
  <2>3. FlattenSeq(s) = FlattenSeq(f) \o y /\ FlattenSeq(f) \in Seq(T)
    BY <2>1, <2>2, FlattenAppend
  <2> DEFINE a == FlattenSeq(f)
             b == FlattenSeq(s)
  <2>4. x \in ToSet(a) <=> \E k \in DOMAIN f : x \in ToSet(f[k])
    BY <1>2, <2>1
  <2> HIDE DEF y
  <2>5. x \in ToSet(b) <=> x \in ToSet(a) \/ x \in ToSet(y)
    <3>1. b = a \o y /\ a \in Seq(T) /\ y \in Seq(T)
      BY <2>1, <2>3
    <3> HIDE DEF a, b
    <3>2. Range(b) = Range(a) \cup Range(y)
      BY <3>1, RangeConcatenation
    <3>3. \A s1 : ToSet(s1) = Range(s1)
      BY DEF ToSet, Range
    <3> QED
      BY <3>2, <3>3
  <2> HIDE DEF a, b
  <2>6. DOMAIN s = 1..(n + 1) /\ DOMAIN f = 1..n /\ s[n + 1] = y
    BY <2>1 DEF y
  <2>7. (\E k \in DOMAIN s : x \in ToSet(s[k])) <=> (\E k \in DOMAIN f : x \in ToSet(f[k])) \/ x \in ToSet(y)
    <3>1. \A k \in DOMAIN s : k \in DOMAIN f \/ k = n + 1
      BY <2>6
    <3>2. \A k \in DOMAIN f : k \in DOMAIN s /\ s[k] = f[k]
      BY <2>1, <2>6
    <3>3. n + 1 \in DOMAIN s
      BY <2>6
    <3> QED
      BY <2>6, <3>1, <3>2, <3>3
  <2> QED
    BY <2>4, <2>5, <2>7 DEF b
<1> HIDE DEF Good
<1>3. Nat \subseteq S
  <2>1. 0 \in S /\ \A n \in Nat : n \in S => n + 1 \in S
    BY <1>1, <1>2
  <2> HIDE DEF S
  <2> QED
    BY <2>1, SetInduction
<1> QED
  BY <1>3 DEF Good
=============================================================================
