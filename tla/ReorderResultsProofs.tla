-------------------------- MODULE ReorderResultsProofs --------------------------
(***************************************************************************)
(* Proofs about ReorderResults, for any number of results, any indices and *)
(* any order of arrival.                                                   *)
(*                                                                         *)
(* The invariant says that every result taken from the source is yielded   *)
(* or kept, that what is kept is expected later, and that until the source *)
(* ends everything before the index expected has been yielded: so a result *)
(* never comes too late.                                                   *)
(***************************************************************************)
EXTENDS ReorderResults, Induction

taken == Len(given) - Len(source)
Out == {yielded[j] : j \in DOMAIN yielded}
Kept == {buffer[i] : i \in DOMAIN buffer}

With(i, x) == [n \in DOMAIN buffer \cup {i} |-> IF n = i THEN x ELSE buffer[n]]

Types ==
  /\ given \in Seq(Nat) /\ source \in Seq(Nat \X Nat) /\ yielded \in Seq(Nat)
  /\ next \in Nat /\ exhausted \in BOOLEAN /\ DOMAIN buffer \subseteq Nat
SourceInv ==
  /\ Len(source) <= Len(given) /\ (exhausted => source = <<>>)
  /\ \A k \in 1..Len(source) : source[k] = <<given[taken + k], taken + k>>
KeptInv ==
  /\ Out \cup Kept = 1..taken
  /\ \A i \in DOMAIN buffer : given[buffer[i]] = i /\ next <= i
OutInv ==
  /\ \A j \in DOMAIN yielded : given[yielded[j]] < next
  /\ \A j, k \in DOMAIN yielded : j < k => given[yielded[j]] < given[yielded[k]]
  /\ ~exhausted => \A m \in 0..(next - 1) :
                     \E j \in DOMAIN yielded : given[yielded[j]] = m
OrderInv == Types /\ SourceInv /\ KeptInv /\ OutInv

Distinct == \A i, j \in DOMAIN given : given[i] = given[j] => i = j
ResultsInv == Distinct => OrderInv

\* The minimum that the iterator goes on with is one, and the least.
LEMMA LowestIsLeast ==
  ASSUME NEW S, S # {}, S \subseteq Nat
  PROVE  Lowest(S) \in S /\ \A y \in S : Lowest(S) <= y
<1>1. \E x \in S : \A y \in S : x <= y
  BY LeastElement
<1> QED
  BY <1>1 DEF Lowest, Min

\* What yielding one more item does to the sequence of those yielded.
LEMMA YieldEffect ==
  ASSUME yielded \in Seq(Nat), NEW x \in Nat, Yield(x)
  PROVE  /\ yielded' \in Seq(Nat) /\ next' = next + 1
         /\ Len(yielded') = Len(yielded) + 1 /\ Len(yielded) \in Nat
         /\ DOMAIN yielded = 1..Len(yielded) /\ DOMAIN yielded' = 1..Len(yielded')
         /\ \A j \in DOMAIN yielded : yielded'[j] = yielded[j]
         /\ yielded'[Len(yielded')] = x
         /\ Out' = Out \cup {x}
<1>1. /\ yielded' \in Seq(Nat) /\ next' = next + 1
      /\ Len(yielded') = Len(yielded) + 1 /\ Len(yielded) \in Nat
      /\ DOMAIN yielded = 1..Len(yielded) /\ DOMAIN yielded' = 1..Len(yielded')
      /\ \A j \in DOMAIN yielded : yielded'[j] = yielded[j]
      /\ yielded'[Len(yielded')] = x
  BY DEF Yield
<1>2. Out' = Out \cup {x}
  BY <1>1 DEF Out
<1> QED
  BY <1>1, <1>2

\* Items are positions of results that were taken.
LEMMA ItemsGiven ==
  ASSUME OrderInv
  PROVE  /\ taken \in Nat /\ 1..taken \subseteq DOMAIN given
         /\ \A j \in DOMAIN yielded : yielded[j] \in 1..taken
         /\ \A i \in DOMAIN buffer : buffer[i] \in 1..taken
<1>1. taken \in Nat /\ 1..taken \subseteq DOMAIN given
  BY DEF OrderInv, Types, SourceInv, taken
<1>2. \A j \in DOMAIN yielded : yielded[j] \in Out
  BY DEF Out
<1>3. \A i \in DOMAIN buffer : buffer[i] \in Kept
  BY DEF Kept
<1>4. Out \cup Kept = 1..taken
  BY DEF OrderInv, KeptInv
<1> QED
  BY <1>1, <1>2, <1>3, <1>4

\* The expected item is yielded: the order goes on, and there is no gap.
LEMMA OutGrows ==
  ASSUME OrderInv, UNCHANGED <<given, exhausted>>, NEW x \in DOMAIN given,
         given[x] = next, Yield(x)
  PROVE  OutInv'
<1>1. /\ x \in Nat /\ next \in Nat /\ Out \subseteq 1..taken
      /\ \A j \in DOMAIN given : given[j] \in Nat
  BY DEF OrderInv, Types, KeptInv
<1>2. /\ next' = next + 1
      /\ Len(yielded') = Len(yielded) + 1 /\ Len(yielded) \in Nat
      /\ DOMAIN yielded = 1..Len(yielded) /\ DOMAIN yielded' = 1..Len(yielded')
      /\ \A j \in DOMAIN yielded : yielded'[j] = yielded[j]
      /\ yielded'[Len(yielded')] = x
  BY <1>1, YieldEffect DEF OrderInv, Types
<1>3. \A j \in DOMAIN yielded : given[yielded[j]] \in Nat
  BY <1>1, ItemsGiven
<1>4. \A j \in DOMAIN yielded' : given[yielded'[j]] < next'
  BY <1>1, <1>2, <1>3 DEF OrderInv, OutInv
<1>5. \A j, k \in DOMAIN yielded' : j < k => given[yielded'[j]] < given[yielded'[k]]
  <2> SUFFICES ASSUME NEW j \in DOMAIN yielded', NEW k \in DOMAIN yielded', j < k
               PROVE  given[yielded'[j]] < given[yielded'[k]]
    OBVIOUS
  <2>1. j \in DOMAIN yielded
    BY <1>2
  <2>2. CASE k \in DOMAIN yielded
    BY <1>2, <2>1, <2>2 DEF OrderInv, OutInv
  <2>3. CASE k = Len(yielded')
    BY <1>2, <2>1, <2>3 DEF OrderInv, OutInv
  <2> QED
    BY <1>2, <2>2, <2>3
<1>6. ASSUME ~exhausted, NEW m \in 0..(next' - 1)
      PROVE  \E j \in DOMAIN yielded' : given[yielded'[j]] = m
  <2>1. CASE m = next
    BY <1>2, <2>1
  <2>2. CASE m # next
    <3>1. m \in 0..(next - 1)
      BY <1>1, <1>2, <1>6, <2>2
    <3> QED
      BY <1>2, <1>6, <3>1 DEF OrderInv, OutInv
  <2> QED
    BY <2>1, <2>2
<1> QED
  BY <1>4, <1>5, <1>6 DEF OutInv

LEMMA TakeKeeps == OrderInv /\ TakeBuffered /\ UNCHANGED given => OrderInv'
<1> SUFFICES ASSUME OrderInv, TakeBuffered, UNCHANGED given PROVE OrderInv'
  OBVIOUS
<1> DEFINE x == buffer[next]
<1>1. /\ next \in DOMAIN buffer /\ Yield(x) /\ UNCHANGED <<source, exhausted, given>>
      /\ buffer' = [i \in DOMAIN buffer \ {next} |-> buffer[i]]
  BY DEF TakeBuffered, Restrict
<1>2. x \in 1..taken /\ x \in DOMAIN given /\ given[x] = next /\ x \in Nat
  BY <1>1, ItemsGiven DEF OrderInv, KeptInv
<1> HIDE DEF x
<1>3. yielded' \in Seq(Nat) /\ next' = next + 1 /\ Out' = Out \cup {x}
  BY <1>1, <1>2, YieldEffect DEF OrderInv, Types
<1>4. DOMAIN buffer' = DOMAIN buffer \ {next} /\ \A i \in DOMAIN buffer' : buffer'[i] = buffer[i]
  BY <1>1
<1>5. Types' /\ SourceInv'
  BY <1>1, <1>3, <1>4 DEF OrderInv, Types, SourceInv, taken
<1>6. Kept = Kept' \cup {x}
  BY <1>1, <1>4 DEF Kept, x
<1>7. KeptInv'
  <2>1. Out' \cup Kept' = (1..taken)'
    BY <1>1, <1>3, <1>6 DEF OrderInv, KeptInv, taken
  <2>2. \A i \in DOMAIN buffer' : given'[buffer'[i]] = i /\ next' <= i
    BY <1>1, <1>3, <1>4 DEF OrderInv, KeptInv, Types
  <2> QED
    BY <2>1, <2>2 DEF KeptInv
<1>8. OutInv'
  BY <1>1, <1>2, OutGrows
<1> QED
  BY <1>5, <1>7, <1>8 DEF OrderInv

\* Over a gap: nothing that is kept is left behind.
LEMMA SkipKeeps == OrderInv /\ SkipGap /\ UNCHANGED given => OrderInv'
<1> SUFFICES ASSUME OrderInv, SkipGap, UNCHANGED given PROVE OrderInv'
  OBVIOUS
<1>1. /\ exhausted /\ next' = Lowest(DOMAIN buffer) /\ DOMAIN buffer # {}
      /\ UNCHANGED <<given, source, buffer, exhausted, yielded>>
  BY DEF SkipGap
<1>2. next' \in DOMAIN buffer /\ \A i \in DOMAIN buffer : next' <= i
  BY <1>1, LowestIsLeast DEF OrderInv, Types
<1>3. next' \in Nat /\ next \in Nat /\ next <= next'
  BY <1>2 DEF OrderInv, Types, KeptInv
<1>4. Types' /\ SourceInv'
  BY <1>1, <1>3 DEF OrderInv, Types, SourceInv, taken
<1>5. KeptInv'
  BY <1>1, <1>2 DEF OrderInv, KeptInv, Out, Kept, taken
<1>6. \A j \in DOMAIN yielded : given[yielded[j]] \in Nat
  BY ItemsGiven DEF OrderInv, Types
<1>7. OutInv'
  BY <1>1, <1>3, <1>6 DEF OrderInv, OutInv
<1> QED
  BY <1>4, <1>5, <1>7 DEF OrderInv

\* A result is taken from the source.
LEMMA PullKeeps == Distinct /\ OrderInv /\ Pull /\ UNCHANGED given => OrderInv'
<1> SUFFICES ASSUME Distinct, OrderInv, Pull, UNCHANGED given PROVE OrderInv'
  OBVIOUS
<1> DEFINE x == taken + 1
           i == given[x]
<1>1. /\ next \notin DOMAIN buffer /\ ~exhausted /\ source # <<>> /\ source' = Tail(source)
      /\ UNCHANGED <<exhausted, given>>
  BY DEF Pull
<1>2. /\ Len(source') = Len(source) - 1 /\ Len(source) \in Nat /\ Len(source) >= 1
      /\ \A k \in 1..Len(source') : source'[k] = source[k + 1]
      /\ source' \in Seq(Nat \X Nat)
  BY <1>1 DEF OrderInv, Types
<1>3. taken' = x /\ taken \in Nat /\ Len(given) \in Nat /\ x <= Len(given)
  BY <1>1, <1>2 DEF OrderInv, Types, SourceInv, taken
<1>4. x \in DOMAIN given /\ i \in Nat /\ x \in Nat
  BY <1>3 DEF OrderInv, Types
<1>5. source[1] = <<i, x>>
  BY <1>2 DEF OrderInv, SourceInv
<1>6. SourceInv'
  <2>1. \A k \in 1..Len(source') : source'[k] = <<given[taken + (k + 1)], taken + (k + 1)>>
    <3>1. \A k \in 1..Len(source') : source'[k] = source[k + 1] /\ k + 1 \in 1..Len(source)
      BY <1>2
    <3>2. \A n \in 1..Len(source) : source[n] = <<given[taken + n], taken + n>>
      BY DEF OrderInv, SourceInv
    <3> QED
      BY <3>1, <3>2
  <2>2. \A k \in 1..Len(source') : taken + (k + 1) = taken' + k
    BY <1>2, <1>3
  <2>3. Len(source') <= Len(given)
    BY <1>2, <1>3 DEF OrderInv, SourceInv
  <2> QED
    BY <1>1, <2>1, <2>2, <2>3 DEF SourceInv
<1>7. \/ i = next /\ Yield(x) /\ UNCHANGED buffer
      \/ i # next /\ buffer' = With(i, x) /\ UNCHANGED <<next, yielded>>
  BY <1>5 DEF Pull, Expected, With
<1>8. (1..taken)' = (1..taken) \cup {x}
  BY <1>3
<1> HIDE DEF x, i
<1>9. \A y \in 1..taken : given[y] # i
  <2>1. \A y \in 1..taken : y \in DOMAIN given /\ y # x
    BY <1>3, ItemsGiven DEF x
  <2> QED
    BY <1>4, <2>1 DEF Distinct, i
<1>10. CASE i = next /\ Yield(x) /\ UNCHANGED buffer
  <2>1. yielded' \in Seq(Nat) /\ next' = next + 1 /\ Out' = Out \cup {x}
    BY <1>4, <1>10, YieldEffect DEF OrderInv, Types
  <2>2. Types'
    BY <1>1, <1>2, <1>10, <2>1 DEF OrderInv, Types
  <2>3. KeptInv'
    <3>1. Out' \cup Kept' = (1..taken)'
      BY <1>8, <1>10, <2>1 DEF OrderInv, KeptInv, Kept
    <3>2. \A k \in DOMAIN buffer : k \in Nat /\ k # next
      BY <1>1 DEF OrderInv, Types
    <3>3. \A k \in DOMAIN buffer' : given'[buffer'[k]] = k /\ next' <= k
      BY <1>1, <1>10, <2>1, <3>2 DEF OrderInv, KeptInv, Types
    <3> QED
      BY <3>1, <3>3 DEF KeptInv
  <2>4. given[x] = next
    BY <1>10 DEF i
  <2>5. OutInv'
    BY <1>1, <1>4, <1>10, <2>4, OutGrows
  <2> QED
    BY <1>6, <2>2, <2>3, <2>5 DEF OrderInv
<1>11. CASE i # next /\ buffer' = With(i, x) /\ UNCHANGED <<next, yielded>>
  <2>1. /\ DOMAIN buffer' = DOMAIN buffer \cup {i} /\ buffer'[i] = x
        /\ \A k \in DOMAIN buffer : k # i => buffer'[k] = buffer[k]
    BY <1>11 DEF With
  <2>2. i \notin DOMAIN buffer
    BY <1>9, ItemsGiven DEF OrderInv, KeptInv
  <2>3. next < i
    <3> SUFFICES ASSUME i < next PROVE FALSE
      BY <1>4, <1>11 DEF OrderInv, Types
    <3>1. i \in 0..(next - 1)
      BY <1>4 DEF OrderInv, Types
    <3>2. PICK j \in DOMAIN yielded : given[yielded[j]] = i
      BY <1>1, <3>1 DEF OrderInv, OutInv
    <3> QED
      BY <1>9, <3>2, ItemsGiven
  <2>4. Types'
    BY <1>1, <1>2, <1>4, <1>11, <2>1 DEF OrderInv, Types
  <2>5. Kept' = Kept \cup {x}
    BY <2>1, <2>2 DEF Kept
  <2>6. KeptInv'
    <3>1. Out' \cup Kept' = (1..taken)'
      BY <1>8, <1>11, <2>5 DEF OrderInv, KeptInv, Out
    <3>2. given[x] = i
      BY DEF i
    <3>3. \A k \in DOMAIN buffer' : given'[buffer'[k]] = k /\ next' <= k
      BY <1>1, <1>4, <1>11, <2>1, <2>2, <2>3, <3>2 DEF OrderInv, KeptInv, Types
    <3> QED
      BY <3>1, <3>3 DEF KeptInv
  <2>7. OutInv'
    BY <1>1, <1>11 DEF OrderInv, OutInv
  <2> QED
    BY <1>6, <2>4, <2>6, <2>7 DEF OrderInv
<1> QED
  BY <1>7, <1>10, <1>11

LEMMA ExhaustKeeps == OrderInv /\ Exhaust /\ UNCHANGED given => OrderInv'
  BY DEF Exhaust, OrderInv, Types, SourceInv, KeptInv, OutInv, Out, Kept, taken

LEMMA OrderInit == ResultsInit => OrderInv
<1> SUFFICES ASSUME ResultsInit PROVE OrderInv
  OBVIOUS
<1>1. /\ given \in Seq(Nat) /\ source = [k \in DOMAIN given |-> <<given[k], k>>]
      /\ next = 0 /\ buffer = <<>> /\ exhausted = FALSE /\ yielded = <<>>
  BY DEF ResultsInit, Arriving, ReorderInit
<1>2. source \in Seq(Nat \X Nat) /\ Len(source) = Len(given) /\ DOMAIN given = 1..Len(given)
  BY <1>1
<1>3. taken = 0 /\ Out = {} /\ Kept = {}
  BY <1>1, <1>2 DEF taken, Out, Kept
<1>4. Types
  <2>1. yielded \in Seq(Nat) /\ DOMAIN buffer \subseteq Nat
    BY <1>1
  <2> QED
    BY <1>1, <1>2, <2>1 DEF Types
<1>5. SourceInv
  BY <1>1, <1>2, <1>3 DEF SourceInv
<1>6. KeptInv /\ OutInv
  BY <1>1, <1>3 DEF KeptInv, OutInv
<1> QED
  BY <1>4, <1>5, <1>6 DEF OrderInv

LEMMA OrderStep == ResultsInv /\ [ReorderNext /\ UNCHANGED given]_resvars => ResultsInv'
<1> SUFFICES ASSUME ResultsInv, [ReorderNext /\ UNCHANGED given]_resvars, Distinct'
             PROVE  OrderInv'
  BY DEF ResultsInv
<1>1. UNCHANGED given
  BY DEF resvars
<1>2. Distinct /\ OrderInv
  BY <1>1 DEF Distinct, ResultsInv
<1>3. CASE UNCHANGED resvars
  <2>1. UNCHANGED <<given, source, next, buffer, exhausted, yielded>>
    BY <1>3 DEF resvars, rvars
  <2>2. Types' /\ SourceInv'
    BY <1>2, <2>1 DEF OrderInv, Types, SourceInv, taken
  <2>3. KeptInv' /\ OutInv'
    BY <1>2, <2>1 DEF OrderInv, KeptInv, OutInv, Out, Kept, taken
  <2> QED
    BY <2>2, <2>3 DEF OrderInv
<1>4. CASE ReorderNext
  BY <1>1, <1>2, <1>4, TakeKeeps, SkipKeeps, PullKeeps, ExhaustKeeps DEF ReorderNext
<1> QED
  BY <1>3, <1>4

LEMMA OrderImplies == OrderInv => AllInOrder
<1> SUFFICES ASSUME OrderInv PROVE AllInOrder
  OBVIOUS
<1>1. taken \in Nat /\ DOMAIN given = 1..Len(given) /\ Len(given) \in Nat /\ Len(source) \in Nat
  BY ItemsGiven DEF OrderInv, Types
<1>2. Ended => Range(yielded) = DOMAIN given
  <2> SUFFICES ASSUME Ended PROVE Range(yielded) = DOMAIN given
    OBVIOUS
  <2>1. source = <<>> /\ DOMAIN buffer = {}
    BY DEF Ended, OrderInv, SourceInv
  <2>2. Kept = {} /\ taken = Len(given)
    BY <1>1, <2>1 DEF Kept, taken
  <2> QED
    BY <1>1, <2>2 DEF OrderInv, KeptInv, Out, Range
<1>3. {source[k][2] : k \in DOMAIN source} = (taken + 1)..Len(given)
  <2>1. DOMAIN source = 1..Len(source) /\ \A k \in DOMAIN source : source[k][2] = taken + k
    <3>1. DOMAIN source = 1..Len(source)
      BY DEF OrderInv, Types
    <3>2. \A k \in 1..Len(source) : source[k] = <<given[taken + k], taken + k>>
      BY DEF OrderInv, SourceInv
    <3> QED
      BY <3>1, <3>2
  <2>2. \A y \in (taken + 1)..Len(given) : y - taken \in DOMAIN source /\ taken + (y - taken) = y
    BY <1>1, <2>1 DEF taken
  <2>3. \A k \in DOMAIN source : taken + k \in (taken + 1)..Len(given)
    BY <1>1, <2>1 DEF taken
  <2> QED
    BY <2>1, <2>2, <2>3
<1>4. Range(yielded) \cup Kept = DOMAIN given \ {source[k][2] : k \in DOMAIN source}
  <2>1. Range(yielded) \cup Kept = 1..taken
    BY DEF OrderInv, KeptInv, Out, Range
  <2>2. 1..taken = (1..Len(given)) \ ((taken + 1)..Len(given))
    BY <1>1 DEF taken
  <2> QED
    BY <1>1, <1>3, <2>1, <2>2
<1> QED
  BY <1>2, <1>4 DEF AllInOrder, OrderInv, OutInv, Kept

\* For every sequence of results with distinct indices, in any order and with
\* any gaps: each is yielded once, in the order of the indices, and none is
\* lost on the way (next of ReorderByIndex).
THEOREM ResultsInOrder == ResultsSpec => []AllInOrder
<1>1. ResultsInit => ResultsInv
  BY OrderInit DEF ResultsInv
<1>2. ResultsInv => AllInOrder
  <2>1. CASE IsInjective(given)
    BY <2>1, OrderImplies DEF IsInjective, Distinct, ResultsInv
  <2>2. CASE ~IsInjective(given)
    BY <2>2 DEF AllInOrder
  <2> QED
    BY <2>1, <2>2
<1> QED
  BY <1>1, <1>2, OrderStep, PTL DEF ResultsSpec
=============================================================================
