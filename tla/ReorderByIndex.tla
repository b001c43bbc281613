--------------------------- MODULE ReorderByIndex ---------------------------
(***************************************************************************)
(* ReorderByIndex of cli/src/command/core/iter.rs: parallel jobs deliver   *)
(* their results as pairs <<index, item>> in any order; the iterator       *)
(* yields the items in the order of the indices, and keeps those that come *)
(* too early.  One turn of the loop in next() is one action.               *)
(***************************************************************************)
EXTENDS Naturals, Sequences, FiniteSetsExt, Functions, TLC

VARIABLES
  source,   \* what is left of the inner iterator: pairs <<index, item>>
  next,     \* the index expected
  buffer,   \* items that came too early, by their index
  exhausted,
  yielded   \* what next() has returned

rvars == <<source, next, buffer, exhausted, yielded>>

Yield(item) == yielded' = Append(yielded, item) /\ next' = next + 1

TakeBuffered ==
  /\ next \in DOMAIN buffer
  /\ Yield(buffer[next])
  /\ buffer' = Restrict(buffer, DOMAIN buffer \ {next})
  /\ UNCHANGED <<source, exhausted>>

\* The inner iterator has ended with a gap: on with the lowest index.
Lowest_Stays(S) == next        \* mutant
Lowest(S) == Min(S)
SkipGap ==
  /\ next \notin DOMAIN buffer /\ exhausted /\ DOMAIN buffer # {}
  /\ next' = Lowest(DOMAIN buffer)
  /\ UNCHANGED <<source, buffer, exhausted, yielded>>

\* Exactly the index expected is passed on, any other one kept.
Expected_NotEarlier(i) == next <= i   \* mutant
Expected(i) == i = next
Pull ==
  /\ next \notin DOMAIN buffer /\ ~exhausted /\ source # <<>>
  /\ source' = Tail(source)
  /\ LET i == source[1][1]
         item == source[1][2]
     IN \/ Expected(i) /\ Yield(item) /\ UNCHANGED buffer
        \/ /\ ~Expected(i)
           /\ buffer' = [n \in DOMAIN buffer \cup {i} |->
                           IF n = i THEN item ELSE buffer[n]]
           /\ UNCHANGED <<next, yielded>>
  /\ UNCHANGED exhausted

Exhaust ==
  /\ next \notin DOMAIN buffer /\ ~exhausted /\ source = <<>>
  /\ exhausted' = TRUE
  /\ UNCHANGED <<source, next, buffer, yielded>>

\* next() returns None.
Ended == exhausted /\ DOMAIN buffer = {}

ReorderInit(s) ==
  /\ source = s /\ next = 0
  /\ buffer = <<>> /\ exhausted = FALSE /\ yielded = <<>>

ReorderNext == TakeBuffered \/ SkipGap \/ Pull \/ Exhaust
=============================================================================
