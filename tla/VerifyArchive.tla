---------------------------- MODULE VerifyArchive ----------------------------
(***************************************************************************)
(* verify (cli/src/command/verify.rs): every entry of an archive is read   *)
(* and decoded, damaged ones are counted, and the rest goes on.  A damaged *)
(* chunk makes the reader give up an entry in the middle, so that what is  *)
(* left of it arrives as further errors until an entry header comes.       *)
(***************************************************************************)
EXTENDS Integers, Sequences, FiniteSets

CONSTANTS Jobs     \* [parts, entries, fast, password]

VARIABLES job,     \* parts: chunks [ty, of, intact]; entries: what they hold, by number
          at,      \* <<part, chunk>> that is read next
          kept,    \* chunks of an entry that the next part goes on with
          more,    \* whether this part has announced another one
          report, resyncing,
          outcome  \* "none", "ok", "failed" or "aborted"
vvars == <<job, at, kept, more, report, resyncing, outcome>>

NoReport == [ok |-> 0, failed |-> 0, skipped |-> 0, unauthenticated |-> FALSE]
VerifyInit ==
  /\ job \in Jobs /\ at = <<1, 1>> /\ kept = <<>> /\ more = FALSE
  /\ report = NoReport /\ resyncing = FALSE /\ outcome = "none"
----------------------------------------------------------------------------
(* Reading one item: next_raw_item. *)

Part == job.parts[at[1]]
\* The chunk that ends the reading of an item, one way or another.
Stops(c) == ~c.intact \/ c.ty \in {"FEND", "SEND", "AEND"}
Stop == LET stops == {i \in at[2]..Len(Part) : Stops(Part[i])}
        IN IF stops = {} THEN 0 ELSE CHOOSE i \in stops : \A k \in stops : i <= k
Here(n) == SelectSeq(SubSeq(Part, at[2], n), LAMBDA c : c.ty # "ANXT")
\* Mutant: what the last part has left over is forgotten.
Item_Alone(n) == Here(n)
Item(n) == kept \o Here(n)
Announced(n) == more \/ \E i \in at[2]..n : Part[i].ty = "ANXT" /\ Part[i].intact
Whole(item) == item[1].ty \in {"FHED", "SHED"}

Corrupted ==
  /\ report' = IF resyncing THEN report ELSE [report EXCEPT !.failed = @ + 1]
  /\ resyncing' = TRUE
----------------------------------------------------------------------------
(* Checking what was read. *)

is_unauthenticated(e) == e.encryption \in {"aes", "camellia"} /\ e.mode \in {"cbc", "ctr"}
\* What decoding may come to.  Without authentication a wrong password may go unnoticed;
\* of a solid block it may then seem that there is nothing in it.
Decoded(e) ==
  CASE e.encryption = "no" -> {e.good}
    [] e.encryption = "other" -> {FALSE}
    [] e.encryption \in {"aes", "camellia"} ->
         IF job.password = "right" THEN {e.good}
         ELSE IF is_unauthenticated(e) THEN BOOLEAN ELSE {FALSE}
Skips(e) == e.encryption # "no" /\ job.password = "none"
Skip(r) == [r EXCEPT !.skipped = @ + 1]
Fail(r, e) == [r EXCEPT !.failed = @ + 1, !.unauthenticated = @ \/ is_unauthenticated(e)]
verify_entry(r, e, decoded) ==
  IF Skips(e) THEN Skip(r) ELSE IF decoded THEN [r EXCEPT !.ok = @ + 1] ELSE Fail(r, e)

\* The entries of a block up to the first that cannot be read at all, whose failure is
\* the block's.
verify_solid(r, solid, opens) ==
  LET from[i \in 0..Len(solid.inner)] ==
        IF i = 0 THEN r
        ELSE verify_entry(from[i - 1], solid.inner[i], solid.inner[i].good)
  IN IF ~opens THEN {Fail(r, solid)}
     ELSE {IF solid.torn THEN Fail(from[Len(solid.inner)], solid) ELSE from[Len(solid.inner)]}
            \cup (IF job.password = "wrong" /\ is_unauthenticated(solid) THEN {r} ELSE {})

Checked(e) ==
  IF job.fast THEN {[report EXCEPT !.ok = @ + 1]}
  ELSE IF e.solid /\ Skips(e) THEN {Skip(report)}
  ELSE IF e.solid THEN UNION {verify_solid(report, e, d) : d \in Decoded(e)}
  ELSE {verify_entry(report, e, d) : d \in Decoded(e)}

Entry(n) ==
  /\ Stop = n /\ Part[n].intact /\ Part[n].ty # "AEND"
  /\ IF Whole(Item(n)) THEN report' \in Checked(job.entries[Part[n].of]) /\ resyncing' = FALSE
     ELSE Corrupted
  /\ at' = <<at[1], n + 1>> /\ kept' = <<>> /\ more' = Announced(n)
  /\ UNCHANGED <<job, outcome>>
\* The chunks that were read with the damaged one are gone.
Damaged(n) ==
  /\ Stop = n /\ ~Part[n].intact
  /\ Corrupted
  /\ at' = <<at[1], n + 1>> /\ kept' = <<>> /\ more' = Announced(n)
  /\ UNCHANGED <<job, outcome>>
NextPart(n) ==
  /\ Stop = n /\ Part[n].intact /\ Part[n].ty = "AEND" /\ Announced(n)
  /\ IF at[1] = Len(job.parts) THEN outcome' = "aborted" /\ UNCHANGED <<at, kept, more>>
     ELSE at' = <<at[1] + 1, 1>> /\ kept' = SubSeq(Item(n), 1, Len(Item(n)) - 1)
            /\ more' = FALSE /\ UNCHANGED outcome
  /\ UNCHANGED <<job, report, resyncing>>
End(n) ==
  /\ Stop = n /\ Part[n].intact /\ Part[n].ty = "AEND" /\ ~Announced(n)
  /\ outcome' = IF report.failed > 0 THEN "failed" ELSE "ok"
  /\ UNCHANGED <<job, at, kept, more, report, resyncing>>
BreaksOff == Stop = 0 /\ outcome' = "aborted" /\ UNCHANGED <<job, at, kept, more, report, resyncing>>
VerifyNext ==
  outcome = "none" /\ (BreaksOff \/ \E n \in DOMAIN Part : Entry(n) \/ Damaged(n) \/ NextPart(n) \/ End(n))
VerifySpec == VerifyInit /\ [][VerifyNext]_vvars
----------------------------------------------------------------------------
(* What verify promises. *)

Chunks == UNION {{job.parts[p][i] : i \in DOMAIN job.parts[p]} : p \in DOMAIN job.parts}
Entries == DOMAIN job.entries
Intact(k) == \A c \in Chunks : c.of = k => c.intact
Frame(c) == c.ty \in {"ANXT", "AEND"}
FrameIntact == \A c \in Chunks : Frame(c) => c.intact
\* Damaged entries next to each other count as one.
Runs == {k \in Entries : ~Intact(k) /\ (k = 1 \/ Intact(k - 1))}
AllGood(e) == e.good /\ ~e.torn /\ \A i \in DOMAIN e.inner : e.inner[i].good
Readable(e) == AllGood(e) /\ (e.encryption = "no" \/ (e.encryption # "other" /\ job.password = "right"))
Content(e) == IF e.solid /\ ~job.fast THEN Len(e.inner) ELSE 1
Unread == {k \in Entries : Intact(k) /\ ~Skips(job.entries[k]) /\ ~Readable(job.entries[k])}
Sum(S) == LET f[T \in SUBSET S] == IF T = {} THEN 0
                                   ELSE LET k == CHOOSE k \in T : TRUE IN Content(job.entries[k]) + f[T \ {k}]
          IN f[S]

\* Success means that every entry is whole, or encrypted without a password given;
\* damage of one entry never costs another one, and every stretch of damaged
\* entries is counted.  A password that may be wrong is only then blamed.
VerifyTells ==
  LET intact == {k \in Entries : Intact(k) /\ Readable(job.entries[k])}
  IN /\ (outcome = "ok" /\ ~job.fast) =>
          /\ \A c \in Chunks : c.intact
          /\ \A k \in Entries : LET e == job.entries[k]
                                IN Skips(e) \/ AllGood(e) \/ (job.password = "wrong" /\ is_unauthenticated(e))
          /\ report.skipped = Cardinality({k \in Entries : Skips(job.entries[k])})
     /\ outcome = "failed" =>
          (\E c \in Chunks : ~c.intact) \/ (~job.fast /\ \E k \in Entries : ~Readable(job.entries[k]))
     /\ (outcome \in {"ok", "failed"} /\ FrameIntact) =>
          /\ report.ok >= Sum(intact)
          /\ report.failed >= Cardinality(Runs)
          /\ job.fast => report.failed = Cardinality(Runs)
     /\ report.unauthenticated => \E k \in Unread : is_unauthenticated(job.entries[k])
=============================================================================
