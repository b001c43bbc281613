--------------------------- MODULE UpdateArchiveProofs ---------------------------
(***************************************************************************)
(* Proofs about UpdateArchive, for any files, any changes while commands   *)
(* run, any number of commands one after the other and any options.        *)
(*                                                                         *)
(* The invariant follows each file that was asked for: as long as it is    *)
(* left alone it is still a target, or a job has it, or the job's result   *)
(* is on its way, or an entry with its content is in the staged archive.   *)
(* That the last entry of the name is the one with this content rests on   *)
(* the order of the entries: contents of one name never go back.           *)
(***************************************************************************)
EXTENDS UpdateArchive, FiniteSetTheorems, Induction

EntryType == [name : Names, mtime : Nat, content : Nat]
Item == EntryType \cup {Error}

\* A content that the file n may have had.
Timely(n, c) == c <= now /\ (disk[n] = 0 \/ c <= disk[n])
Honest(x) ==
  /\ x \in EntryType /\ 0 < x.content /\ Timely(x.name, x.content)
  /\ x.mtime <= x.content \/ ("override" \in Timestamps /\ x.mtime = Given)
Above(x, s) == \A k \in DOMAIN s : s[k].name = x.name => s[k].content <= x.content

\* The entries of one name in the order of their contents.
Ordered(s) ==
  /\ s \in Seq(EntryType) /\ \A k \in DOMAIN s : Honest(s[k])
  /\ \A j, k \in DOMAIN s : j < k /\ s[j].name = s[k].name => s[j].content <= s[k].content

\* What a job sends back.
Result(i, x) ==
  \E n \in DOMAIN asked :
    /\ i = Idx(n)
    /\ x = Error \/ (Honest(x) /\ x.name = n /\ Above(x, archive))

DiskInv ==
  /\ disk \in [Names -> Nat] /\ now \in Nat /\ changed \subseteq Names
  /\ \A n \in Names : disk[n] <= now
  /\ cmd \in {"idle", "reading", "joining", "adding"}
  /\ opt.timestamp = "override" => "override" \in Timestamps
AskedInv ==
  /\ DOMAIN asked \subseteq Names
  /\ \A n \in DOMAIN asked :
       /\ asked[n] \in Nat /\ 0 < asked[n] /\ Timely(n, asked[n])
       /\ n \notin changed => disk[n] = asked[n]
TargetsInv ==
  cmd = "reading" => DOMAIN targets \subseteq DOMAIN asked
                     /\ \A n \in DOMAIN targets : targets[n] = asked[n]

Job(n) ==
  jobs[n].step = "read" =>
    LET c == jobs[n].content
    IN /\ c \in Nat /\ asked[n] <= c /\ Timely(n, c)
       /\ \A k \in DOMAIN archive : archive[k].name = n => archive[k].content <= c
Pending == DOMAIN jobs \cup (IF cmd = "reading" THEN DOMAIN targets ELSE {})
JobsInv ==
  cmd \in {"reading", "joining"} =>
    /\ DOMAIN jobs \subseteq DOMAIN asked
    /\ \A n \in DOMAIN jobs : jobs[n].step \in {"spawned", "read", "error"} /\ Job(n)
    /\ cmd = "reading" => DOMAIN jobs \cap DOMAIN targets = {}
RxInv ==
  cmd \in {"reading", "joining"} =>
    /\ rx \in Seq(Nat \X Item)
    /\ \A k \in DOMAIN rx : Result(rx[k][1], rx[k][2])
    /\ \A j, k \in DOMAIN rx : j # k => rx[j][1] # rx[k][1]
    /\ \A k \in DOMAIN rx : \A n \in Pending : rx[k][1] # Idx(n)

\* Before results are added, the staged archive has entries of the archive.
StagedInv ==
  cmd \in {"reading", "joining"} =>
    /\ Ordered(out) /\ pos \in 0..Len(archive)
    /\ \A j \in DOMAIN out : \E k \in DOMAIN archive : k <= pos /\ out[j] = archive[k]

Waiting == {source[k] : k \in DOMAIN source} \cup {<<i, buffer[i]>> : i \in DOMAIN buffer}
ReorderTypes ==
  /\ source \in Seq(Nat \X Item) /\ yielded \in Seq(Item)
  /\ next \in Nat /\ DOMAIN buffer \subseteq Nat /\ \A i \in DOMAIN buffer : buffer[i] \in Item
  /\ exhausted => source = <<>>
Separate ==
  /\ \A j, k \in DOMAIN source : j # k => source[j][1] # source[k][1]
  /\ \A k \in DOMAIN source : source[k][1] \notin DOMAIN buffer
AddInv ==
  cmd = "adding" =>
    /\ ReorderTypes /\ Separate
    /\ \A p \in Waiting : Result(p[1], p[2])
    /\ ~Erroneous => /\ Ordered(out)
                     /\ \A p \in Waiting : p[2] # Error => Above(p[2], out)

\* Where the content of a file is that was asked for, if no entry is spared.
Current(n, s) ==
  \E k \in DOMAIN s :
    s[k].name = n /\ (s[k].content = disk[n] \/ Spared(s[k], disk[n]))
Running(n) ==
  n \in DOMAIN jobs /\ (jobs[n].step = "spawned"
                        \/ (jobs[n].step = "read" /\ jobs[n].content = disk[n]))
Sent(n) == \E k \in DOMAIN rx : rx[k][2].name = n /\ rx[k][2].content = disk[n]
Owed(n) == \E p \in Waiting : p[2].name = n /\ p[2].content = disk[n]
OnTheWay(n) ==
  \/ cmd = "reading" /\ n \in DOMAIN targets
  \/ cmd \in {"reading", "joining"} /\ (Running(n) \/ Sent(n))
  \/ cmd = "adding" /\ Owed(n)
  \/ Current(n, out)
Lawful == cmd # "idle" /\ (cmd = "adding" => ~Erroneous)
ProgressInv == Lawful => \A n \in DOMAIN asked \ changed : OnTheWay(n)
DoneInv == Done => \A n \in DOMAIN asked \ changed : Current(n, archive)

UpdateInv ==
  /\ DiskInv /\ AskedInv /\ Ordered(archive) /\ TargetsInv /\ JobsInv /\ RxInv
  /\ StagedInv /\ AddInv /\ ProgressInv /\ DoneInv

-----------------------------------------------------------------------------
(* The order of the files, and what holds the same in the next state.      *)

\* Two files that were asked for have different places.
LEMMA PlacesDiffer ==
  ASSUME DOMAIN asked \subseteq Names
  PROVE  /\ \A n \in DOMAIN asked : Idx(n) \in Nat
         /\ \A m, n \in DOMAIN asked : m # n => Idx(m) # Idx(n)
<1> DEFINE Before(n) == {m \in DOMAIN asked : m < n}
<1>1. DOMAIN asked \subseteq Nat
  BY NamesAssumption
<1>2. ASSUME NEW n \in DOMAIN asked
      PROVE  IsFiniteSet(Before(n)) /\ Cardinality(Before(n)) \in Nat
  <2>1. n \in Nat /\ Before(n) \in SUBSET Nat /\ \A s \in Before(n) : s <= n
    BY <1>1
  <2> HIDE DEF Before
  <2>2. IsFiniteSet(Before(n))
    BY <2>1, FS_BoundedSetOfNaturals
  <2> QED
    BY <2>2, FS_CardinalityType
<1>3. ASSUME NEW m \in DOMAIN asked, NEW n \in DOMAIN asked, m < n
      PROVE  Cardinality(Before(m)) # Cardinality(Before(n))
  <2>1. m \in Nat /\ n \in Nat
    BY <1>1
  <2>2. Before(m) \in SUBSET Before(n)
    BY <1>1, <1>3, <2>1
  <2>3. m \in Before(n) /\ m \notin Before(m)
    BY <1>3, <2>1
  <2>4. IsFiniteSet(Before(n))
    BY <1>2
  <2> HIDE DEF Before
  <2>5. Cardinality(Before(m)) = Cardinality(Before(n)) => Before(n) = Before(m)
    BY <2>2, <2>4, FS_Subset
  <2> QED
    BY <2>3, <2>5
<1>4. \A n \in DOMAIN asked : Idx(n) = Cardinality(Before(n))
  BY DEF Idx
<1> HIDE DEF Before
<1>5. \A m, n \in DOMAIN asked : m # n => m < n \/ n < m
  BY <1>1
<1> QED
  BY <1>2, <1>3, <1>4, <1>5

LEMMA SameHonest == UNCHANGED <<disk, now>> => \A x : Honest(x) = Honest(x)'
  BY DEF Honest, Timely

LEMMA SameSpared == UNCHANGED opt => \A x, t : Spared(x, t) = Spared(x, t)'
  BY DEF Spared, IsNewer

\* The seconds of later times are no earlier.
LEMMA SecondsGrow ==
  ASSUME NEW s \in Nat \ {0}, NEW t \in Nat, s <= t
  PROVE  Second(s) <= Second(t) /\ Second(s) \in Nat /\ Second(t) \in Nat
  BY TimesAssumption DEF Second

LEMMA SameResult ==
  UNCHANGED <<disk, now, asked, archive>> => \A i, x : Result(i, x) => Result(i, x)'
<1> SUFFICES ASSUME UNCHANGED <<disk, now, asked, archive>>, NEW i, NEW x, Result(i, x)
             PROVE  Result(i, x)'
  OBVIOUS
<1>1. \A n : Idx(n)' = Idx(n)
  BY DEF Idx
<1>2. Honest(x)' = Honest(x) /\ Above(x, archive)' = Above(x, archive)
  BY SameHonest DEF Above
<1> QED
  BY <1>1, <1>2 DEF Result

LEMMA SameOrder ==
  /\ UNCHANGED <<disk, now, out>> /\ Ordered(out) => Ordered(out)'
  /\ UNCHANGED <<disk, now, archive>> /\ Ordered(archive) => Ordered(archive)'
<1>1. UNCHANGED <<disk, now, out>> /\ Ordered(out) => Ordered(out)'
  BY SameHonest DEF Ordered
<1>2. UNCHANGED <<disk, now, archive>> /\ Ordered(archive) => Ordered(archive)'
  BY SameHonest DEF Ordered
<1> QED
  BY <1>1, <1>2

\* An entry at least as new as those of its name goes to the end.
LEMMA OrderedAppend ==
  ASSUME NEW s, NEW x, Ordered(s), Honest(x), Above(x, s)
  PROVE  Ordered(Append(s, x))
<1> DEFINE t == Append(s, x)
<1>1. s \in Seq(EntryType) /\ x \in EntryType
  BY DEF Ordered, Honest
<1>2. /\ t \in Seq(EntryType) /\ Len(s) \in Nat /\ DOMAIN s = 1..Len(s)
      /\ DOMAIN t = 1..(Len(s) + 1) /\ t[Len(s) + 1] = x
      /\ \A k \in DOMAIN s : t[k] = s[k]
  BY <1>1
<1> HIDE DEF t
<1>3. \A k \in DOMAIN t : k \in DOMAIN s \/ k = Len(s) + 1
  BY <1>2
<1>4. \A k \in DOMAIN t : Honest(t[k])
  BY <1>2, <1>3 DEF Ordered
<1>5. ASSUME NEW j \in DOMAIN t, NEW k \in DOMAIN t, j < k, t[j].name = t[k].name
      PROVE  t[j].content <= t[k].content
  <2>1. j \in DOMAIN s
    BY <1>2, <1>5
  <2>2. CASE k \in DOMAIN s
    BY <1>2, <1>5, <2>1, <2>2 DEF Ordered
  <2>3. CASE k = Len(s) + 1
    BY <1>2, <1>5, <2>1, <2>3 DEF Above
  <2> QED
    BY <1>3, <2>2, <2>3
<1>6. Ordered(t)
  BY <1>2, <1>4, <1>5 DEF Ordered
<1> QED
  BY <1>6 DEF t

-----------------------------------------------------------------------------
(* Files change, and a command begins or is given up.                      *)

LEMMA InitKeeps == Init => UpdateInv
<1> SUFFICES ASSUME Init PROVE UpdateInv
  OBVIOUS
<1>1. /\ disk \in [Names -> 0..1] /\ now = 1 /\ archive = <<>> /\ cmd = "idle"
      /\ asked = <<>> /\ changed = {} /\ status = "none" /\ opt.timestamp = "none"
  BY DEF Init
<1>2. DiskInv
  BY <1>1 DEF DiskInv
<1>3. AskedInv
  BY <1>1 DEF AskedInv
<1>4. Ordered(archive)
  BY <1>1 DEF Ordered
<1>5. TargetsInv /\ JobsInv /\ RxInv /\ StagedInv /\ AddInv
  BY <1>1 DEF TargetsInv, JobsInv, RxInv, StagedInv, AddInv
<1>6. ProgressInv /\ DoneInv
  BY <1>1 DEF ProgressInv, Lawful, DoneInv, Done
<1> QED
  BY <1>2, <1>3, <1>4, <1>5, <1>6 DEF UpdateInv

\* A command that is given up leaves the archive as it was.
LEMMA FailKeeps ==
  UpdateInv /\ Return("failed") /\ UNCHANGED <<diskvars, archive, opt, asked, changed>>
    => UpdateInv'
<1> SUFFICES ASSUME UpdateInv, Return("failed"),
                    UNCHANGED <<diskvars, archive, opt, asked, changed>>
             PROVE  UpdateInv'
  OBVIOUS
<1>1. cmd' = "idle" /\ status' = "failed" /\ UNCHANGED <<disk, now, archive, opt, asked, changed>>
  BY DEF Return, diskvars
<1>2. DiskInv'
  BY <1>1 DEF UpdateInv, DiskInv
<1>3. AskedInv'
  BY <1>1 DEF UpdateInv, AskedInv, Timely
<1>4. Ordered(archive)'
  BY <1>1, SameOrder DEF UpdateInv
<1>5. TargetsInv' /\ JobsInv' /\ RxInv' /\ StagedInv' /\ AddInv'
  BY <1>1 DEF TargetsInv, JobsInv, RxInv, StagedInv, AddInv
<1>6. ProgressInv' /\ DoneInv'
  BY <1>1 DEF ProgressInv, Lawful, DoneInv, Done
<1> QED
  BY <1>2, <1>3, <1>4, <1>5, <1>6 DEF UpdateInv

\* A file that changes has a content newer than any before.
LEMMA ChangeKeepsHonest ==
  ASSUME DiskInv, NEW m \in Names, Change(m)
  PROVE  /\ \A n \in Names, c \in Nat : Timely(n, c) => Timely(n, c)'
         /\ \A x : Honest(x) => Honest(x)'
         /\ \A n \in Names \ changed' : n \notin changed /\ disk'[n] = disk[n]
<1>1. /\ now \in Nat /\ disk \in [Names -> Nat] /\ now' = now + 1 /\ changed' = changed \cup {m}
      /\ disk' = [disk EXCEPT ![m] = now + 1] \/ disk' = [disk EXCEPT ![m] = 0]
  BY DEF DiskInv, Change
<1>2. \A n \in Names : disk'[n] = IF n = m THEN disk'[m] ELSE disk[n]
  BY <1>1
<1>3. disk'[m] \in {0, now + 1}
  BY <1>1
<1>4. \A n \in Names, c \in Nat : Timely(n, c) => Timely(n, c)'
  BY <1>1, <1>2, <1>3 DEF Timely
<1>5. \A x : Honest(x) => Honest(x)'
  BY <1>4 DEF Honest, EntryType
<1> QED
  BY <1>1, <1>2, <1>4, <1>5

LEMMA ChangeKeeps ==
  ASSUME UpdateInv, NEW m \in Names, Change(m)
  PROVE  UpdateInv'
<1>1. /\ now' = now + 1 /\ changed' = changed \cup {m}
      /\ disk' = [disk EXCEPT ![m] = now + 1] \/ disk' = [disk EXCEPT ![m] = 0]
      /\ UNCHANGED <<archive, cmd, opt, asked, targets, pos, out, jobs, rx, status,
                     source, next, buffer, exhausted, yielded>>
  BY DEF Change, rvars
<1>2. DiskInv
  BY DEF UpdateInv
<1>3. DiskInv'
  BY <1>1, <1>2 DEF DiskInv
<1>4. /\ \A n \in Names, c \in Nat : Timely(n, c) => Timely(n, c)'
      /\ \A x : Honest(x) => Honest(x)'
      /\ \A n \in Names \ changed' : n \notin changed /\ disk'[n] = disk[n]
  BY <1>2, ChangeKeepsHonest
<1>5. AskedInv'
  BY <1>1, <1>4 DEF UpdateInv, AskedInv
<1>6. Ordered(archive)' /\ (Ordered(out) => Ordered(out)')
  BY <1>1, <1>4 DEF UpdateInv, Ordered
<1>7. TargetsInv'
  BY <1>1 DEF UpdateInv, TargetsInv
<1>8. JobsInv'
  <2>1. AskedInv /\ JobsInv
    BY DEF UpdateInv
  <2>2. ASSUME NEW n \in DOMAIN asked, Job(n) PROVE Job(n)'
    <3>1. n \in Names
      BY <2>1 DEF AskedInv
    <3> QED
      BY <1>1, <1>4, <2>2, <3>1 DEF Job
  <2> QED
    BY <1>1, <2>1, <2>2 DEF JobsInv
<1>9. \A i, x : Result(i, x) => Result(i, x)'
  <2>1. \A n : Idx(n)' = Idx(n)
    BY <1>1 DEF Idx
  <2>2. \A x : Above(x, archive) => Above(x, archive)'
    BY <1>1 DEF Above
  <2> QED
    BY <1>1, <1>4, <2>1, <2>2 DEF Result
<1>10. \A n : Idx(n)' = Idx(n)
  BY <1>1 DEF Idx
<1>11. RxInv'
  BY <1>1, <1>9, <1>10 DEF UpdateInv, RxInv, Pending
<1>12. StagedInv'
  BY <1>1, <1>6 DEF UpdateInv, StagedInv
<1>13. AddInv'
  <2>1. Waiting' = Waiting /\ ReorderTypes' = ReorderTypes /\ Separate' = Separate
        /\ Erroneous' = Erroneous
    BY <1>1 DEF Waiting, ReorderTypes, Separate, Erroneous
  <2>2. \A x : Above(x, out)' = Above(x, out)
    BY <1>1 DEF Above
  <2> QED
    BY <1>1, <1>6, <1>9, <2>1, <2>2 DEF UpdateInv, AddInv
<1>14. ASSUME NEW n \in DOMAIN asked' \ changed'
       PROVE  n \in DOMAIN asked \ changed /\ disk'[n] = disk[n]
  BY <1>1, <1>4 DEF UpdateInv, AskedInv
<1>15. ProgressInv'
  <2> SUFFICES ASSUME Lawful', NEW n \in DOMAIN asked' \ changed' PROVE OnTheWay(n)'
    BY DEF ProgressInv
  <2>1. OnTheWay(n) /\ disk'[n] = disk[n]
    BY <1>1, <1>14 DEF UpdateInv, ProgressInv, Lawful, Erroneous
  <2>2. Waiting' = Waiting
    BY <1>1 DEF Waiting
  <2>3. /\ Running(n) => Running(n)'
        /\ Sent(n) => Sent(n)'
        /\ Owed(n) => Owed(n)'
        /\ Current(n, out) => Current(n, out)'
    BY <1>1, <2>1, <2>2, SameSpared DEF Running, Sent, Owed, Current
  <2> QED
    BY <1>1, <2>1, <2>3 DEF OnTheWay
<1>16. DoneInv'
  BY <1>1, <1>14, SameSpared DEF UpdateInv, DoneInv, Done, Current
<1> QED
  BY <1>3, <1>5, <1>6, <1>7, <1>8, <1>11, <1>12, <1>13, <1>15, <1>16 DEF UpdateInv

LEMMA StartKeeps == UpdateInv /\ Start => UpdateInv'
<1> SUFFICES ASSUME UpdateInv, Start PROVE UpdateInv'
  OBVIOUS
<1>1. /\ targets' = asked' /\ cmd' = "reading" /\ pos' = 0 /\ out' = <<>> /\ jobs' = <<>>
      /\ rx' = <<>> /\ changed' = {} /\ UNCHANGED <<disk, now, archive>>
      /\ opt'.timestamp \in Timestamps
  BY DEF Start, diskvars
<1>2. PICK files \in SUBSET {n \in Names : disk[n] # 0} : asked' = [n \in files |-> disk[n]]
  BY DEF Start
<1>3. DiskInv /\ DiskInv'
  BY <1>1 DEF UpdateInv, DiskInv
<1>4. AskedInv'
  BY <1>1, <1>2, <1>3 DEF AskedInv, Timely, DiskInv
<1>5. Ordered(archive) /\ Ordered(archive)'
  BY <1>1, SameOrder DEF UpdateInv
<1>6. TargetsInv'
  BY <1>1 DEF TargetsInv
<1>7. DOMAIN jobs' = {} /\ DOMAIN rx' = {} /\ DOMAIN out' = {}
  BY <1>1
<1>8. JobsInv'
  BY <1>1, <1>7 DEF JobsInv
<1>9. RxInv'
  BY <1>1, <1>7 DEF RxInv
<1>10. StagedInv'
  <2>1. pos' \in 0..Len(archive')
    BY <1>1, <1>5 DEF Ordered
  <2>2. Ordered(out)'
    BY <1>1, <1>7 DEF Ordered
  <2> QED
    BY <1>7, <2>1, <2>2 DEF StagedInv
<1>11. AddInv' /\ DoneInv'
  BY <1>1 DEF AddInv, DoneInv, Done
<1>12. ProgressInv'
  BY <1>1 DEF ProgressInv, OnTheWay
<1> QED
  BY <1>3, <1>4, <1>5, <1>6, <1>8, <1>9, <1>10, <1>11, <1>12 DEF UpdateInv

-----------------------------------------------------------------------------
(* The archive is read and its entries are sorted out.                     *)

\* What a turn of the loop does with the entry it reads.
LEMMA ReadEntryEffect ==
  ASSUME UpdateInv, ReadEntry,
         NEW entry, entry = archive[pos + 1], NEW n, n = entry.name
  PROVE  /\ cmd = "reading" /\ pos + 1 \in DOMAIN archive /\ Honest(entry)
         /\ pos \in 0..Len(archive) /\ pos' = pos + 1 /\ pos' \in 0..Len(archive)
         /\ UNCHANGED <<disk, now, archive, cmd, opt, asked, rx, status, changed>>
         /\ DOMAIN targets' = DOMAIN targets \ {n}
         /\ \A m \in DOMAIN targets' : targets'[m] = targets[m]
         /\ \/ /\ n \in DOMAIN targets /\ IsNewer(targets[n], entry.mtime)
               /\ DOMAIN jobs' = DOMAIN jobs \cup {n} /\ jobs'[n].step = "spawned"
               /\ \A m \in DOMAIN jobs \ {n} : jobs'[m] = jobs[m]
               /\ out' = out \/ out' = Append(out, entry)
            \/ /\ n \in DOMAIN targets /\ ~IsNewer(targets[n], entry.mtime)
               /\ jobs' = jobs /\ out' = Append(out, entry)
            \/ /\ n \notin DOMAIN targets
               /\ jobs' = jobs /\ (out' = out \/ out' = Append(out, entry))
<1>1. /\ cmd = "reading" /\ pos < Len(archive) /\ pos' = pos + 1
      /\ UNCHANGED <<disk, now, archive, cmd, opt, asked, rx, status, changed>>
      /\ targets' = [m \in DOMAIN targets \ {n} |-> targets[m]]
  BY DEF ReadEntry, Taken, Without, Restrict, diskvars
<1> DEFINE newer == n \in DOMAIN targets /\ IsNewer(targets[n], entry.mtime)
<1>2. /\ jobs' = (IF newer THEN Spawned({n}) ELSE jobs)
      /\ out' = IF Replaced(newer) \/ Pruned(n) THEN out ELSE Append(out, entry)
  BY DEF ReadEntry
<1>3. pos \in 0..Len(archive) /\ Ordered(archive) /\ archive \in Seq(EntryType)
  BY <1>1 DEF UpdateInv, StagedInv, Ordered
<1>4. pos + 1 \in DOMAIN archive /\ pos + 1 \in 0..Len(archive)
  BY <1>1, <1>3
<1>5. Honest(entry)
  BY <1>3, <1>4 DEF Ordered
<1>6. ASSUME newer
      PROVE  /\ DOMAIN jobs' = DOMAIN jobs \cup {n} /\ jobs'[n].step = "spawned"
             /\ \A m \in DOMAIN jobs \ {n} : jobs'[m] = jobs[m]
  <2>1. jobs' = Spawned({n})
    BY <1>2, <1>6
  <2> QED
    BY <2>1 DEF Spawned
<1>7. out' = out \/ out' = Append(out, entry)
  BY <1>2
<1>8. ASSUME n \in DOMAIN targets, ~IsNewer(targets[n], entry.mtime)
      PROVE  jobs' = jobs /\ out' = Append(out, entry)
  <2>1. ~newer
    BY <1>8
  <2> QED
    BY <1>2, <1>8, <2>1 DEF Replaced, Pruned
<1>9. n \notin DOMAIN targets => jobs' = jobs
  BY <1>2
<1> DEFINE t == targets[n]
<1>10. \/ n \in DOMAIN targets /\ IsNewer(t, entry.mtime) /\ newer
       \/ n \in DOMAIN targets /\ ~IsNewer(t, entry.mtime)
       \/ n \notin DOMAIN targets
  OBVIOUS
<1> HIDE DEF newer
<1>11. pos' \in 0..Len(archive) /\ DOMAIN targets' = DOMAIN targets \ {n}
       /\ \A m \in DOMAIN targets' : targets'[m] = targets[m]
  BY <1>1, <1>4
<1> QED
  BY <1>1, <1>3, <1>4, <1>5, <1>6, <1>7, <1>8, <1>9, <1>10, <1>11, Zenon

LEMMA ReadEntryKeeps == UpdateInv /\ ReadEntry => UpdateInv'
<1> SUFFICES ASSUME UpdateInv, ReadEntry PROVE UpdateInv'
  OBVIOUS
<1> DEFINE entry == archive[pos + 1]
           n == entry.name
<1>1. /\ cmd = "reading" /\ pos + 1 \in DOMAIN archive /\ Honest(entry)
      /\ pos \in 0..Len(archive) /\ pos' = pos + 1 /\ pos' \in 0..Len(archive)
      /\ UNCHANGED <<disk, now, archive, cmd, opt, asked, rx, status, changed>>
      /\ DOMAIN targets' = DOMAIN targets \ {n}
      /\ \A m \in DOMAIN targets' : targets'[m] = targets[m]
      /\ \/ /\ n \in DOMAIN targets /\ IsNewer(targets[n], entry.mtime)
            /\ DOMAIN jobs' = DOMAIN jobs \cup {n} /\ jobs'[n].step = "spawned"
            /\ \A m \in DOMAIN jobs \ {n} : jobs'[m] = jobs[m]
            /\ out' = out \/ out' = Append(out, entry)
         \/ /\ n \in DOMAIN targets /\ ~IsNewer(targets[n], entry.mtime)
            /\ jobs' = jobs /\ out' = Append(out, entry)
         \/ /\ n \notin DOMAIN targets
            /\ jobs' = jobs /\ (out' = out \/ out' = Append(out, entry))
  BY ReadEntryEffect
<1>2. entry = archive[pos + 1] /\ n = entry.name
  OBVIOUS
<1> HIDE DEF entry, n
<1>3. DiskInv /\ AskedInv /\ Ordered(archive) /\ TargetsInv /\ JobsInv /\ RxInv /\ StagedInv
  BY DEF UpdateInv
<1>4. DiskInv'
  BY <1>1, <1>3 DEF DiskInv
<1>5. AskedInv'
  BY <1>1, <1>3 DEF AskedInv, Timely
<1>6. Ordered(archive)'
  BY <1>1, <1>3, SameOrder
<1>7. TargetsInv'
  BY <1>1, <1>3 DEF TargetsInv
<1>8. DOMAIN targets \subseteq DOMAIN asked /\ DOMAIN jobs \subseteq DOMAIN asked
      /\ DOMAIN jobs \cap DOMAIN targets = {}
  BY <1>1, <1>3 DEF TargetsInv, JobsInv
<1>9. DOMAIN jobs' \cup DOMAIN targets' \subseteq DOMAIN jobs \cup DOMAIN targets
  BY <1>1
<1>10. JobsInv'
  <2>1. DOMAIN jobs' \subseteq DOMAIN asked' /\ DOMAIN jobs' \cap DOMAIN targets' = {}
    BY <1>1, <1>8
  <2>2. ASSUME NEW m \in DOMAIN jobs'
        PROVE  jobs'[m].step = "spawned" \/ (m \in DOMAIN jobs /\ jobs'[m] = jobs[m])
    BY <1>1, <2>2
  <2>3. ASSUME NEW m \in DOMAIN jobs'
        PROVE  jobs'[m].step \in {"spawned", "read", "error"} /\ Job(m)'
    <3>1. CASE jobs'[m].step = "spawned"
      BY <3>1 DEF Job
    <3>2. CASE m \in DOMAIN jobs /\ jobs'[m] = jobs[m]
      <4>1. jobs[m].step \in {"spawned", "read", "error"} /\ Job(m)
        BY <1>1, <1>3, <3>2 DEF JobsInv
      <4> QED
        BY <1>1, <3>2, <4>1 DEF Job, Timely
    <3> QED
      BY <2>2, <3>1, <3>2
  <2> QED
    BY <2>1, <2>3 DEF JobsInv
<1>11. RxInv'
  <2>1. \A i, x : Result(i, x) => Result(i, x)'
    BY <1>1, SameResult
  <2>2. Pending' \subseteq Pending
    BY <1>1, <1>9 DEF Pending
  <2>3. \A m : Idx(m)' = Idx(m)
    BY <1>1 DEF Idx
  <2> QED
    BY <1>1, <1>3, <2>1, <2>2, <2>3 DEF RxInv
<1>12. Ordered(out) /\ \A j \in DOMAIN out : \E k \in DOMAIN archive : k <= pos /\ out[j] = archive[k]
  BY <1>1, <1>3 DEF StagedInv
<1>13. Above(entry, out)
  <2> SUFFICES ASSUME NEW j \in DOMAIN out, out[j].name = entry.name
               PROVE  out[j].content <= entry.content
    BY DEF Above
  <2>1. PICK k \in DOMAIN archive : k <= pos /\ out[j] = archive[k]
    BY <1>12
  <2>2. k < pos + 1
    BY <1>1, <1>3, <2>1 DEF Ordered
  <2> QED
    BY <1>1, <1>2, <1>3, <2>1, <2>2 DEF Ordered
<1>14. ASSUME out' = Append(out, entry)
       PROVE  /\ Ordered(out') /\ DOMAIN out' = 1..(Len(out) + 1) /\ Len(out) \in Nat
              /\ DOMAIN out = 1..Len(out)
              /\ out'[Len(out) + 1] = entry /\ \A j \in DOMAIN out : out'[j] = out[j]
  <2>1. Ordered(Append(out, entry))
    BY <1>1, <1>12, <1>13, OrderedAppend
  <2>2. out \in Seq(EntryType) /\ entry \in EntryType
    BY <1>1, <1>12 DEF Ordered, Honest
  <2> QED
    BY <1>14, <2>1, <2>2
<1>15. StagedInv'
  <2>1. Ordered(out') => Ordered(out)'
    BY <1>1, SameHonest DEF Ordered
  <2>2. CASE out' = out
    <3>1. \A k \in DOMAIN archive : k <= pos => k <= pos'
      BY <1>1, <1>3 DEF Ordered
    <3> QED
      BY <1>1, <1>12, <2>1, <2>2, <3>1 DEF StagedInv
  <2>3. CASE out' = Append(out, entry)
    <3> SUFFICES ASSUME NEW j \in DOMAIN out'
                 PROVE  \E k \in DOMAIN archive : k <= pos' /\ out'[j] = archive[k]
      BY <1>1, <1>14, <2>1, <2>3 DEF StagedInv
    <3>1. CASE j \in DOMAIN out
      <4>1. PICK k \in DOMAIN archive : k <= pos /\ out[j] = archive[k]
        BY <1>12, <3>1
      <4>2. k <= pos'
        BY <1>1, <1>3, <4>1 DEF Ordered
      <4> QED
        BY <1>14, <2>3, <3>1, <4>1, <4>2
    <3>2. CASE j = Len(out) + 1
      BY <1>1, <1>2, <1>14, <2>3, <3>2
    <3> QED
      BY <1>14, <2>3, <3>1, <3>2
  <2> QED
    BY <1>1, <2>2, <2>3
<1>16. AddInv' /\ DoneInv'
  BY <1>1 DEF AddInv, DoneInv, Done
<1>17. ProgressInv'
  <2> SUFFICES ASSUME Lawful', NEW m \in DOMAIN asked' \ changed' PROVE OnTheWay(m)'
    BY DEF ProgressInv
  <2>1. OnTheWay(m) /\ m \in DOMAIN asked /\ m \notin changed
    BY <1>1 DEF UpdateInv, ProgressInv, Lawful
  <2>2. Current(m, out) => Current(m, out)'
    <3>1. DOMAIN out \subseteq DOMAIN out' /\ \A j \in DOMAIN out : out'[j] = out[j]
      BY <1>1, <1>14
    <3> QED
      BY <1>1, <3>1, SameSpared DEF Current
  <2>3. Sent(m) => Sent(m)'
    BY <1>1 DEF Sent
  <2>4. Running(m) => Running(m)'
    BY <1>1, <1>8 DEF Running
  <2>5. CASE m \in DOMAIN targets /\ m # n
    BY <1>1, <2>5 DEF OnTheWay
  <2>6. CASE m \in DOMAIN targets /\ m = n /\ IsNewer(targets[n], entry.mtime)
    <3>1. Running(m)'
      BY <1>1, <2>6 DEF Running
    <3> QED
      BY <1>1, <3>1 DEF OnTheWay
  <2>7. CASE m \in DOMAIN targets /\ m = n /\ ~IsNewer(targets[n], entry.mtime)
    <3>1. out' = Append(out, entry)
      BY <1>1, <2>7
    <3>2. targets[n] = disk[n] /\ disk[n] \in Nat /\ 0 < disk[n] /\ n \in Names
      BY <1>1, <1>3, <2>1, <2>7 DEF TargetsInv, AskedInv, DiskInv
    <3>3. ~IsNewer(disk[n], entry.mtime)
      BY <2>7, <3>2
    <3>4. /\ entry.mtime \in Nat /\ entry.content \in Nat \ {0} /\ entry.content <= disk[n]
      BY <1>1, <1>2, <3>2 DEF Honest, EntryType, Timely
    <3>5. entry.content = disk[n] \/ Spared(entry, disk[n])
      <4>1. CASE entry.mtime = 0
        BY <3>3, <4>1 DEF Spared
      <4>2. CASE entry.content < entry.mtime
        BY <4>2 DEF Spared
      <4>3. CASE entry.mtime # 0 /\ entry.mtime <= entry.content
        <5>1. ~IsOlder(entry.mtime, disk[n])
          BY <3>3, <4>3 DEF IsNewer
        <5>2. CASE ~Whole(entry.mtime)
          BY <3>2, <3>4, <4>3, <5>1, <5>2 DEF IsOlder
        <5>3. CASE Whole(entry.mtime)
          <6>1. ~(Second(entry.mtime) < Second(disk[n]))
            BY <5>1, <5>3 DEF IsOlder
          <6>2. /\ Second(entry.mtime) <= Second(entry.content)
                /\ Second(entry.content) <= Second(disk[n])
                /\ Second(entry.mtime) \in Nat /\ Second(entry.content) \in Nat
                /\ Second(disk[n]) \in Nat
            BY <3>2, <3>4, <4>3, SecondsGrow
          <6>3. Second(entry.content) = Second(disk[n])
            BY <6>1, <6>2
          <6> QED
            BY <4>3, <5>3, <6>3 DEF Spared
        <5> QED
          BY <5>2, <5>3
      <4> QED
        BY <3>4, <4>1, <4>2, <4>3
    <3>6. Len(out) + 1 \in DOMAIN out' /\ out'[Len(out) + 1] = entry
      BY <1>14, <3>1
    <3>7. Current(m, out)'
      BY <1>1, <1>2, <2>7, <3>5, <3>6, SameSpared DEF Current
    <3> QED
      BY <3>7 DEF OnTheWay
  <2> QED
    BY <1>1, <2>1, <2>2, <2>3, <2>4, <2>5, <2>6, <2>7 DEF OnTheWay
<1> QED
  BY <1>4, <1>5, <1>6, <1>7, <1>10, <1>11, <1>15, <1>16, <1>17 DEF UpdateInv

LEMMA EndOfEntriesKeeps == UpdateInv /\ EndOfEntries => UpdateInv'
<1> SUFFICES ASSUME UpdateInv, EndOfEntries PROVE UpdateInv'
  OBVIOUS
<1>1. /\ cmd = "reading" /\ cmd' = "joining"
      /\ jobs' = Spawned(DOMAIN targets)
      /\ UNCHANGED <<disk, now, archive, opt, asked, targets, pos, out, rx, status, changed>>
  BY DEF EndOfEntries, diskvars
<1>2. /\ DOMAIN jobs' = DOMAIN jobs \cup DOMAIN targets
      /\ \A m \in DOMAIN targets : jobs'[m].step = "spawned"
      /\ \A m \in DOMAIN jobs \ DOMAIN targets : jobs'[m] = jobs[m]
  BY <1>1 DEF Spawned
<1>3. DiskInv /\ AskedInv /\ Ordered(archive) /\ TargetsInv /\ JobsInv /\ RxInv /\ StagedInv
  BY DEF UpdateInv
<1>4. DiskInv'
  BY <1>1, <1>3 DEF DiskInv
<1>5. AskedInv'
  BY <1>1, <1>3 DEF AskedInv, Timely
<1>6. Ordered(archive)'
  BY <1>1, <1>3, SameOrder
<1>7. TargetsInv' /\ AddInv' /\ DoneInv'
  BY <1>1 DEF TargetsInv, AddInv, DoneInv, Done
<1>8. JobsInv'
  <2>1. DOMAIN jobs' \subseteq DOMAIN asked'
    BY <1>1, <1>2, <1>3 DEF TargetsInv, JobsInv
  <2>2. ASSUME NEW m \in DOMAIN jobs'
        PROVE  jobs'[m].step \in {"spawned", "read", "error"} /\ Job(m)'
    <3>1. CASE jobs'[m].step = "spawned"
      BY <3>1 DEF Job
    <3>2. CASE m \in DOMAIN jobs /\ jobs'[m] = jobs[m]
      <4>1. jobs[m].step \in {"spawned", "read", "error"} /\ Job(m)
        BY <1>1, <1>3, <3>2 DEF JobsInv
      <4> QED
        BY <1>1, <3>2, <4>1 DEF Job, Timely
    <3> QED
      BY <1>2, <2>2, <3>1, <3>2
  <2> QED
    BY <1>1, <2>1, <2>2 DEF JobsInv
<1>9. RxInv'
  <2>1. \A i, x : Result(i, x) => Result(i, x)'
    BY <1>1, SameResult
  <2>2. Pending' = Pending
    BY <1>1, <1>2 DEF Pending
  <2>3. \A m : Idx(m)' = Idx(m)
    BY <1>1 DEF Idx
  <2> QED
    BY <1>1, <1>3, <2>1, <2>2, <2>3 DEF RxInv
<1>10. StagedInv'
  BY <1>1, <1>3, SameOrder DEF StagedInv
<1>11. ProgressInv'
  <2> SUFFICES ASSUME Lawful', NEW m \in DOMAIN asked' \ changed' PROVE OnTheWay(m)'
    BY DEF ProgressInv
  <2>1. OnTheWay(m)
    BY <1>1 DEF UpdateInv, ProgressInv, Lawful
  <2>2. m \in DOMAIN targets => Running(m)'
    BY <1>2 DEF Running
  <2>3. Running(m) => Running(m)'
    BY <1>1, <1>2 DEF Running
  <2>4. (Sent(m) => Sent(m)') /\ (Current(m, out) => Current(m, out)')
    BY <1>1, SameSpared DEF Sent, Current
  <2> QED
    BY <1>1, <2>1, <2>2, <2>3, <2>4 DEF OnTheWay
<1> QED
  BY <1>4, <1>5, <1>6, <1>7, <1>8, <1>9, <1>10, <1>11 DEF UpdateInv

-----------------------------------------------------------------------------
(* The jobs.                                                               *)

\* What the steps of jobs leave alone stays as it is.
LEMMA JobStepKeeps ==
  ASSUME UpdateInv,
         UNCHANGED <<disk, now, archive, cmd, opt, asked, targets, pos, out, status, changed,
                     rvars>>
  PROVE  /\ DiskInv' /\ AskedInv' /\ Ordered(archive)' /\ TargetsInv' /\ StagedInv'
         /\ AddInv' /\ DoneInv'
         /\ \A i, x : Result(i, x) => Result(i, x)'
         /\ \A m : Idx(m)' = Idx(m)
         /\ Waiting' = Waiting /\ Erroneous' = Erroneous
<1>1. UNCHANGED <<disk, now, archive, cmd, opt, asked, targets, pos, out, status, changed>>
      /\ UNCHANGED <<source, next, buffer, exhausted, yielded>>
  BY DEF rvars
<1>2. DiskInv'
  BY <1>1 DEF UpdateInv, DiskInv
<1>3. AskedInv'
  BY <1>1 DEF UpdateInv, AskedInv, Timely
<1>4. Ordered(archive)' /\ (Ordered(out) => Ordered(out)')
  BY <1>1, SameOrder DEF UpdateInv
<1>5. TargetsInv'
  BY <1>1 DEF UpdateInv, TargetsInv
<1>6. StagedInv'
  BY <1>1, <1>4 DEF UpdateInv, StagedInv
<1>7. \A i, x : Result(i, x) => Result(i, x)'
  BY <1>1, SameResult
<1>8. Waiting' = Waiting /\ Erroneous' = Erroneous /\ ReorderTypes' = ReorderTypes
      /\ Separate' = Separate
  BY <1>1 DEF Waiting, Erroneous, ReorderTypes, Separate
<1>9. \A x : Above(x, out)' = Above(x, out)
  BY <1>1 DEF Above
<1>10. AddInv'
  BY <1>1, <1>4, <1>7, <1>8, <1>9 DEF UpdateInv, AddInv
<1>11. DoneInv'
  BY <1>1, SameSpared DEF UpdateInv, DoneInv, Done, Current
<1>12. \A m : Idx(m)' = Idx(m)
  BY <1>1 DEF Idx
<1> QED
  BY <1>2, <1>3, <1>4, <1>5, <1>6, <1>7, <1>8, <1>10, <1>11, <1>12

LEMMA ReadContentKeeps ==
  ASSUME UpdateInv, NEW n \in Names, ReadContent(n)
  PROVE  UpdateInv'
<1>1. /\ n \in DOMAIN jobs /\ jobs[n].step = "spawned"
      /\ jobs' = [jobs EXCEPT ![n] =
                   [step |-> IF disk[n] = 0 THEN "error" ELSE "read", content |-> disk[n]]]
      /\ UNCHANGED <<disk, now, archive, cmd, opt, asked, targets, pos, out, rx, status,
                     changed, rvars>>
  BY DEF ReadContent, diskvars
<1>2. /\ DOMAIN jobs' = DOMAIN jobs
      /\ jobs'[n].step = (IF disk[n] = 0 THEN "error" ELSE "read") /\ jobs'[n].content = disk[n]
      /\ \A m \in DOMAIN jobs \ {n} : jobs'[m] = jobs[m]
  BY <1>1
<1>3. /\ DiskInv' /\ AskedInv' /\ Ordered(archive)' /\ TargetsInv' /\ StagedInv'
      /\ AddInv' /\ DoneInv'
      /\ \A i, x : Result(i, x) => Result(i, x)'
      /\ \A m : Idx(m)' = Idx(m)
      /\ Waiting' = Waiting /\ Erroneous' = Erroneous
  BY <1>1, JobStepKeeps
<1>4. DiskInv /\ AskedInv /\ Ordered(archive) /\ JobsInv /\ RxInv
  BY DEF UpdateInv
<1>5. JobsInv'
  <2> SUFFICES ASSUME cmd \in {"reading", "joining"} PROVE JobsInv'
    BY <1>1 DEF JobsInv
  <2>1. DOMAIN jobs \subseteq DOMAIN asked
    BY <1>4 DEF JobsInv
  <2>2. ASSUME NEW m \in DOMAIN jobs, m # n
        PROVE  jobs'[m].step \in {"spawned", "read", "error"} /\ Job(m)'
    <3>1. jobs[m].step \in {"spawned", "read", "error"} /\ Job(m) /\ jobs'[m] = jobs[m]
      BY <1>2, <1>4, <2>2 DEF JobsInv
    <3> QED
      BY <1>1, <3>1 DEF Job, Timely
  <2>3. Job(n)'
    <3> SUFFICES ASSUME disk[n] # 0 PROVE Job(n)'
      BY <1>2 DEF Job
    <3>1. disk[n] \in Nat /\ disk[n] <= now /\ asked[n] <= disk[n]
      BY <1>1, <1>4, <2>1 DEF DiskInv, AskedInv, Timely
    <3>2. \A k \in DOMAIN archive : archive[k].name = n => archive[k].content <= disk[n]
      BY <1>4 DEF Ordered, Honest, Timely
    <3>3. Timely(n, disk[n])
      BY <3>1 DEF Timely
    <3> QED
      BY <1>1, <1>2, <3>1, <3>2, <3>3 DEF Job, Timely
  <2>4. jobs'[n].step \in {"spawned", "read", "error"}
    BY <1>2
  <2> QED
    BY <1>1, <1>2, <1>4, <2>1, <2>2, <2>3, <2>4 DEF JobsInv
<1>6. RxInv'
  <2>1. Pending' = Pending
    BY <1>1, <1>2 DEF Pending
  <2> QED
    BY <1>1, <1>3, <1>4, <2>1 DEF RxInv
<1>7. ProgressInv'
  <2> SUFFICES ASSUME Lawful', NEW m \in DOMAIN asked' \ changed' PROVE OnTheWay(m)'
    BY DEF ProgressInv
  <2>1. OnTheWay(m)
    BY <1>1, <1>3 DEF UpdateInv, ProgressInv, Lawful
  <2>2. disk[m] # 0
    BY <1>1, <1>4 DEF AskedInv
  <2>3. Running(m) => Running(m)'
    BY <1>1, <1>2, <2>2 DEF Running
  <2>4. /\ Sent(m) => Sent(m)'
        /\ Owed(m) => Owed(m)'
        /\ Current(m, out) => Current(m, out)'
    BY <1>1, <1>3, SameSpared DEF Sent, Owed, Current
  <2> QED
    BY <1>1, <2>1, <2>3, <2>4 DEF OnTheWay
<1> QED
  BY <1>3, <1>5, <1>6, <1>7 DEF UpdateInv

\* What a job sends is an honest entry, as new as any of its name.
LEMMA SentIsResult ==
  ASSUME UpdateInv, cmd \in {"reading", "joining"}, NEW n \in DOMAIN jobs,
         jobs[n].step # "spawned",
         NEW x, x = IF jobs[n].step = "error" THEN Error
                    ELSE Entry(n, Stored(Metadata(n)), jobs[n].content)
  PROVE  /\ Result(Idx(n), x) /\ x \in Item
         /\ jobs[n].step = "read" => x.name = n /\ x.content = jobs[n].content
<1>1. DiskInv /\ AskedInv /\ JobsInv
  BY DEF UpdateInv
<1>2. n \in DOMAIN asked /\ n \in Names /\ jobs[n].step \in {"read", "error"} /\ Job(n)
  BY <1>1 DEF JobsInv, AskedInv
<1>3. CASE jobs[n].step = "error"
  BY <1>2, <1>3 DEF Result, Item
<1>4. CASE jobs[n].step = "read"
  <2> DEFINE t == Stored(asked[n])
             c == jobs[n].content
  <2>1. x = [name |-> n, mtime |-> t, content |-> c]
    BY <1>4 DEF Entry, Metadata
  <2>2. /\ c \in Nat /\ asked[n] <= c /\ Timely(n, c)
        /\ \A k \in DOMAIN archive : archive[k].name = n => archive[k].content <= c
    BY <1>2, <1>4 DEF Job
  <2>3. asked[n] \in Nat /\ 0 < asked[n]
    BY <1>1, <1>2 DEF AskedInv
  <2>4. /\ t \in Nat /\ 0 < c
        /\ t <= c \/ ("override" \in Timestamps /\ t = Given)
    BY <1>1, <2>2, <2>3, TimesAssumption DEF Stored, DiskInv
  <2> HIDE DEF t, c
  <2>5. x \in EntryType /\ x.name = n /\ x.mtime = t /\ x.content = c
    BY <1>2, <2>1, <2>2, <2>4 DEF EntryType
  <2>6. Honest(x)
    BY <2>2, <2>4, <2>5 DEF Honest
  <2>7. Above(x, archive)
    BY <2>2, <2>5 DEF Above
  <2> QED
    BY <1>2, <2>5, <2>6, <2>7 DEF Result, Item, c
<1> QED
  BY <1>2, <1>3, <1>4

LEMMA SendKeeps ==
  ASSUME UpdateInv, NEW n \in Names, Send(n)
  PROVE  UpdateInv'
<1> DEFINE x == IF jobs[n].step = "error" THEN Error
                ELSE Entry(n, Stored(Metadata(n)), jobs[n].content)
<1>1. /\ n \in DOMAIN jobs /\ jobs[n].step # "spawned"
      /\ rx' = Append(rx, <<Idx(n), x>>)
      /\ jobs' = [m \in DOMAIN jobs \ {n} |-> jobs[m]]
      /\ UNCHANGED <<disk, now, archive, cmd, opt, asked, targets, pos, out, status,
                     changed, rvars>>
  BY DEF Send, Without, Restrict, diskvars
<1>2. DOMAIN jobs' = DOMAIN jobs \ {n} /\ \A m \in DOMAIN jobs' : jobs'[m] = jobs[m]
  BY <1>1
<1>3. /\ DiskInv' /\ AskedInv' /\ Ordered(archive)' /\ TargetsInv' /\ StagedInv'
      /\ AddInv' /\ DoneInv'
      /\ \A i, y : Result(i, y) => Result(i, y)'
      /\ \A m : Idx(m)' = Idx(m)
      /\ Waiting' = Waiting /\ Erroneous' = Erroneous
  BY <1>1, JobStepKeeps
<1>4. DiskInv /\ AskedInv /\ Ordered(archive) /\ TargetsInv /\ JobsInv /\ RxInv
  BY DEF UpdateInv
<1>5. JobsInv'
  <2> SUFFICES ASSUME cmd \in {"reading", "joining"} PROVE JobsInv'
    BY <1>1 DEF JobsInv
  <2>1. ASSUME NEW m \in DOMAIN jobs'
        PROVE  jobs'[m].step \in {"spawned", "read", "error"} /\ Job(m)'
    <3>1. jobs[m].step \in {"spawned", "read", "error"} /\ Job(m) /\ jobs'[m] = jobs[m]
      BY <1>2, <1>4 DEF JobsInv
    <3> QED
      BY <1>1, <3>1 DEF Job, Timely
  <2> QED
    BY <1>1, <1>2, <1>4, <2>1 DEF JobsInv
<1> SUFFICES ASSUME cmd \in {"reading", "joining"} PROVE RxInv' /\ ProgressInv'
  <2>1. CASE cmd \in {"reading", "joining"}
    BY <1>3, <1>5, <2>1 DEF UpdateInv
  <2>2. CASE cmd \notin {"reading", "joining"}
    <3>1. RxInv'
      BY <1>1, <2>2 DEF RxInv
    <3>2. ProgressInv'
      BY <1>1, <1>3, <2>2, SameSpared DEF UpdateInv, ProgressInv, Lawful, OnTheWay, Owed, Current
    <3> QED
      BY <1>3, <1>5, <3>1, <3>2 DEF UpdateInv
  <2> QED
    BY <2>1, <2>2
<1>6. /\ Result(Idx(n), x) /\ x \in Item
      /\ jobs[n].step = "read" => x.name = n /\ x.content = jobs[n].content
  BY <1>1, SentIsResult
<1>7. /\ DOMAIN jobs \subseteq DOMAIN asked /\ jobs[n].step \in {"read", "error"} /\ Job(n)
      /\ n \in DOMAIN asked
  BY <1>1, <1>4 DEF JobsInv
<1>8. rx' = Append(rx, <<Idx(n), x>>)
  BY <1>1
<1> HIDE DEF x
<1>9. /\ \A m \in DOMAIN asked : Idx(m) \in Nat
      /\ \A m, k \in DOMAIN asked : m # k => Idx(m) # Idx(k)
  BY <1>4, PlacesDiffer DEF AskedInv
<1>10. rx \in Seq(Nat \X Item)
  BY <1>4 DEF RxInv
<1>11. /\ rx' \in Seq(Nat \X Item) /\ Len(rx) \in Nat /\ DOMAIN rx = 1..Len(rx)
       /\ DOMAIN rx' = 1..(Len(rx) + 1)
       /\ rx'[Len(rx) + 1] = <<Idx(n), x>> /\ \A k \in DOMAIN rx : rx'[k] = rx[k]
  BY <1>6, <1>7, <1>8, <1>9, <1>10
<1>12. \A k \in DOMAIN rx' : k \in DOMAIN rx \/ k = Len(rx) + 1
  BY <1>11
<1>13. /\ rx'[Len(rx) + 1][1] = Idx(n) /\ rx'[Len(rx) + 1][2] = x
       /\ Len(rx) + 1 \in DOMAIN rx' /\ DOMAIN rx \subseteq DOMAIN rx'
  BY <1>11
<1>14. n \in Pending /\ \A m \in Pending' : m \in Pending /\ m # n
  <2>1. Pending' = DOMAIN jobs' \cup (IF cmd = "reading" THEN DOMAIN targets ELSE {})
    BY <1>1 DEF Pending
  <2>2. cmd = "reading" => n \notin DOMAIN targets
    BY <1>1, <1>4 DEF JobsInv
  <2> QED
    BY <1>1, <1>2, <2>1, <2>2 DEF Pending
<1>15. RxInv'
  <2>1. ASSUME NEW k \in DOMAIN rx' PROVE Result(rx[k][1], rx[k][2])'
    <3>1. CASE k \in DOMAIN rx
      BY <1>3, <1>4, <1>11, <3>1 DEF RxInv
    <3>2. CASE k = Len(rx) + 1
      BY <1>3, <1>6, <1>13, <3>2
    <3> QED
      BY <1>12, <3>1, <3>2
  <2>2. ASSUME NEW j \in DOMAIN rx', NEW k \in DOMAIN rx', j # k
        PROVE  rx'[j][1] # rx'[k][1]
    <3>1. \A i \in DOMAIN rx : rx'[i][1] # Idx(n)
      BY <1>4, <1>11, <1>14 DEF RxInv
    <3>2. \A i, h \in DOMAIN rx : i # h => rx'[i][1] # rx'[h][1]
      BY <1>4, <1>11 DEF RxInv
    <3> QED
      BY <1>12, <1>13, <2>2, <3>1, <3>2
  <2>3. ASSUME NEW k \in DOMAIN rx', NEW m \in Pending' PROVE rx'[k][1] # Idx(m)'
    <3>1. m \in Pending /\ m # n /\ Idx(m)' = Idx(m)
      BY <1>3, <1>14
    <3>2. CASE k \in DOMAIN rx
      BY <1>4, <1>11, <3>1, <3>2 DEF RxInv
    <3>3. CASE k = Len(rx) + 1
      <4>1. m \in DOMAIN asked
        BY <1>4, <1>7, <3>1 DEF Pending, TargetsInv
      <4> QED
        BY <1>7, <1>9, <1>13, <3>1, <3>3, <4>1
    <3> QED
      BY <1>12, <3>2, <3>3
  <2> QED
    BY <1>11, <2>1, <2>2, <2>3 DEF RxInv
<1>16. ProgressInv'
  <2> SUFFICES ASSUME Lawful', NEW m \in DOMAIN asked' \ changed' PROVE OnTheWay(m)'
    BY DEF ProgressInv
  <2>1. OnTheWay(m)
    BY <1>1, <1>3 DEF UpdateInv, ProgressInv, Lawful
  <2>2. Sent(m) => Sent(m)'
    BY <1>1, <1>11, <1>13 DEF Sent
  <2>3. Running(m) => Running(m)' \/ Sent(m)'
    <3>1. m # n /\ Running(m) => Running(m)'
      BY <1>1, <1>2 DEF Running
    <3>2. Running(n) => Sent(n)'
      BY <1>1, <1>6, <1>7, <1>13 DEF Running, Sent
    <3> QED
      BY <3>1, <3>2
  <2>4. Current(m, out) => Current(m, out)'
    BY <1>1, SameSpared DEF Current
  <2> QED
    BY <1>1, <2>1, <2>2, <2>3, <2>4 DEF OnTheWay
<1> QED
  BY <1>15, <1>16

-----------------------------------------------------------------------------
(* The results are put in order and added.                                 *)

\* The results are handed over to the iterator.
LEMMA JoinKeeps == UpdateInv /\ Join => UpdateInv'
<1> SUFFICES ASSUME UpdateInv, Join PROVE UpdateInv'
  OBVIOUS
<1>1. /\ cmd = "joining" /\ DOMAIN jobs = {} /\ cmd' = "adding"
      /\ source' = rx /\ next' = 0 /\ buffer' = <<>> /\ exhausted' = FALSE /\ yielded' = <<>>
      /\ UNCHANGED <<disk, now, archive, opt, asked, targets, pos, out, jobs, rx, status,
                     changed>>
  BY DEF Join, Iterate, diskvars
<1>2. DiskInv /\ AskedInv /\ Ordered(archive) /\ RxInv /\ StagedInv
  BY DEF UpdateInv
<1>3. DiskInv'
  BY <1>1, <1>2 DEF DiskInv
<1>4. AskedInv'
  BY <1>1, <1>2 DEF AskedInv, Timely
<1>5. Ordered(archive)' /\ Ordered(out) /\ Ordered(out)'
  BY <1>1, <1>2, SameOrder DEF StagedInv
<1>6. TargetsInv' /\ JobsInv' /\ RxInv' /\ StagedInv' /\ DoneInv'
  BY <1>1 DEF TargetsInv, JobsInv, RxInv, StagedInv, DoneInv, Done
<1>7. DOMAIN buffer' = {} /\ Waiting' = {rx[k] : k \in DOMAIN rx}
  BY <1>1 DEF Waiting
<1>8. AddInv'
  <2>1. ReorderTypes'
    BY <1>1, <1>2, <1>7 DEF ReorderTypes, RxInv
  <2>2. Separate'
    BY <1>1, <1>2, <1>7 DEF Separate, RxInv
  <2>3. \A i, x : Result(i, x) => Result(i, x)'
    BY <1>1, SameResult
  <2>4. \A p \in Waiting' : Result(p[1], p[2])
    BY <1>1, <1>2, <1>7 DEF RxInv
  <2>5. ASSUME NEW p \in Waiting', p[2] # Error PROVE Above(p[2], out)
    <3>1. Above(p[2], archive)
      BY <2>4, <2>5 DEF Result
    <3>2. \A j \in DOMAIN out : \E k \in DOMAIN archive : out[j] = archive[k]
      BY <1>1, <1>2 DEF StagedInv
    <3> QED
      BY <3>1, <3>2 DEF Above
  <2>6. \A x : Above(x, out)' = Above(x, out)
    BY <1>1 DEF Above
  <2>7. \A p \in Waiting' : p[2] # Error => Above(p[2], out)'
    BY <2>5, <2>6
  <2>8. \A p \in Waiting' : Result(p[1], p[2])'
    BY <2>3, <2>4
  <2> QED
    BY <1>5, <2>1, <2>2, <2>7, <2>8 DEF AddInv
<1>9. ProgressInv'
  <2> SUFFICES ASSUME Lawful', NEW m \in DOMAIN asked' \ changed' PROVE OnTheWay(m)'
    BY DEF ProgressInv
  <2>1. OnTheWay(m)
    BY <1>1 DEF UpdateInv, ProgressInv, Lawful
  <2>2. ~Running(m)
    BY <1>1 DEF Running
  <2>3. Sent(m) => Owed(m)'
    BY <1>1, <1>7 DEF Sent, Owed
  <2>4. Current(m, out) => Current(m, out)'
    BY <1>1, SameSpared DEF Current
  <2> QED
    BY <1>1, <2>1, <2>2, <2>3, <2>4 DEF OnTheWay
<1> QED
  BY <1>3, <1>4, <1>5, <1>6, <1>8, <1>9 DEF UpdateInv

\* No two results that wait have one index.
LEMMA WaitingDiffer ==
  ASSUME ReorderTypes, Separate
  PROVE  /\ Waiting \subseteq Nat \X Item
         /\ \A p, q \in Waiting : p[1] = q[1] => p = q
<1>1. \A k \in DOMAIN source : source[k] \in Nat \X Item
  BY DEF ReorderTypes
<1>2. \A i \in DOMAIN buffer : i \in Nat /\ buffer[i] \in Item /\ <<i, buffer[i]>>[1] = i
  BY DEF ReorderTypes
<1>3. Waiting \subseteq Nat \X Item
  BY <1>1, <1>2 DEF Waiting
<1>4. ASSUME NEW p \in Waiting, NEW q \in Waiting, p[1] = q[1] PROVE p = q
  <2>1. CASE \E k \in DOMAIN source : p = source[k]
    <3>1. PICK k \in DOMAIN source : p = source[k]
      BY <2>1
    <3>2. CASE \E j \in DOMAIN source : q = source[j]
      BY <1>4, <3>1, <3>2 DEF Separate
    <3>3. CASE \E i \in DOMAIN buffer : q = <<i, buffer[i]>>
      BY <1>2, <1>4, <3>1, <3>3 DEF Separate
    <3> QED
      BY <3>2, <3>3 DEF Waiting
  <2>2. CASE \E i \in DOMAIN buffer : p = <<i, buffer[i]>>
    <3>1. PICK i \in DOMAIN buffer : p = <<i, buffer[i]>>
      BY <2>2
    <3>2. CASE \E j \in DOMAIN source : q = source[j]
      BY <1>2, <1>4, <3>1, <3>2 DEF Separate
    <3>3. CASE \E j \in DOMAIN buffer : q = <<j, buffer[j]>>
      BY <1>2, <1>4, <3>1, <3>3
    <3> QED
      BY <3>2, <3>3 DEF Waiting
  <2> QED
    BY <2>1, <2>2 DEF Waiting
<1> QED
  BY <1>3, <1>4

\* A turn of the iterator yields the result of the index expected, or none, and
\* never loses one nor leaves one behind.
InTime == \A p \in Waiting : next <= p[1]
OneYielded ==
  \/ /\ yielded' = yielded /\ Waiting' = Waiting
     /\ InTime => next <= next' /\ \A p \in Waiting : next' <= p[1]
  \/ \E p \in Waiting : /\ yielded' = Append(yielded, p[2])
                        /\ Waiting' = Waiting \ {p}
                        /\ p[1] = next /\ next' = next + 1

LEMMA ReorderEffect ==
  ASSUME ReorderTypes, Separate, ReorderNext
  PROVE  ReorderTypes' /\ Separate' /\ OneYielded
<1> DEFINE Left == {source[k] : k \in DOMAIN source}
           Held == {<<i, buffer[i]>> : i \in DOMAIN buffer}
<1>1. /\ source \in Seq(Nat \X Item) /\ yielded \in Seq(Item) /\ next \in Nat
      /\ DOMAIN buffer \subseteq Nat /\ \A i \in DOMAIN buffer : buffer[i] \in Item
      /\ exhausted => source = <<>>
  BY DEF ReorderTypes
<1>2. Waiting = Left \cup Held
  BY DEF Waiting
<1>3. /\ Waiting \subseteq Nat \X Item
      /\ \A p, q \in Waiting : p[1] = q[1] => p = q
  BY WaitingDiffer
<1>4. CASE TakeBuffered
  <2>1. /\ next \in DOMAIN buffer /\ yielded' = Append(yielded, buffer[next])
        /\ next' = next + 1 /\ UNCHANGED <<source, exhausted>>
        /\ buffer' = [i \in DOMAIN buffer \ {next} |-> buffer[i]]
    BY <1>4 DEF TakeBuffered, Yield, Restrict
  <2>2. DOMAIN buffer' = DOMAIN buffer \ {next} /\ \A i \in DOMAIN buffer' : buffer'[i] = buffer[i]
    BY <2>1
  <2>3. ReorderTypes'
    BY <1>1, <2>1, <2>2 DEF ReorderTypes
  <2>4. Separate'
    BY <2>1, <2>2 DEF Separate
  <2> DEFINE p == <<next, buffer[next]>>
             Held2 == {<<i, buffer'[i]>> : i \in DOMAIN buffer'}
  <2>5. Waiting' = Left \cup Held2
    BY <2>1 DEF Waiting
  <2>6. p \in Held /\ p[1] = next /\ p[2] = buffer[next]
    BY <2>1
  <2>7. Held2 = Held \ {p}
    <3>1. Held2 \subseteq Held /\ p \notin Held2
      BY <2>2
    <3>2. ASSUME NEW q \in Held, q # p PROVE q \in Held2
      <4>1. PICK i \in DOMAIN buffer : q = <<i, buffer[i]>>
        OBVIOUS
      <4>2. i # next
        BY <3>2, <4>1
      <4> QED
        BY <2>2, <4>1, <4>2
    <3> QED
      BY <3>1, <3>2
  <2>8. p \notin Left
    BY <2>1, <2>6 DEF Separate
  <2> HIDE DEF p, Held2, Left, Held
  <2>9. Waiting' = Waiting \ {p} /\ p \in Waiting /\ yielded' = Append(yielded, p[2])
    BY <1>2, <2>1, <2>5, <2>6, <2>7, <2>8
  <2> QED
    BY <2>1, <2>3, <2>4, <2>6, <2>9 DEF OneYielded
<1>5. CASE SkipGap
  <2>1. /\ DOMAIN buffer # {} /\ next' = Lowest(DOMAIN buffer)
        /\ UNCHANGED <<source, buffer, exhausted, yielded>>
    BY <1>5 DEF SkipGap
  <2>2. \E x \in DOMAIN buffer : \A y \in DOMAIN buffer : x <= y
    BY <1>1, <2>1, LeastElement
  <2>3. next' \in Nat
    BY <1>1, <2>1, <2>2 DEF Lowest, Min
  <2>4. ReorderTypes' /\ Separate'
    BY <1>1, <2>1, <2>3 DEF ReorderTypes, Separate
  <2>5. ASSUME InTime PROVE next <= next' /\ \A p \in Waiting : next' <= p[1]
    <3>1. source = <<>>
      BY <1>1, <1>5 DEF SkipGap
    <3>2. next' \in DOMAIN buffer /\ \A i \in DOMAIN buffer : next' <= i
      BY <1>1, <2>1, <2>2 DEF Lowest, Min
    <3>3. \A p \in Waiting : p[1] \in DOMAIN buffer
      BY <3>1 DEF Waiting
    <3>4. <<next', buffer[next']>> \in Waiting /\ <<next', buffer[next']>>[1] = next'
      BY <3>2 DEF Waiting
    <3> QED
      BY <2>5, <3>2, <3>3, <3>4 DEF InTime
  <2>6. OneYielded
    BY <2>1, <2>5 DEF OneYielded, Waiting
  <2> QED
    BY <2>4, <2>6
<1>6. CASE Pull
  <2> DEFINE p == source[1]
             Left2 == {source'[k] : k \in DOMAIN source'}
  <2>1. /\ ~exhausted /\ source # <<>> /\ source' = Tail(source) /\ exhausted' = exhausted
        /\ \/ /\ yielded' = Append(yielded, p[2]) /\ next' = next + 1 /\ buffer' = buffer
              /\ p[1] = next
           \/ /\ buffer' = [n \in DOMAIN buffer \cup {p[1]} |->
                              IF n = p[1] THEN p[2] ELSE buffer[n]]
              /\ UNCHANGED <<next, yielded>>
    BY <1>6 DEF Pull, Yield, Expected
  <2>2. /\ source' \in Seq(Nat \X Item) /\ Len(source) \in Nat /\ Len(source) >= 1
        /\ DOMAIN source = 1..Len(source) /\ DOMAIN source' = 1..(Len(source) - 1)
        /\ \A k \in DOMAIN source' : source'[k] = source[k + 1]
    BY <1>1, <2>1
  <2>3. 1 \in DOMAIN source /\ p \in Nat \X Item /\ p \in Left /\ p[1] \notin DOMAIN buffer
    BY <1>1, <2>2 DEF Separate
  <2>4. \A k \in DOMAIN source' : k + 1 \in DOMAIN source /\ k + 1 # 1
    BY <2>2
  <2>5. \A k \in DOMAIN source' : source'[k][1] # p[1] /\ source'[k][1] \notin DOMAIN buffer
    BY <2>2, <2>3, <2>4 DEF Separate
  <2>6. \A j, k \in DOMAIN source' : j # k => source'[j][1] # source'[k][1]
    <3> SUFFICES ASSUME NEW j \in DOMAIN source', NEW k \in DOMAIN source', j # k
                 PROVE  source'[j][1] # source'[k][1]
      OBVIOUS
    <3>1. j + 1 # k + 1
      BY <2>2
    <3> QED
      BY <2>2, <2>4, <3>1 DEF Separate
  <2>7. Left = {p} \cup Left2
    <3>1. Left2 \subseteq Left
      BY <2>2, <2>4
    <3>2. ASSUME NEW k \in DOMAIN source, k # 1 PROVE source[k] \in Left2
      <4>1. k - 1 \in DOMAIN source' /\ (k - 1) + 1 = k
        BY <2>2, <3>2
      <4> QED
        BY <2>2, <4>1
    <3> QED
      BY <2>3, <3>1, <3>2
  <2>8. p \notin Left2
    BY <2>5
  <2>9. p = <<p[1], p[2]>> /\ p[1] \in Nat /\ p[2] \in Item
    BY <2>3
  <2>10. CASE /\ yielded' = Append(yielded, p[2]) /\ next' = next + 1 /\ buffer' = buffer
              /\ p[1] = next
    <3>1. ReorderTypes'
      BY <1>1, <2>1, <2>2, <2>9, <2>10 DEF ReorderTypes
    <3>2. Separate'
      BY <2>5, <2>6, <2>10 DEF Separate
    <3>3. Waiting' = Left2 \cup Held
      BY <2>10 DEF Waiting
    <3>4. p \notin Held
      BY <2>3
    <3> HIDE DEF p, Left2, Left, Held
    <3>5. Waiting' = Waiting \ {p} /\ p \in Waiting
      BY <1>2, <2>7, <2>8, <3>3, <3>4
    <3> QED
      BY <2>10, <3>1, <3>2, <3>5 DEF OneYielded
  <2>11. CASE /\ buffer' = [n \in DOMAIN buffer \cup {p[1]} |->
                              IF n = p[1] THEN p[2] ELSE buffer[n]]
              /\ UNCHANGED <<next, yielded>>
    <3>1. /\ DOMAIN buffer' = DOMAIN buffer \cup {p[1]} /\ buffer'[p[1]] = p[2]
          /\ \A n \in DOMAIN buffer : buffer'[n] = buffer[n]
      BY <2>3, <2>11
    <3>2. ReorderTypes'
      BY <1>1, <2>1, <2>2, <2>9, <2>11, <3>1 DEF ReorderTypes
    <3>3. Separate'
      BY <2>5, <2>6, <3>1 DEF Separate
    <3> DEFINE Held2 == {<<i, buffer'[i]>> : i \in DOMAIN buffer'}
    <3>4. Waiting' = Left2 \cup Held2
      BY DEF Waiting
    <3>5. Held2 = Held \cup {p}
      BY <2>9, <3>1
    <3> HIDE DEF p, Left2, Left, Held, Held2
    <3>6. Waiting' = Waiting
      BY <1>2, <2>7, <3>4, <3>5
    <3> QED
      BY <1>1, <1>3, <2>11, <3>2, <3>3, <3>6 DEF OneYielded, InTime
  <2> QED
    BY <2>1, <2>10, <2>11
<1>7. CASE Exhaust
  <2>1. source = <<>> /\ UNCHANGED <<source, next, buffer, yielded>>
    BY <1>7 DEF Exhaust
  <2> QED
    BY <1>1, <2>1 DEF ReorderTypes, Separate, OneYielded, Waiting, InTime
<1> QED
  BY <1>4, <1>5, <1>6, <1>7 DEF ReorderNext

\* An entry is added that is as new as any of its name, and newer results of
\* that name are not to come: a file has one job.
LEMMA AddKeeps == UpdateInv /\ Add => UpdateInv'
<1> SUFFICES ASSUME UpdateInv, Add PROVE UpdateInv'
  OBVIOUS
<1>1. /\ cmd = "adding" /\ ~Erroneous /\ ReorderNext
      /\ out' = (IF yielded' = yielded THEN out ELSE Append(out, Last(yielded')))
      /\ UNCHANGED <<disk, now, archive, cmd, opt, asked, targets, pos, jobs, rx, status,
                     changed>>
  BY DEF Add, diskvars
<1>2. /\ DiskInv /\ AskedInv /\ Ordered(archive)
      /\ ReorderTypes /\ Separate /\ \A p \in Waiting : Result(p[1], p[2])
      /\ Ordered(out) /\ \A p \in Waiting : p[2] # Error => Above(p[2], out)
  BY <1>1 DEF UpdateInv, AddInv
<1>3. DiskInv'
  BY <1>1, <1>2 DEF DiskInv
<1>4. AskedInv'
  BY <1>1, <1>2 DEF AskedInv, Timely
<1>5. Ordered(archive)'
  BY <1>1, <1>2, SameOrder
<1>6. TargetsInv' /\ JobsInv' /\ RxInv' /\ StagedInv' /\ DoneInv'
  BY <1>1 DEF TargetsInv, JobsInv, RxInv, StagedInv, DoneInv, Done
<1>7. ReorderTypes' /\ Separate' /\ OneYielded
  BY <1>1, <1>2, ReorderEffect
<1>8. \A i, x : Result(i, x) => Result(i, x)'
  BY <1>1, SameResult
<1>9. yielded \in Seq(Item)
  BY <1>2 DEF ReorderTypes
<1>10. SUFFICES AddInv' /\ ProgressInv'
  BY <1>3, <1>4, <1>5, <1>6 DEF UpdateInv
<1>11. ASSUME NEW m \in DOMAIN asked' \ changed', Lawful' PROVE OnTheWay(m)
  BY <1>1, <1>11 DEF UpdateInv, ProgressInv, Lawful
<1>12. CASE yielded' = yielded /\ Waiting' = Waiting
  <2>1. out' = out
    BY <1>1, <1>12
  <2>2. Ordered(out)' /\ \A x : Above(x, out)' = Above(x, out)
    BY <1>1, <1>2, <2>1, SameOrder DEF Above
  <2>3. AddInv'
    BY <1>2, <1>7, <1>8, <1>12, <2>2 DEF AddInv
  <2>4. ASSUME NEW m \in DOMAIN asked' \ changed', OnTheWay(m) PROVE OnTheWay(m)'
    BY <1>1, <1>12, <2>1, <2>4, SameSpared DEF OnTheWay, Owed, Current
  <2>5. ProgressInv'
    BY <1>11, <2>4 DEF ProgressInv
  <2> QED
    BY <2>3, <2>5
<1>13. ASSUME NEW p \in Waiting, yielded' = Append(yielded, p[2]), Waiting' = Waiting \ {p}
       PROVE  AddInv' /\ ProgressInv'
  <2> DEFINE x == p[2]
  <2>1. /\ Waiting \subseteq Nat \X Item
        /\ \A q \in Waiting : p[1] = q[1] => p = q
    BY <1>2, WaitingDiffer
  <2>2. x \in Item /\ Result(p[1], x) /\ (x # Error => Above(x, out))
    BY <1>2, <2>1
  <2>3. yielded' = Append(yielded, x)
    BY <1>13
  <2> HIDE DEF x
  <2>4. yielded' # yielded /\ yielded' # <<>> /\ Last(yielded') = x
    <3>1. /\ Len(yielded') = Len(yielded) + 1 /\ Len(yielded) \in Nat
          /\ yielded'[Len(yielded')] = x
      BY <1>9, <2>2, <2>3
    <3> QED
      BY <3>1 DEF Last
  <2>5. out' = Append(out, x)
    BY <1>1, <2>4
  <2>6. Erroneous' <=> x = Error
    BY <2>4 DEF Erroneous
  <2>7. \A q \in Waiting' : Result(q[1], q[2])'
    BY <1>2, <1>8, <1>13
  <2>8. CASE x = Error
    <3>1. AddInv'
      BY <1>7, <2>6, <2>7, <2>8 DEF AddInv
    <3>2. ProgressInv'
      BY <1>1, <2>6, <2>8 DEF ProgressInv, Lawful
    <3> QED
      BY <3>1, <3>2
  <2>9. CASE x # Error
    <3>1. PICK n \in DOMAIN asked :
            p[1] = Idx(n) /\ Honest(x) /\ x.name = n /\ Above(x, archive)
      BY <2>2, <2>9 DEF Result
    <3>2. Ordered(Append(out, x))
      BY <1>2, <2>2, <2>9, <3>1, OrderedAppend
    <3>3. Ordered(out') /\ Ordered(out)'
      BY <1>1, <2>5, <3>2, SameHonest DEF Ordered
    <3>4. /\ Len(out) \in Nat /\ DOMAIN out = 1..Len(out) /\ DOMAIN out' = 1..(Len(out) + 1)
          /\ out'[Len(out) + 1] = x /\ \A k \in DOMAIN out : out'[k] = out[k]
      <4>1. out \in Seq(EntryType) /\ x \in EntryType
        BY <1>2, <3>1 DEF Ordered, Honest
      <4> QED
        BY <2>5, <4>1
    <3>5. \A k \in DOMAIN out' : k \in DOMAIN out \/ k = Len(out) + 1
      BY <3>4
    <3>6. ASSUME NEW q \in Waiting', q[2] # Error PROVE Above(q[2], out)'
      <4>1. q \in Waiting /\ q # p
        BY <1>13
      <4>2. PICK m \in DOMAIN asked : q[1] = Idx(m) /\ q[2].name = m
        BY <1>2, <3>6, <4>1 DEF Result
      <4>3. m # n
        BY <2>1, <3>1, <4>1, <4>2
      <4>4. Above(q[2], out)
        BY <1>2, <3>6, <4>1
      <4> QED
        BY <3>1, <3>4, <3>5, <4>2, <4>3, <4>4 DEF Above
    <3>7. AddInv'
      BY <1>7, <2>7, <3>3, <3>6 DEF AddInv
    <3>8. ASSUME NEW m \in DOMAIN asked' \ changed', OnTheWay(m) PROVE OnTheWay(m)'
      <4>1. Owed(m) \/ Current(m, out)
        BY <1>1, <3>8 DEF OnTheWay
      <4>2. Current(m, out) => Current(m, out)'
        BY <1>1, <3>4, SameSpared DEF Current
      <4>3. ASSUME Owed(m) PROVE Owed(m)' \/ Current(m, out)'
        <5>1. PICK q \in Waiting : q[2].name = m /\ q[2].content = disk[m]
          BY <4>3 DEF Owed
        <5>2. CASE q = p
          <6>1. Len(out) + 1 \in DOMAIN out' /\ x.name = m /\ x.content = disk[m]
            BY <3>4, <5>1, <5>2 DEF x
          <6>2. Current(m, out)'
            BY <1>1, <3>4, <6>1, SameSpared DEF Current
          <6> QED
            BY <6>2
        <5>3. CASE q # p
          BY <1>1, <1>13, <5>1, <5>3 DEF Owed
        <5> QED
          BY <5>2, <5>3
      <4> QED
        BY <1>1, <4>1, <4>2, <4>3 DEF OnTheWay
    <3>9. ProgressInv'
      BY <1>11, <3>8 DEF ProgressInv
    <3> QED
      BY <3>7, <3>9
  <2> QED
    BY <2>8, <2>9
<1> QED
  BY <1>7, <1>12, <1>13 DEF OneYielded

\* The staged archive takes the place of the archive.
LEMMA CommitKeeps == UpdateInv /\ Commit => UpdateInv'
<1> SUFFICES ASSUME UpdateInv, Commit PROVE UpdateInv'
  OBVIOUS
<1>1. /\ cmd = "adding" /\ ~Erroneous /\ Ended /\ archive' = out /\ cmd' = "idle"
      /\ UNCHANGED <<disk, now, opt, asked, changed>>
  BY DEF Commit, Return, diskvars
<1>2. /\ DiskInv /\ AskedInv /\ ReorderTypes /\ Ordered(out)
  BY <1>1 DEF UpdateInv, AddInv
<1>3. DiskInv'
  BY <1>1, <1>2 DEF DiskInv
<1>4. AskedInv'
  BY <1>1, <1>2 DEF AskedInv, Timely
<1>5. Ordered(archive)'
  BY <1>1, <1>2, SameHonest DEF Ordered
<1>6. TargetsInv' /\ JobsInv' /\ RxInv' /\ StagedInv' /\ AddInv' /\ ProgressInv'
  BY <1>1 DEF TargetsInv, JobsInv, RxInv, StagedInv, AddInv, ProgressInv, Lawful
<1>7. Waiting = {}
  <2>1. source = <<>> /\ DOMAIN buffer = {}
    BY <1>1, <1>2 DEF Ended, ReorderTypes
  <2> QED
    BY <2>1 DEF Waiting
<1>8. DoneInv'
  <2> SUFFICES ASSUME NEW m \in DOMAIN asked \ changed PROVE Current(m, archive)'
    BY <1>1 DEF DoneInv
  <2>1. OnTheWay(m)
    BY <1>1 DEF UpdateInv, ProgressInv, Lawful
  <2>2. Current(m, out)
    BY <1>1, <1>7, <2>1 DEF OnTheWay, Owed
  <2> QED
    BY <1>1, <2>2, SameSpared DEF Current
<1> QED
  BY <1>3, <1>4, <1>5, <1>6, <1>8 DEF UpdateInv

LEMMA StutterKeeps == UpdateInv /\ UNCHANGED vars => UpdateInv'
<1> SUFFICES ASSUME UpdateInv, UNCHANGED vars PROVE UpdateInv'
  OBVIOUS
<1>1. UNCHANGED <<disk, now, archive, cmd, opt, asked, targets, pos, out, status, changed,
                  rvars>> /\ UNCHANGED <<jobs, rx>>
  BY DEF vars, diskvars
<1>2. /\ DiskInv' /\ AskedInv' /\ Ordered(archive)' /\ TargetsInv' /\ StagedInv'
      /\ AddInv' /\ DoneInv'
      /\ \A i, x : Result(i, x) => Result(i, x)'
      /\ \A m : Idx(m)' = Idx(m)
      /\ Waiting' = Waiting /\ Erroneous' = Erroneous
  BY <1>1, JobStepKeeps
<1>3. JobsInv'
  BY <1>1 DEF UpdateInv, JobsInv, Job, Timely
<1>4. RxInv'
  BY <1>1, <1>2 DEF UpdateInv, RxInv, Pending
<1>5. ProgressInv'
  BY <1>1, <1>2, SameSpared DEF UpdateInv, ProgressInv, Lawful, OnTheWay, Running, Sent, Owed, Current
<1> QED
  BY <1>2, <1>3, <1>4, <1>5 DEF UpdateInv

LEMMA UpdateStep == UpdateInv /\ [Next]_vars => UpdateInv'
<1> SUFFICES ASSUME UpdateInv, [Next]_vars PROVE UpdateInv'
  OBVIOUS
<1>1. CASE Start
  BY <1>1, StartKeeps
<1>2. CASE ReadEntry
  BY <1>2, ReadEntryKeeps
<1>3. CASE EndOfEntries
  BY <1>3, EndOfEntriesKeeps
<1>4. CASE Join
  BY <1>4, JoinKeeps
<1>5. CASE Add
  BY <1>5, AddKeeps
<1>6. CASE AddFails
  BY <1>6, FailKeeps DEF AddFails
<1>7. CASE Fails
  BY <1>7, FailKeeps DEF Fails
<1>8. CASE Commit
  BY <1>8, CommitKeeps
<1>9. CASE \E n \in Names : ReadContent(n)
  BY <1>9, ReadContentKeeps
<1>10. CASE \E n \in Names : Send(n)
  BY <1>10, SendKeeps
<1>11. CASE \E n \in Names : Change(n)
  BY <1>11, ChangeKeeps
<1>12. CASE UNCHANGED vars
  BY <1>12, StutterKeeps
<1> QED
  BY <1>1, <1>2, <1>3, <1>4, <1>5, <1>6, <1>7, <1>8, <1>9, <1>10, <1>11, <1>12
  DEF Next, Command

-----------------------------------------------------------------------------
(* The theorem.                                                            *)

\* If some entry of a name has the content of its file, so has the last one.
LEMMA LastIsCurrent ==
  ASSUME UpdateInv, NEW n \in DOMAIN asked \ changed, NEW i \in DOMAIN archive,
         archive[i].name = n
  PROVE  \E k \in DOMAIN archive :
           /\ archive[k].name = n /\ IsLast(k)
           /\ archive[i].content = disk[n] => archive[k].content = disk[n]
<1>1. /\ archive \in Seq(EntryType) /\ DOMAIN archive = 1..Len(archive) /\ Len(archive) \in Nat
      /\ disk[n] \in Nat /\ 0 < disk[n]
  BY DEF UpdateInv, Ordered, DiskInv, AskedInv
\* counted from the end, the first
<1> DEFINE S == {Len(archive) - k : k \in {j \in DOMAIN archive : archive[j].name = n}}
<1>2. S \subseteq Nat /\ S # {}
  BY <1>1
<1>3. PICK d \in S : \A e \in S : d <= e
  BY <1>2, LeastElement
<1>4. PICK k \in DOMAIN archive : archive[k].name = n /\ d = Len(archive) - k
  OBVIOUS
<1>5. \A j \in DOMAIN archive : archive[j].name = n => Len(archive) - j \in S
  OBVIOUS
<1> HIDE DEF S
<1>6. \A j \in DOMAIN archive : archive[j].name = n => j <= k
  BY <1>1, <1>3, <1>4, <1>5
<1>7. archive[k].content \in Nat /\ archive[k].content <= disk[n]
  <2>1. Honest(archive[k])
    BY DEF UpdateInv, Ordered
  <2> QED
    BY <1>1, <1>4, <2>1 DEF Honest, EntryType, Timely
<1>8. i = k \/ i < k
  BY <1>1, <1>6
<1>9. archive[i].content = disk[n] => disk[n] <= archive[k].content
  BY <1>1, <1>4, <1>7, <1>8 DEF UpdateInv, Ordered
<1> QED
  BY <1>1, <1>4, <1>6, <1>7, <1>9 DEF IsLast

\* However files change while commands run, in whatever order jobs end and
\* whatever the options: after `pna update` the last entry of each file that
\* was asked for and left alone has the file's content, unless an entry is
\* spared that has a time given by --mtime, the whole second of the change, or
\* no time at all; and but for --mtime no entry claims to be newer than its
\* content (run_update_archive, is_newer_than_archive, create_entry).
THEOREM UpdatesAreUpToDate == Spec => []UpToDate
<1>1. UpdateInv => UpToDate
  <2> SUFFICES ASSUME UpdateInv PROVE UpToDate
    OBVIOUS
  <2>1. \A k \in DOMAIN archive :
          \/ archive[k].mtime <= archive[k].content
          \/ "override" \in Timestamps /\ archive[k].mtime = Given
    BY DEF UpdateInv, Ordered, Honest
  <2>2. ASSUME Done, NEW n \in DOMAIN asked \ changed
        PROVE  \E k \in DOMAIN archive :
                 /\ archive[k].name = n /\ IsLast(k)
                 /\ \/ archive[k].content = disk[n]
                    \/ \E j \in DOMAIN archive :
                         archive[j].name = n /\ Spared(archive[j], disk[n])
    <3>1. PICK i \in DOMAIN archive :
            archive[i].name = n
            /\ (archive[i].content = disk[n] \/ Spared(archive[i], disk[n]))
      BY <2>2 DEF UpdateInv, DoneInv, Current
    <3>2. PICK k \in DOMAIN archive :
            /\ archive[k].name = n /\ IsLast(k)
            /\ archive[i].content = disk[n] => archive[k].content = disk[n]
      BY <3>1, LastIsCurrent
    <3> QED
      BY <3>1, <3>2
  <2> QED
    BY <2>1, <2>2 DEF UpToDate
<1> QED
  BY <1>1, InitKeeps, UpdateStep, PTL DEF Spec

-----------------------------------------------------------------------------
(* What an update leaves out, and what it leaves alone.                    *)

\* The staged archive is of use: there is no error among the results added.
Sound == cmd \in {"reading", "joining"} \/ (cmd = "adding" /\ ~Erroneous)

\* A result never comes too late.
NextInv == cmd = "adding" => InTime
PosInv == cmd \in {"joining", "adding"} => pos = Len(archive)
\* Nothing staged is of a file that was gone before the command began.
GoneInv ==
  Sound /\ opt.sync => \A k \in DOMAIN out : disk[out[k].name] # 0 \/ out[k].name \in changed
\* Entries read are staged if no file asked for and no file gone concerns them.
RestInv ==
  Sound => SameEntries({k \in Rest(archive) : k <= pos}, archive, Rest(out), out)
\* Without --sync all of them are, and then come the results so far.
AppendInv ==
  Sound /\ ~opt.sync =>
    /\ pos <= Len(out) /\ \A k \in 1..pos : out[k] = archive[k]
    /\ cmd # "adding" => Len(out) = pos
    /\ \A k \in DOMAIN out :
         pos < k => out[k].name \in DOMAIN asked /\ Idx(out[k].name) < next
    /\ \A j, k \in DOMAIN out : pos < j /\ j < k => out[j].name < out[k].name
KeepInv ==
  UpdateInv /\ NextInv /\ PosInv /\ GoneInv /\ RestInv /\ AppendInv /\ NoneGone

\* Fewer entries, chosen by what they are, on both sides.
LEMMA SameShrinks ==
  ASSUME NEW S, NEW s, NEW T, NEW t, SameEntries(S, s, T, t),
         NEW S2, NEW T2, S2 \subseteq S, T2 \subseteq T,
         \A k \in S, j \in T : t[j] = s[k] => (k \in S2 <=> j \in T2)
  PROVE  SameEntries(S2, s, T2, t)
<1>1. PICK f \in Surjection(S, T) : \A k \in S : /\ t[f[k]] = s[k]
                                                 /\ \A j \in S : j < k => f[j] < f[k]
  BY DEF SameEntries
<1>2. f \in [S -> T] /\ \A j \in T : \E k \in S : f[k] = j
  BY DEF Surjection
<1> DEFINE g == [k \in S2 |-> f[k]]
<1>3. \A k \in S2 : g[k] = f[k] /\ f[k] \in T2
  BY <1>1, <1>2
<1>4. \A j \in T2 : \E k \in S2 : f[k] = j
  BY <1>1, <1>2
<1>5. g \in [S2 -> T2]
  BY <1>3
<1> HIDE DEF g
<1>6. g \in Surjection(S2, T2)
  BY <1>3, <1>4, <1>5 DEF Surjection
<1>7. \A k \in S2 : /\ t[g[k]] = s[k]
                    /\ \A j \in S2 : j < k => g[j] < g[k]
  BY <1>1, <1>3
<1> QED
  BY <1>6, <1>7 DEF SameEntries

\* The same places of a longer sequence.
LEMMA SameStays ==
  ASSUME NEW S, NEW s, NEW T, NEW t, SameEntries(S, s, T, t),
         NEW u, \A j \in T : u[j] = t[j]
  PROVE  SameEntries(S, s, T, u)
<1>1. PICK f \in Surjection(S, T) : \A k \in S : /\ t[f[k]] = s[k]
                                                 /\ \A j \in S : j < k => f[j] < f[k]
  BY DEF SameEntries
<1>2. f \in [S -> T]
  BY DEF Surjection
<1>3. \A k \in S : /\ u[f[k]] = s[k]
                   /\ \A j \in S : j < k => f[j] < f[k]
  BY <1>1, <1>2
<1> QED
  BY <1>3 DEF SameEntries

\* One more entry at the end of both.
LEMMA SameGrows ==
  ASSUME NEW S, NEW s, NEW T, NEW t, SameEntries(S, s, T, t),
         NEW a \in Nat, NEW b \in Nat, S \subseteq Nat, T \subseteq Nat,
         \A k \in S : k < a, \A j \in T : j < b, t[b] = s[a]
  PROVE  SameEntries(S \cup {a}, s, T \cup {b}, t)
<1>1. PICK f \in Surjection(S, T) : \A k \in S : /\ t[f[k]] = s[k]
                                                 /\ \A j \in S : j < k => f[j] < f[k]
  BY DEF SameEntries
<1>2. f \in [S -> T] /\ \A j \in T : \E k \in S : f[k] = j
  BY DEF Surjection
<1> DEFINE g == [k \in S \cup {a} |-> IF k = a THEN b ELSE f[k]]
<1>3. g[a] = b /\ \A k \in S : k # a /\ g[k] = f[k] /\ f[k] \in T
  BY <1>2
<1>4. g \in [S \cup {a} -> T \cup {b}]
  BY <1>2, <1>3
<1> HIDE DEF g
<1>5. g \in Surjection(S \cup {a}, T \cup {b})
  BY <1>2, <1>3, <1>4 DEF Surjection
<1>6. ASSUME NEW k \in S \cup {a}
      PROVE  t[g[k]] = s[k] /\ \A j \in S \cup {a} : j < k => g[j] < g[k]
  <2>1. CASE k = a
    <3>1. \A j \in S \cup {a} : j < a => j \in S
      OBVIOUS
    <3> QED
      BY <1>3, <2>1, <3>1
  <2>2. CASE k \in S
    <3>1. \A j \in S \cup {a} : j < k => j \in S
      BY <2>2
    <3> QED
      BY <1>1, <1>3, <2>2, <3>1
  <2> QED
    BY <2>1, <2>2
<1> QED
  BY <1>5, <1>6 DEF SameEntries

\* What is staged are entries.
LEMMA StagedOrdered == UpdateInv /\ Sound => Ordered(out) /\ Ordered(archive)
  BY DEF UpdateInv, Sound, StagedInv, AddInv

LEMMA KeepInit == Init => KeepInv
<1> SUFFICES ASSUME Init PROVE KeepInv
  OBVIOUS
<1>1. cmd = "idle" /\ status = "none"
  BY DEF Init
<1>2. UpdateInv
  BY InitKeeps
<1> QED
  BY <1>1, <1>2 DEF KeepInv, NextInv, PosInv, GoneInv, RestInv, AppendInv, Sound, NoneGone, Done

\* A command that ends in failure, or has yet to begin, has staged nothing.
LEMMA KeepIdle ==
  ASSUME UpdateInv', cmd' = "idle", status' = "failed"
  PROVE  KeepInv'
  BY DEF KeepInv, NextInv, PosInv, GoneInv, RestInv, AppendInv, Sound, NoneGone, Done

LEMMA KeepStart == KeepInv /\ Start => KeepInv'
<1> SUFFICES ASSUME KeepInv, Start PROVE KeepInv'
  OBVIOUS
<1>1. cmd' = "reading" /\ pos' = 0 /\ out' = <<>> /\ archive' = archive
  BY DEF Start
<1>2. UpdateInv'
  BY StartKeeps DEF KeepInv
<1>3. DOMAIN out' = {} /\ Len(out') = 0 /\ \A k \in DOMAIN archive : ~(k <= 0)
  BY <1>1 DEF KeepInv, UpdateInv, Ordered
<1>4. NextInv' /\ PosInv' /\ GoneInv' /\ NoneGone'
  BY <1>1, <1>3 DEF NextInv, PosInv, GoneInv, NoneGone, Done
<1>5. AppendInv'
  BY <1>1, <1>3 DEF AppendInv
<1>6. RestInv'
  <2> DEFINE S == {k \in Rest(archive) : k <= pos}
             e == [k \in {} |-> 0]
  <2>1. S' = {} /\ Rest(out)' = {}
    BY <1>1, <1>3 DEF Rest
  <2>2. e \in Surjection({}, {})
    BY DEF Surjection
  <2>3. \A s, t : SameEntries({}, s, {}, t)
    BY <2>2 DEF SameEntries
  <2>4. SameEntries({}, archive, {}, out)'
    BY <2>3 DEF SameEntries
  <2> QED
    BY <2>1, <2>4 DEF RestInv
<1> QED
  BY <1>2, <1>4, <1>5, <1>6 DEF KeepInv

\* A file that changes concerns more entries, never fewer.
LEMMA KeepChange ==
  ASSUME KeepInv, NEW m \in Names, Change(m)
  PROVE  KeepInv'
<1>1. /\ now' = now + 1 /\ changed' = changed \cup {m}
      /\ disk' = [disk EXCEPT ![m] = now + 1] \/ disk' = [disk EXCEPT ![m] = 0]
      /\ UNCHANGED <<archive, cmd, opt, asked, targets, pos, out, jobs, rx, status,
                     source, next, buffer, exhausted, yielded>>
  BY DEF Change, rvars
<1>2. UpdateInv /\ UpdateInv'
  BY ChangeKeeps DEF KeepInv
<1>3. Waiting' = Waiting /\ (Erroneous' <=> Erroneous) /\ (Sound' <=> Sound)
      /\ (InTime' <=> InTime) /\ \A n : Idx(n)' = Idx(n)
  BY <1>1 DEF Waiting, Erroneous, Sound, InTime, Idx
<1>4. \A n \in Names : n # m => disk'[n] = disk[n]
  BY <1>1, <1>2 DEF UpdateInv, DiskInv
<1>5. NextInv' /\ PosInv'
  BY <1>1, <1>3 DEF KeepInv, NextInv, PosInv
<1>6. ASSUME Sound PROVE \A k \in DOMAIN out : out[k].name \in Names
  BY <1>2, <1>6, StagedOrdered DEF Ordered, Honest, EntryType
<1>7. \A k \in DOMAIN archive : archive[k].name \in Names
  BY <1>2 DEF UpdateInv, Ordered, Honest, EntryType
<1>8. GoneInv'
  BY <1>1, <1>3, <1>4, <1>6 DEF KeepInv, GoneInv
<1>9. AppendInv'
  BY <1>1, <1>3 DEF KeepInv, AppendInv
<1>10. NoneGone'
  BY <1>1, <1>4, <1>7 DEF KeepInv, NoneGone, Done
<1>11. RestInv'
  <2> SUFFICES ASSUME Sound
               PROVE  SameEntries({k \in Rest(archive) : k <= pos}, archive, Rest(out), out)'
    BY <1>3 DEF RestInv
  <2> DEFINE S == {k \in Rest(archive) : k <= pos}
             S2 == {k \in Rest(archive)' : k <= pos}
             T2 == Rest(out)'
  <2>1. SameEntries(S, archive, Rest(out), out)
    BY DEF KeepInv, RestInv
  <2>2. \A x : x.name \in Names /\ Concerned(x) => Concerned(x)'
    BY <1>1, <1>4 DEF Concerned
  <2>3. S2 \subseteq S /\ T2 \subseteq Rest(out)
    BY <1>1, <1>6, <1>7, <2>2 DEF Rest
  <2>4. \A k \in S, j \in Rest(out) : out[j] = archive[k] => (k \in S2 <=> j \in T2)
    BY <1>1 DEF Rest
  <2> HIDE DEF S, S2, T2
  <2>5. SameEntries(S2, archive, T2, out)
    BY <2>1, <2>3, <2>4, SameShrinks
  <2>6. S2 = {k \in Rest(archive) : k <= pos}'
    BY <1>1 DEF S2
  <2>7. T2 = Rest(out)' /\ archive' = archive /\ out' = out
    BY <1>1 DEF T2
  <2> QED
    BY <2>5, <2>6, <2>7
<1> QED
  BY <1>2, <1>5, <1>8, <1>9, <1>10, <1>11 DEF KeepInv

\* What is read is staged, unless it is replaced or pruned.
LEMMA ReadEntryStages ==
  ASSUME UpdateInv, ReadEntry,
         NEW entry, entry = archive[pos + 1], NEW n, n = entry.name
  PROVE  \/ /\ out' = Append(out, entry)
            /\ opt.sync => n \in DOMAIN asked \/ disk[n] # 0
         \/ out' = out /\ opt.sync /\ Concerned(entry)
<1> DEFINE newer == n \in DOMAIN targets /\ IsNewer(targets[n], entry.mtime)
<1>1. cmd = "reading" /\ out' = IF Replaced(newer) \/ Pruned(n) THEN out ELSE Append(out, entry)
  BY DEF ReadEntry
<1>2. DOMAIN targets \subseteq DOMAIN asked
  BY <1>1 DEF UpdateInv, TargetsInv
<1>3. CASE Replaced(newer)
  BY <1>1, <1>2, <1>3 DEF Replaced, Concerned
<1>4. CASE Pruned(n)
  BY <1>1, <1>4 DEF Pruned, Concerned
<1>5. CASE ~Replaced(newer) /\ ~Pruned(n)
  BY <1>1, <1>2, <1>5 DEF Pruned
<1> QED
  BY <1>3, <1>4, <1>5

LEMMA KeepReadEntry == KeepInv /\ ReadEntry => KeepInv'
<1> SUFFICES ASSUME KeepInv, ReadEntry PROVE KeepInv'
  OBVIOUS
<1> DEFINE entry == archive[pos + 1]
           n == entry.name
<1>1. UpdateInv /\ UpdateInv'
  BY ReadEntryKeeps DEF KeepInv
<1>2. /\ cmd = "reading" /\ pos + 1 \in DOMAIN archive /\ Honest(entry)
      /\ pos \in 0..Len(archive) /\ pos' = pos + 1
      /\ UNCHANGED <<disk, now, archive, cmd, opt, asked, rx, status, changed>>
  BY <1>1, ReadEntryEffect
<1>3. \/ /\ out' = Append(out, entry)
         /\ opt.sync => n \in DOMAIN asked \/ disk[n] # 0
      \/ out' = out /\ opt.sync /\ Concerned(entry)
  BY <1>1, ReadEntryStages
<1>4. entry = archive[pos + 1] /\ n = entry.name
  OBVIOUS
<1> HIDE DEF entry, n
<1>5. UNCHANGED <<next, source, buffer, yielded>>
  BY DEF ReadEntry, rvars
<1>6. Sound /\ Sound' /\ Ordered(out) /\ Ordered(archive)
  BY <1>1, <1>2, StagedOrdered DEF Sound
<1>7. NextInv' /\ PosInv' /\ NoneGone'
  BY <1>2 DEF NextInv, PosInv, NoneGone, Done
<1>8. /\ \A x : Concerned(x)' <=> Concerned(x)
      /\ \A k : Idx(k)' = Idx(k)
  BY <1>2 DEF Concerned, Idx
<1>9. /\ archive \in Seq(EntryType) /\ out \in Seq(EntryType) /\ entry \in EntryType
      /\ Len(archive) \in Nat /\ DOMAIN archive = 1..Len(archive)
      /\ Len(out) \in Nat /\ DOMAIN out = 1..Len(out) /\ pos \in Nat
  BY <1>2, <1>6 DEF Ordered, Honest
<1>10. ASSUME out' = Append(out, entry)
       PROVE  /\ DOMAIN out' = DOMAIN out \cup {Len(out) + 1} /\ Len(out') = Len(out) + 1
              /\ DOMAIN out' = 1..Len(out')
              /\ out'[Len(out) + 1] = entry /\ \A k \in DOMAIN out : out'[k] = out[k]
              /\ out' # out
  <2>1. /\ DOMAIN out' = DOMAIN out \cup {Len(out) + 1} /\ Len(out') = Len(out) + 1
        /\ DOMAIN out' = 1..Len(out')
        /\ out'[Len(out) + 1] = entry /\ \A k \in DOMAIN out : out'[k] = out[k]
    BY <1>9, <1>10
  <2>2. Len(out) \in Nat /\ \A l \in Nat : l + 1 # l
    <3>1. Len(out) \in Nat
      BY <1>9
    <3> QED
      BY <3>1
  <2>3. out' # out
    BY <2>1, <2>2
  <2> QED
    BY <2>1, <2>3
<1>11. n \in DOMAIN asked => n \in changed \/ disk[n] # 0
  BY <1>1 DEF UpdateInv, AskedInv
<1>12. GoneInv'
  <2>1. CASE out' = out
    BY <1>2, <1>6, <2>1 DEF KeepInv, GoneInv
  <2>2. CASE out' = Append(out, entry) /\ (opt.sync => n \in DOMAIN asked \/ disk[n] # 0)
    <3>1. opt.sync => \A k \in DOMAIN out : disk[out[k].name] # 0 \/ out[k].name \in changed
      BY <1>6 DEF KeepInv, GoneInv
    <3>2. opt.sync => disk[n] # 0 \/ n \in changed
      BY <1>11, <2>2
    <3> QED
      BY <1>2, <1>4, <1>10, <2>2, <3>1, <3>2 DEF GoneInv
  <2> QED
    BY <1>3, <2>1, <2>2
<1>13. AppendInv'
  <2> SUFFICES ASSUME ~opt.sync PROVE AppendInv'
    BY <1>2 DEF AppendInv
  <2>1. out' = Append(out, entry)
    BY <1>3
  <2>2. Len(out) = pos /\ \A k \in 1..pos : out[k] = archive[k]
    BY <1>2, <1>6 DEF KeepInv, AppendInv
  <2>3. \A k \in 1..pos' : k \in 1..pos \/ k = pos + 1
    BY <1>2, <1>9
  <2>4. \A k \in 1..pos' : out'[k] = archive'[k]
    BY <1>2, <1>4, <1>9, <1>10, <2>1, <2>2, <2>3
  <2>5. Len(out') = pos' /\ DOMAIN out' = 1..pos' /\ \A k \in DOMAIN out' : ~(pos' < k)
    BY <1>2, <1>9, <1>10, <2>1, <2>2
  <2>6. \A j, k \in DOMAIN out' : ~(pos' < j)
    BY <2>5
  <2>7. pos' <= Len(out')
    BY <1>2, <1>9, <2>5
  <2> QED
    BY <1>2, <2>4, <2>5, <2>6, <2>7 DEF AppendInv
<1>14. RestInv'
  <2> DEFINE S == {k \in Rest(archive) : k <= pos}
             S2 == {k \in Rest(archive)' : k <= pos'}
             T == Rest(out)
  <2>1. SameEntries(S, archive, T, out)
    BY <1>6 DEF KeepInv, RestInv
  <2>2. /\ S2 = IF Concerned(entry) THEN S ELSE S \cup {pos + 1}
        /\ S \subseteq Nat /\ \A k \in S : k < pos + 1
    <3>1. \A k \in DOMAIN archive : k <= pos' <=> k <= pos \/ k = pos + 1
      BY <1>2, <1>9
    <3>2. Rest(archive)' = Rest(archive)
      BY <1>2, <1>8 DEF Rest
    <3>3. pos + 1 \in Rest(archive) <=> ~Concerned(entry)
      BY <1>2, <1>4 DEF Rest
    <3>4. S2 = IF Concerned(entry) THEN S ELSE S \cup {pos + 1}
      <4>1. \A k : k \in Rest(archive) => k \in DOMAIN archive
        BY DEF Rest
      <4>2. \A k : k \in S2 <=> k \in Rest(archive) /\ (k <= pos \/ k = pos + 1)
        BY <3>1, <3>2, <4>1
      <4> QED
        BY <3>3, <4>2
    <3>5. S \subseteq Nat /\ \A k \in S : k < pos + 1
      BY <1>9 DEF Rest
    <3> QED
      BY <3>4, <3>5
  <2>3. T \subseteq DOMAIN out
    BY DEF Rest
  <2>4. Rest(out)' = IF out' = out \/ Concerned(entry) THEN T ELSE T \cup {Len(out) + 1}
    <3>1. CASE out' = out
      BY <1>8, <3>1 DEF Rest
    <3>2. CASE out' = Append(out, entry)
      <4>1. out' # out
        BY <1>10, <3>2
      <4> QED
        BY <1>8, <1>10, <3>2, <4>1 DEF Rest
    <3> QED
      BY <1>3, <3>1, <3>2
  <2>5. S2 = {k \in Rest(archive) : k <= pos}' /\ archive' = archive
    BY <1>2
  <2> HIDE DEF S, S2, T
  <2>6. CASE out' = out
    <3>1. Concerned(entry)
      BY <1>3, <1>10, <2>6
    <3>2. SameEntries(S2, archive, Rest(out)', out')
      BY <2>1, <2>2, <2>4, <2>6, <3>1
    <3> QED
      BY <2>5, <3>2 DEF RestInv
  <2>7. CASE out' = Append(out, entry)
    <3>1. out' # out /\ \A k \in T : out'[k] = out[k]
      BY <1>10, <2>3, <2>7
    <3>2. SameEntries(S, archive, T, out')
      BY <2>1, <3>1, SameStays
    <3>3. CASE Concerned(entry)
      <4>1. SameEntries(S2, archive, Rest(out)', out')
        BY <2>2, <2>4, <3>2, <3>3
      <4> QED
        BY <2>5, <4>1 DEF RestInv
    <3>4. CASE ~Concerned(entry)
      <4>1. /\ pos + 1 \in Nat /\ Len(out) + 1 \in Nat /\ T \subseteq Nat
            /\ \A j \in T : j < Len(out) + 1
        <5>1. /\ pos \in Nat /\ Len(out) \in Nat /\ DOMAIN out = 1..Len(out)
          BY <1>9
        <5>2. T \subseteq 1..Len(out)
          BY <2>3, <5>1
        <5> QED
          BY <5>1, <5>2
      <4>2. out'[Len(out) + 1] = archive[pos + 1]
        BY <1>4, <1>10, <2>7
      <4>3. SameEntries(S \cup {pos + 1}, archive, T \cup {Len(out) + 1}, out')
        BY <2>2, <3>2, <4>1, <4>2, SameGrows
      <4>4. SameEntries(S2, archive, Rest(out)', out')
        BY <2>2, <2>4, <3>1, <3>4, <4>3
      <4> QED
        BY <2>5, <4>4 DEF RestInv
    <3> QED
      BY <3>3, <3>4
  <2> QED
    BY <1>3, <2>6, <2>7
<1> QED
  BY <1>1, <1>7, <1>12, <1>13, <1>14 DEF KeepInv

\* Steps that stage nothing.
LEMMA KeepStaged ==
  ASSUME KeepInv, UpdateInv', Sound' => Sound,
         UNCHANGED <<disk, archive, opt, asked, pos, out, status, changed>>,
         cmd' = "adding" <=> cmd = "adding", cmd' = "idle" => cmd = "idle",
         NextInv', PosInv', next' = next
  PROVE  KeepInv'
<1>1. /\ \A x : Concerned(x)' <=> Concerned(x)
      /\ \A k : Idx(k)' = Idx(k)
  BY DEF Concerned, Idx
<1>2. GoneInv' /\ NoneGone'
  BY DEF KeepInv, GoneInv, NoneGone, Done
<1>3. RestInv'
  <2>1. Rest(archive)' = Rest(archive) /\ Rest(out)' = Rest(out)
    BY <1>1 DEF Rest
  <2> QED
    BY <2>1 DEF KeepInv, RestInv
<1>4. AppendInv'
  BY <1>1 DEF KeepInv, AppendInv
<1> QED
  BY <1>2, <1>3, <1>4 DEF KeepInv

LEMMA KeepEndOfEntries == KeepInv /\ EndOfEntries => KeepInv'
<1> SUFFICES ASSUME KeepInv, EndOfEntries PROVE KeepInv'
  OBVIOUS
<1>1. /\ cmd = "reading" /\ cmd' = "joining" /\ pos = Len(archive) /\ next' = next
      /\ UNCHANGED <<disk, archive, opt, asked, pos, out, status, changed>>
  BY DEF EndOfEntries, diskvars, rvars
<1>2. UpdateInv'
  BY EndOfEntriesKeeps DEF KeepInv
<1>3. Sound /\ NextInv' /\ PosInv'
  BY <1>1 DEF Sound, NextInv, PosInv
<1> QED
  BY <1>1, <1>2, <1>3, KeepStaged

LEMMA KeepJob ==
  ASSUME KeepInv, NEW n \in Names, ReadContent(n) \/ Send(n)
  PROVE  KeepInv'
<1>1. UNCHANGED <<disk, now, archive, cmd, opt, asked, pos, out, status, changed, source, next,
                  buffer, exhausted, yielded>>
  BY DEF ReadContent, Send, diskvars, rvars
<1>2. UpdateInv'
  BY ReadContentKeeps, SendKeeps DEF KeepInv
<1>3. NextInv' /\ PosInv' /\ (Sound' => Sound)
  BY <1>1 DEF KeepInv, NextInv, PosInv, Sound, Erroneous, InTime, Waiting
<1> QED
  BY <1>1, <1>2, <1>3, KeepStaged

LEMMA KeepStutter == KeepInv /\ UNCHANGED vars => KeepInv'
<1> SUFFICES ASSUME KeepInv, UNCHANGED vars PROVE KeepInv'
  OBVIOUS
<1>1. UNCHANGED <<disk, now, archive, cmd, opt, asked, pos, out, status, changed, source, next,
                  buffer, exhausted, yielded>>
  BY DEF vars, diskvars, rvars
<1>2. UpdateInv'
  BY StutterKeeps DEF KeepInv
<1>3. NextInv' /\ PosInv' /\ (Sound' => Sound)
  BY <1>1 DEF KeepInv, NextInv, PosInv, Sound, Erroneous, InTime, Waiting
<1> QED
  BY <1>1, <1>2, <1>3, KeepStaged

LEMMA KeepJoin == KeepInv /\ Join => KeepInv'
<1> SUFFICES ASSUME KeepInv, Join PROVE KeepInv'
  OBVIOUS
<1>1. /\ cmd = "joining" /\ cmd' = "adding"
      /\ source' = rx /\ next' = 0 /\ buffer' = <<>> /\ yielded' = <<>>
      /\ UNCHANGED <<disk, archive, opt, asked, pos, out, rx, status, changed>>
  BY DEF Join, Iterate, diskvars
<1>2. UpdateInv /\ UpdateInv'
  BY JoinKeeps DEF KeepInv
<1>3. Sound /\ Ordered(out) /\ pos = Len(archive)
  BY <1>1, <1>2, StagedOrdered DEF KeepInv, Sound, PosInv
<1>4. PosInv' /\ GoneInv' /\ NoneGone'
  BY <1>1, <1>3 DEF KeepInv, PosInv, GoneInv, NoneGone, Done
<1>5. NextInv'
  <2>1. DOMAIN buffer' = {} /\ Waiting' = {rx[k] : k \in DOMAIN rx}
    BY <1>1 DEF Waiting
  <2>2. \A p \in Waiting' : p[1] \in Nat
    BY <1>1, <1>2, <2>1 DEF UpdateInv, RxInv
  <2> QED
    BY <1>1, <2>2 DEF NextInv, InTime
<1>6. RestInv'
  <2>1. Rest(archive)' = Rest(archive) /\ Rest(out)' = Rest(out)
    BY <1>1 DEF Rest, Concerned
  <2> QED
    BY <1>1, <1>3, <2>1 DEF KeepInv, RestInv
<1>7. AppendInv'
  <2> SUFFICES ASSUME ~opt.sync PROVE AppendInv'
    BY <1>1 DEF AppendInv
  <2>1. Len(out) = pos /\ \A k \in 1..pos : out[k] = archive[k]
    BY <1>1, <1>3 DEF KeepInv, AppendInv
  <2>2. pos \in Nat /\ \A k \in DOMAIN out : ~(pos < k)
    BY <1>3, <2>1 DEF Ordered
  <2> QED
    BY <1>1, <2>1, <2>2 DEF AppendInv
<1> QED
  BY <1>2, <1>4, <1>5, <1>6, <1>7 DEF KeepInv

LEMMA KeepCommit == KeepInv /\ Commit => KeepInv'
<1> SUFFICES ASSUME KeepInv, Commit PROVE KeepInv'
  OBVIOUS
<1>1. /\ cmd = "adding" /\ ~Erroneous /\ archive' = out /\ cmd' = "idle"
      /\ UNCHANGED <<disk, opt, changed>>
  BY DEF Commit, Return, diskvars
<1>2. UpdateInv'
  BY CommitKeeps DEF KeepInv
<1>3. NextInv' /\ PosInv' /\ GoneInv' /\ RestInv' /\ AppendInv'
  BY <1>1 DEF NextInv, PosInv, GoneInv, RestInv, AppendInv, Sound
<1>4. NoneGone'
  BY <1>1 DEF KeepInv, NoneGone, GoneInv, Sound
<1> QED
  BY <1>2, <1>3, <1>4 DEF KeepInv

\* The order of the files is that of their places.
LEMMA PlacesInOrder ==
  ASSUME DOMAIN asked \subseteq Names, NEW m \in DOMAIN asked, NEW n \in DOMAIN asked,
         Idx(m) < Idx(n)
  PROVE  m < n
<1> DEFINE Before(k) == {j \in DOMAIN asked : j < k}
<1>1. m \in Nat /\ n \in Nat /\ DOMAIN asked \subseteq Nat
  BY NamesAssumption
<1> SUFFICES ASSUME n <= m PROVE FALSE
  BY <1>1
<1>2. Before(n) \in SUBSET Before(m)
  BY <1>1
<1>3. Before(m) \in SUBSET Nat /\ \A k \in Before(m) : k <= m
  BY <1>1
<1>4. Idx(m) = Cardinality(Before(m)) /\ Idx(n) = Cardinality(Before(n))
  BY DEF Idx
<1> HIDE DEF Before
<1>5. IsFiniteSet(Before(m))
  BY <1>1, <1>3, FS_BoundedSetOfNaturals
<1>6. Cardinality(Before(n)) <= Cardinality(Before(m))
  BY <1>2, <1>5, FS_Subset
<1>7. Idx(m) \in Nat /\ Idx(n) \in Nat
  BY PlacesDiffer
<1> QED
  BY <1>4, <1>6, <1>7

LEMMA KeepAdd == KeepInv /\ Add => KeepInv'
<1> SUFFICES ASSUME KeepInv, Add PROVE KeepInv'
  OBVIOUS
<1>1. /\ cmd = "adding" /\ ~Erroneous /\ ReorderNext
      /\ out' = (IF yielded' = yielded THEN out ELSE Append(out, Last(yielded')))
      /\ UNCHANGED <<disk, now, archive, cmd, opt, asked, pos, status, changed>>
  BY DEF Add, diskvars
<1>2. UpdateInv /\ UpdateInv'
  BY AddKeeps DEF KeepInv
<1>3. /\ AskedInv /\ ReorderTypes /\ Separate /\ \A p \in Waiting : Result(p[1], p[2])
      /\ pos = Len(archive) /\ InTime
  BY <1>1, <1>2 DEF UpdateInv, AddInv, KeepInv, PosInv, NextInv
<1>4. OneYielded
  BY <1>1, <1>3, ReorderEffect
<1>5. Sound /\ Ordered(out) /\ Ordered(archive)
  BY <1>1, <1>2, StagedOrdered DEF Sound
<1>6. PosInv' /\ NoneGone'
  BY <1>1, <1>3 DEF PosInv, NoneGone, Done
<1>7. /\ \A x : Concerned(x)' <=> Concerned(x)
      /\ \A k : Idx(k)' = Idx(k)
  BY <1>1 DEF Concerned, Idx
<1>8. SUFFICES NextInv' /\ GoneInv' /\ RestInv' /\ AppendInv'
  BY <1>2, <1>6 DEF KeepInv
<1>9. /\ out \in Seq(EntryType) /\ Len(out) \in Nat /\ DOMAIN out = 1..Len(out)
      /\ Len(archive) \in Nat /\ DOMAIN archive = 1..Len(archive) /\ pos \in Nat
      /\ next \in Nat /\ Waiting \subseteq Nat \X Item
      /\ \A p, q \in Waiting : p[1] = q[1] => p = q
  BY <1>3, <1>5, WaitingDiffer DEF Ordered, ReorderTypes
<1>10. SameEntries({k \in Rest(archive) : k <= pos}, archive, Rest(out), out)
  BY <1>5 DEF KeepInv, RestInv
<1>11. Rest(archive)' = Rest(archive)
  BY <1>1, <1>7 DEF Rest
<1>12. ~opt.sync => /\ pos <= Len(out) /\ \A k \in 1..pos : out[k] = archive[k]
                    /\ \A k \in DOMAIN out :
                         pos < k => out[k].name \in DOMAIN asked /\ Idx(out[k].name) < next
                    /\ \A j, k \in DOMAIN out : pos < j /\ j < k => out[j].name < out[k].name
  BY <1>5 DEF KeepInv, AppendInv
<1>13. DOMAIN asked \subseteq Names /\ \A n \in DOMAIN asked : Idx(n) \in Nat
  BY <1>3, PlacesDiffer DEF AskedInv
<1>14. CASE /\ yielded' = yielded /\ Waiting' = Waiting
            /\ InTime => next <= next' /\ \A p \in Waiting : next' <= p[1]
  <2>1. out' = out
    BY <1>1, <1>14
  <2>2. next' \in Nat
    BY <1>1, <1>2 DEF UpdateInv, AddInv, ReorderTypes
  <2>3. NextInv'
    BY <1>3, <1>14 DEF NextInv, InTime
  <2>4. GoneInv'
    BY <1>1, <1>5, <2>1 DEF KeepInv, GoneInv
  <2>5. RestInv'
    <3>1. Rest(out)' = Rest(out)
      BY <1>7, <2>1 DEF Rest
    <3> QED
      BY <1>1, <1>10, <1>11, <2>1, <3>1 DEF RestInv
  <2>6. AppendInv'
    <3> SUFFICES ASSUME ~opt.sync PROVE AppendInv'
      BY <1>1 DEF AppendInv
    <3>1. \A k \in DOMAIN out :
            pos < k => out[k].name \in DOMAIN asked /\ Idx(out[k].name) < next'
      BY <1>3, <1>9, <1>12, <1>13, <1>14, <2>2
    <3> QED
      BY <1>1, <1>7, <1>12, <2>1, <3>1 DEF AppendInv
  <2> QED
    BY <2>3, <2>4, <2>5, <2>6
<1>15. ASSUME NEW p \in Waiting, yielded' = Append(yielded, p[2]), Waiting' = Waiting \ {p},
              p[1] = next, next' = next + 1
       PROVE  NextInv' /\ GoneInv' /\ RestInv' /\ AppendInv'
  <2> DEFINE x == p[2]
  <2>1. NextInv'
    <3>1. \A q \in Waiting' : q \in Waiting /\ q[1] # next /\ next <= q[1] /\ q[1] \in Nat
      BY <1>3, <1>9, <1>15 DEF InTime
    <3>2. \A q \in Waiting' : next' <= q[1]
      BY <1>9, <1>15, <3>1
    <3> QED
      BY <3>2 DEF NextInv, InTime
  <2>2. x \in Item /\ Result(p[1], x) /\ yielded \in Seq(Item) /\ yielded' = Append(yielded, x)
    BY <1>3, <1>9, <1>15 DEF ReorderTypes
  <2> HIDE DEF x
  <2>3. yielded' # yielded /\ yielded' # <<>> /\ Last(yielded') = x
    <3>1. /\ Len(yielded') = Len(yielded) + 1 /\ Len(yielded) \in Nat
          /\ yielded'[Len(yielded')] = x
      BY <2>2
    <3> QED
      BY <3>1 DEF Last
  <2>4. out' = Append(out, x) /\ (Erroneous' <=> x = Error)
    BY <1>1, <2>3 DEF Erroneous
  <2>5. CASE x = Error
    <3>1. ~Sound'
      BY <1>1, <2>4, <2>5 DEF Sound
    <3> QED
      BY <2>1, <3>1 DEF GoneInv, RestInv, AppendInv
  <2>6. CASE x # Error
    <3>1. PICK n \in DOMAIN asked : next = Idx(n) /\ Honest(x) /\ x.name = n
      BY <1>15, <2>2, <2>6 DEF Result
    <3>2. /\ DOMAIN out' = DOMAIN out \cup {Len(out) + 1} /\ Len(out') = Len(out) + 1
          /\ out'[Len(out) + 1] = x /\ \A k \in DOMAIN out : out'[k] = out[k]
      <4>1. x \in EntryType
        BY <3>1 DEF Honest
      <4> QED
        BY <1>9, <2>4, <4>1
    <3>3. n \in changed \/ disk[n] # 0
      BY <1>3 DEF AskedInv
    <3>4. GoneInv'
      <4>1. opt.sync => \A k \in DOMAIN out : disk[out[k].name] # 0 \/ out[k].name \in changed
        BY <1>5 DEF KeepInv, GoneInv
      <4> QED
        BY <1>1, <3>1, <3>2, <3>3, <4>1 DEF GoneInv
    <3>5. RestInv'
      <4>1. Concerned(x)
        BY <3>1 DEF Concerned
      <4>2. Rest(out)' = Rest(out) /\ \A k \in Rest(out) : out'[k] = out[k]
        BY <1>7, <3>2, <4>1 DEF Rest
      <4>3. SameEntries({k \in Rest(archive) : k <= pos}, archive, Rest(out), out')
        BY <1>10, <4>2, SameStays
      <4> QED
        BY <1>1, <1>11, <4>2, <4>3 DEF RestInv
    <3>6. AppendInv'
      <4> SUFFICES ASSUME ~opt.sync PROVE AppendInv'
        BY <1>1 DEF AppendInv
      <4>1. pos <= Len(out') /\ \A k \in 1..pos : out'[k] = archive[k]
        <5>1. \A k \in 1..pos : k \in DOMAIN out
          BY <1>9, <1>12
        <5> QED
          BY <1>9, <1>12, <3>2, <5>1
      <4>2. ASSUME NEW k \in DOMAIN out', pos < k
            PROVE  out'[k].name \in DOMAIN asked /\ Idx(out'[k].name) < next'
        <5>1. CASE k \in DOMAIN out
          <6>1. out[k].name \in DOMAIN asked /\ Idx(out[k].name) < next
            BY <1>12, <4>2, <5>1
          <6>2. Idx(out[k].name) < next + 1
            BY <1>9, <1>13, <6>1
          <6> QED
            BY <1>15, <3>2, <5>1, <6>1, <6>2
        <5>2. CASE k = Len(out) + 1
          BY <1>9, <1>15, <3>1, <3>2, <5>2
        <5> QED
          BY <3>2, <5>1, <5>2
      <4>3. ASSUME NEW j \in DOMAIN out', NEW k \in DOMAIN out', pos < j, j < k
            PROVE  out'[j].name < out'[k].name
        <5>1. j \in DOMAIN out
          BY <1>9, <3>2, <4>3
        <5>2. CASE k \in DOMAIN out
          BY <1>12, <3>2, <4>3, <5>1, <5>2
        <5>3. CASE k = Len(out) + 1
          <6>1. out[j].name \in DOMAIN asked /\ Idx(out[j].name) < Idx(n)
            BY <1>12, <3>1, <4>3, <5>1
          <6>2. out[j].name < n
            BY <1>13, <6>1, PlacesInOrder
          <6> QED
            BY <3>1, <3>2, <5>1, <5>3, <6>2
        <5> QED
          BY <3>2, <5>2, <5>3
      <4> QED
        BY <1>1, <1>7, <4>1, <4>2, <4>3 DEF AppendInv
    <3> QED
      BY <2>1, <3>4, <3>5, <3>6
  <2> QED
    BY <2>5, <2>6
<1> QED
  BY <1>4, <1>14, <1>15 DEF OneYielded

LEMMA KeepStep == KeepInv /\ [Next]_vars => KeepInv'
<1> SUFFICES ASSUME KeepInv, [Next]_vars PROVE KeepInv'
  OBVIOUS
<1>1. CASE Start
  BY <1>1, KeepStart
<1>2. CASE ReadEntry
  BY <1>2, KeepReadEntry
<1>3. CASE EndOfEntries
  BY <1>3, KeepEndOfEntries
<1>4. CASE Join
  BY <1>4, KeepJoin
<1>5. CASE Add
  BY <1>5, KeepAdd
<1>6. CASE AddFails \/ Fails
  <2>1. Return("failed") /\ UNCHANGED <<diskvars, archive, opt, asked, changed>>
    BY <1>6 DEF AddFails, Fails
  <2>2. UpdateInv' /\ cmd' = "idle" /\ status' = "failed"
    BY <2>1, FailKeeps DEF KeepInv, Return
  <2> QED
    BY <2>2, KeepIdle
<1>7. CASE Commit
  BY <1>7, KeepCommit
<1>8. CASE \E n \in Names : ReadContent(n) \/ Send(n)
  BY <1>8, KeepJob
<1>9. CASE \E n \in Names : Change(n)
  BY <1>9, KeepChange
<1>10. CASE UNCHANGED vars
  BY <1>10, KeepStutter
<1> QED
  BY <1>1, <1>2, <1>3, <1>4, <1>5, <1>6, <1>7, <1>8, <1>9, <1>10 DEF Next, Command

\* Where the archive is replaced, by what was staged.
LEMMA CommitLeavesTheRest == KeepInv /\ Commit => LeavesTheRest
<1> SUFFICES ASSUME KeepInv, Commit PROVE LeavesTheRest
  OBVIOUS
<1>1. cmd = "adding" /\ ~Erroneous /\ archive' = out
  BY DEF Commit
<1>2. Sound /\ Ordered(out) /\ Ordered(archive) /\ pos = Len(archive)
  BY <1>1, StagedOrdered DEF KeepInv, Sound, PosInv
<1>3. /\ archive \in Seq(EntryType) /\ out \in Seq(EntryType)
      /\ Len(archive) \in Nat /\ DOMAIN archive = 1..Len(archive)
      /\ Len(out) \in Nat /\ DOMAIN out = 1..Len(out)
  BY <1>2 DEF Ordered
<1>4. SameEntries(Rest(archive), archive, Rest(archive'), archive')
  <2>1. SameEntries({k \in Rest(archive) : k <= pos}, archive, Rest(out), out)
    BY <1>2 DEF KeepInv, RestInv
  <2>2. {k \in Rest(archive) : k <= pos} = Rest(archive)
    BY <1>2, <1>3 DEF Rest
  <2> QED
    BY <1>1, <2>1, <2>2
<1>5. ASSUME ~opt.sync
      PROVE  /\ IsPrefix(archive, archive')
             /\ \A j, k \in DOMAIN archive' :
                  Len(archive) < j /\ j < k => archive'[j].name < archive'[k].name
  <2>1. /\ Len(archive) <= Len(out) /\ \A k \in 1..Len(archive) : out[k] = archive[k]
        /\ \A j, k \in DOMAIN out : Len(archive) < j /\ j < k => out[j].name < out[k].name
    BY <1>2, <1>5 DEF KeepInv, AppendInv
  <2>2. SubSeq(archive, 1, Len(archive)) = SubSeq(out, 1, Len(archive))
    BY <1>3, <2>1
  <2> QED
    BY <1>1, <2>1, <2>2 DEF IsPrefix
<1> QED
  BY <1>4, <1>5 DEF LeavesTheRest

\* For any archive, any files and any changes while it runs: `pna update --sync`
\* leaves no entry whose file was gone all along; no update drops, alters
\* or moves an entry that it does not concern; and without --sync it only adds
\* entries, in the order of the files (run_update_archive, ReorderByIndex).
THEOREM UpdatesKeepTheRest == Spec => PrunesWhatIsGone
<1>1. KeepInv => NoneGone
  BY DEF KeepInv
<1>2. KeepInv /\ [Next]_vars => [LeavesTheRest]_archive
  <2> SUFFICES ASSUME KeepInv, [Next]_vars, archive' # archive PROVE LeavesTheRest
    OBVIOUS
  <2>1. Commit
    BY DEF Next, Command, Start, ReadEntry, EndOfEntries, Join, Add, AddFails, Fails,
           ReadContent, Send, Change, vars
  <2> QED
    BY <2>1, CommitLeavesTheRest
<1> QED
  BY <1>1, <1>2, KeepInit, KeepStep, PTL DEF Spec, PrunesWhatIsGone, KeepsTheRest
=============================================================================
