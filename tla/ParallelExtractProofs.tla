------------------------- MODULE ParallelExtractProofs -------------------------
(***************************************************************************)
(* Proofs about PathLocks, for every set of jobs and paths, and about      *)
(* ParallelExtract, for any archive, any options, any disk and any pool of *)
(* threads.                                                                *)
(*                                                                         *)
(* The invariant of the locks numbers the tickets: those handed out for a  *)
(* path are different and below next_seq; those that are through lie below *)
(* current_seq, those that are not lie at or above it; and the turn of a   *)
(* guard is the current one.  So an advance leaves nobody behind.          *)
(*                                                                         *)
(* The ticket of its path makes a job the only one to work there, after    *)
(* those of the earlier entries and before those of the later ones.  So    *)
(* what it finds is what the entries before it have made one by one        *)
(* (OneByOne, over which is induction), and at each of its steps the path  *)
(* holds what a single extraction would have put there so far.             *)
(***************************************************************************)
EXTENDS ParallelExtract, Induction, FiniteSetTheorems

-----------------------------------------------------------------------------
(* The tickets                                                             *)

Registered(j) == lstate[j] # "none"
Pending(j) == lstate[j] \notin {"none", "gone"}

Distinct == \A i, j \in Jobs :
  Registered(i) /\ Registered(j) /\ path[i] = path[j] /\ seq[i] = seq[j] => i = j
Numbered == \A j \in Jobs :
  /\ Registered(j) => seq[j] < next_seq[path[j]]
  /\ Pending(j) => current_seq[path[j]] <= seq[j]
  /\ lstate[j] = "guard" => current_seq[path[j]] = seq[j]
  /\ lstate[j] = "gone" => seq[j] < current_seq[path[j]]
TicketInv == LTypeOK /\ Distinct /\ Numbered

\* The three kinds of step: a ticket is handed out, a job moves without
\* touching the counters, and a turn is passed on.
Moves(j) ==
  /\ Pending(j)
  /\ \E s \in LStates \ {"none", "gone"} :
       Goto(j, s) /\ (s = "guard" => MyTurn(j))
  /\ Unlocked
Passes(j) == Pending(j) /\ ~MustWait(j) /\ Advance(j)

LEMMA StepKinds ==
  ASSUME LTypeOK, NEW j \in Jobs,
         WaitForTurn(j) \/ WakeUp(j) \/ DropGuard(j) \/ DropTicket(j)
  PROVE  Moves(j) \/ Passes(j)
<1>1. CASE WaitForTurn(j)
  BY <1>1 DEF WaitForTurn, Moves, Pending, LStates
<1>2. CASE WakeUp(j)
  BY <1>2 DEF WakeUp, Moves, Pending, LStates
<1>3. CASE DropGuard(j)
  BY <1>3 DEF DropGuard, Passes, Pending
<1>4. CASE DropTicket(j)
  BY <1>4 DEF DropTicket, Moves, Passes, Pending, LStates
<1> QED
  BY <1>1, <1>2, <1>3, <1>4

\* Handing out a ticket.
LEMMA RegisterKeeps ==
  ASSUME TicketInv, NEW j \in Jobs, NEW p \in Paths, Register(j, p)
  PROVE  TicketInv'
<1>1. \A k \in Jobs : /\ path'[k] = IF k = j THEN p ELSE path[k]
                      /\ seq'[k] = IF k = j THEN next_seq[p] ELSE seq[k]
                      /\ lstate'[k] = IF k = j THEN "ticket" ELSE lstate[k]
  BY DEF TicketInv, LTypeOK, Register
<1>2. /\ \A x \in Paths : next_seq'[x] = IF x = p THEN next_seq[p] + 1 ELSE next_seq[x]
      /\ current_seq' = current_seq
  BY DEF TicketInv, LTypeOK, Register
<1>3. /\ lstate[j] = "none"
      /\ \A x \in Paths : next_seq[x] \in Nat /\ current_seq[x] \in Nat
                          /\ current_seq[x] <= next_seq[x]
      /\ \A k \in Jobs : path[k] \in Paths /\ seq[k] \in Nat
  BY DEF TicketInv, LTypeOK, Register
<1>4. LTypeOK'
  <2>1. /\ next_seq' \in [Paths -> Nat] /\ current_seq' \in [Paths -> Nat]
        /\ path' \in [Jobs -> Paths] /\ seq' \in [Jobs -> Nat]
        /\ lstate' \in [Jobs -> LStates]
    BY DEF TicketInv, LTypeOK, Register, LStates
  <2>2. \A x \in Paths : current_seq'[x] <= next_seq'[x]
    BY <1>2, <1>3
  <2> QED
    BY <2>1, <2>2 DEF LTypeOK
<1>5. Distinct'
  BY <1>1, <1>3 DEF TicketInv, Distinct, Numbered, Registered
<1>6. Numbered'
  <2> SUFFICES ASSUME NEW k \in Jobs
               PROVE  /\ Registered(k)' => seq'[k] < next_seq'[path'[k]]
                      /\ Pending(k)' => current_seq'[path'[k]] <= seq'[k]
                      /\ lstate'[k] = "guard" => current_seq'[path'[k]] = seq'[k]
                      /\ lstate'[k] = "gone" => seq'[k] < current_seq'[path'[k]]
    BY DEF Numbered
  <2>1. CASE k = j
    BY <2>1, <1>1, <1>2, <1>3
  <2>2. CASE k # j
    BY <2>2, <1>1, <1>2, <1>3 DEF TicketInv, Numbered, Registered, Pending
  <2> QED
    BY <2>1, <2>2
<1> QED
  BY <1>4, <1>5, <1>6 DEF TicketInv

\* A job that gets its guard, goes to sleep or wakes up.
LEMMA MoveKeeps ==
  ASSUME TicketInv, NEW j \in Jobs, Moves(j)
  PROVE  TicketInv'
<1>1. PICK s \in LStates \ {"none", "gone"} :
        Goto(j, s) /\ (s = "guard" => MyTurn(j))
  BY DEF Moves
<1>2. /\ \A k \in Jobs : lstate'[k] = IF k = j THEN s ELSE lstate[k]
      /\ lstate' \in [Jobs -> LStates]
  BY <1>1 DEF TicketInv, LTypeOK, Goto
<1>3. UNCHANGED <<next_seq, current_seq, path, seq>>
  BY DEF Moves, Unlocked
<1>4. LTypeOK'
  BY <1>2, <1>3 DEF TicketInv, LTypeOK
<1>5. \A k \in Jobs : /\ Registered(k)' <=> Registered(k)
                      /\ Pending(k)' <=> Pending(k)
                      /\ lstate'[k] = "gone" <=> lstate[k] = "gone"
  BY <1>1, <1>2 DEF Moves, Registered, Pending
<1>6. Distinct'
  BY <1>3, <1>5 DEF TicketInv, Distinct
<1>7. Numbered'
  BY <1>1, <1>2, <1>3, <1>5 DEF TicketInv, Numbered, MyTurn
<1> QED
  BY <1>4, <1>6, <1>7 DEF TicketInv

\* Passing the turn on: only at the caller's own turn, so that everyone still
\* pending on the path has a later ticket.
LEMMA PassKeeps ==
  ASSUME TicketInv, NEW j \in Jobs, Passes(j)
  PROVE  TicketInv'
<1>1. /\ \A x \in Paths : current_seq'[x] = IF x = path[j] THEN seq[j] + 1
                                             ELSE current_seq[x]
      /\ current_seq' \in [Paths -> Nat]
  BY DEF Passes, Advance, Following, TicketInv, LTypeOK
<1>2. UNCHANGED <<next_seq, path, seq>>
  BY DEF Passes, Advance
<1>3. \A k \in Jobs : lstate'[k] = IF k = j THEN "gone" ELSE Woken(k, path[j])
  BY DEF Passes, Advance, NotifyAll
<1>4. \A k \in Jobs \ {j} : /\ Registered(k)' <=> Registered(k)
                            /\ Pending(k)' <=> Pending(k)
                            /\ lstate'[k] = "gone" <=> lstate[k] = "gone"
                            /\ lstate'[k] = "guard" <=> lstate[k] = "guard"
                            /\ lstate'[k] \in LStates
  BY <1>3 DEF Woken, Registered, Pending, TicketInv, LTypeOK, LStates
<1>5. /\ \A x \in Paths : next_seq[x] \in Nat /\ current_seq[x] \in Nat
                          /\ current_seq[x] <= next_seq[x]
      /\ \A k \in Jobs : path[k] \in Paths /\ seq[k] \in Nat
  BY DEF TicketInv, LTypeOK
<1>6. /\ Registered(j) /\ seq[j] = current_seq[path[j]]
      /\ seq[j] < next_seq[path[j]]
  BY <1>5 DEF Passes, MustWait, Pending, Registered, TicketInv, Numbered
<1>7. LTypeOK'
  <2>1. \A x \in Paths : current_seq'[x] <= next_seq'[x]
    BY <1>1, <1>2, <1>5, <1>6
  <2>2. lstate' \in [Jobs -> LStates]
    BY <1>3, <1>4 DEF Passes, Advance, NotifyAll, LStates
  <2> QED
    BY <1>1, <1>2, <2>1, <2>2 DEF TicketInv, LTypeOK
<1>8. Distinct'
  BY <1>2, <1>3, <1>4, <1>6 DEF TicketInv, Distinct, Registered
<1>9. Numbered'
  <2> SUFFICES ASSUME NEW k \in Jobs
               PROVE  /\ Registered(k)' => seq'[k] < next_seq'[path'[k]]
                      /\ Pending(k)' => current_seq'[path'[k]] <= seq'[k]
                      /\ lstate'[k] = "guard" => current_seq'[path'[k]] = seq'[k]
                      /\ lstate'[k] = "gone" => seq'[k] < current_seq'[path'[k]]
    BY DEF Numbered
  <2>1. CASE k = j
    BY <2>1, <1>1, <1>2, <1>3, <1>5, <1>6 DEF Pending, Registered
  <2>2. CASE k # j /\ path[k] = path[j]
    <3>1. Pending(k) => seq[k] # seq[j]
      BY <2>2, <1>6 DEF TicketInv, Distinct, Pending, Registered
    <3>2. lstate[k] # "guard"
      BY <2>2, <3>1, <1>5, <1>6 DEF TicketInv, Numbered, Pending
    <3> QED
      BY <2>2, <3>1, <3>2, <1>1, <1>2, <1>4, <1>5, <1>6 DEF TicketInv, Numbered
  <2>3. CASE path[k] # path[j]
    BY <2>3, <1>1, <1>2, <1>4, <1>5 DEF TicketInv, Numbered
  <2> QED
    BY <2>1, <2>2, <2>3
<1> QED
  BY <1>7, <1>8, <1>9 DEF TicketInv

-----------------------------------------------------------------------------
LEMMA TicketInit == LInit => TicketInv
<1> SUFFICES ASSUME LInit PROVE TicketInv
  OBVIOUS
<1>1. (CHOOSE p \in Paths : TRUE) \in Paths
  BY PathsAssumption
<1>2. LTypeOK
  BY <1>1 DEF LInit, LTypeOK, LStates
<1>3. Distinct /\ Numbered
  BY DEF LInit, Distinct, Numbered, Registered, Pending
<1> QED
  BY <1>2, <1>3 DEF TicketInv

LEMMA TicketStep == TicketInv /\ [LNext]_lvars => TicketInv'
<1> SUFFICES ASSUME TicketInv, [LNext]_lvars PROVE TicketInv'
  OBVIOUS
<1>1. CASE LNext
  <2>1. PICK j \in Jobs : \/ \E p \in Paths : Register(j, p)
                          \/ WaitForTurn(j) \/ WakeUp(j) \/ DropGuard(j) \/ DropTicket(j)
    BY <1>1 DEF LNext
  <2>2. CASE \E p \in Paths : Register(j, p)
    BY <2>2, RegisterKeeps
  <2>3. CASE WaitForTurn(j) \/ WakeUp(j) \/ DropGuard(j) \/ DropTicket(j)
    BY <2>3, StepKinds, MoveKeeps, PassKeeps DEF TicketInv
  <2> QED
    BY <2>1, <2>2, <2>3
<1>2. CASE UNCHANGED lvars
  BY <1>2 DEF lvars, TicketInv, LTypeOK, Distinct, Numbered, Registered, Pending
<1> QED
  BY <1>1, <1>2

LEMMA TicketsNumbered == LSpec => []TicketInv
  BY TicketInit, TicketStep, PTL DEF LSpec

\* For every set of jobs and paths: counters are numbers, and the turn of a
\* path never runs ahead of the tickets handed out (register, advance_seq).
THEOREM LockTypes == LSpec => []LTypeOK
<1>1. TicketInv => LTypeOK
  BY DEF TicketInv
<1> QED
  BY <1>1, TicketsNumbered, PTL

\* For every set of jobs and paths: two guards never exist on one path at a
\* time (wait_for_turn and both Drop implementations).
THEOREM GuardsExclude == LSpec => []MutualExclusion
<1>1. TicketInv => MutualExclusion
  BY DEF TicketInv, Numbered, Distinct, Registered, MutualExclusion
<1> QED
  BY <1>1, TicketsNumbered, PTL

\* For every set of jobs and paths: when a job holds the guard, whoever
\* registered before it on the path is through, or dropped its ticket.
THEOREM GuardsInOrder == LSpec => []RegistrationOrder
<1>1. TicketInv => RegistrationOrder
  <2> SUFFICES ASSUME TicketInv, NEW i \in Jobs, NEW j \in Jobs,
                      lstate[j] = "guard", lstate[i] # "none",
                      path[i] = path[j], seq[i] < seq[j]
               PROVE  lstate[i] = "gone"
    BY DEF RegistrationOrder
  <2>1. seq[i] \in Nat /\ seq[j] \in Nat /\ current_seq[path[j]] = seq[j]
    BY DEF TicketInv, LTypeOK, Numbered
  <2>2. ~Pending(i)
    BY <2>1 DEF TicketInv, Numbered
  <2> QED
    BY <2>2 DEF Pending
<1> QED
  BY <1>1, TicketsNumbered, PTL

-----------------------------------------------------------------------------
(* The invariant.                                                          *)

InputsOk ==
  /\ archive \in Seq(Entries) /\ DOMAIN archive \subseteq Jobs
  /\ opt \in Options /\ pool.workers \subseteq Threads
  /\ disk \in [Paths -> Nodes]
  /\ \A p \in Paths : disk[p].by = 0 /\ disk[p].whole
Types ==
  /\ InputsOk
  /\ fs \in [Paths -> Nodes] /\ rstate \in RStates /\ pos \in 0..Len(archive)
  /\ queue \in Seq(Jobs) /\ running \in [Threads -> {0} \cup Jobs]
  /\ step \in [Jobs -> JobSteps] /\ remove \in [Jobs -> BOOLEAN]
  /\ rx \in Seq(Jobs \X {"ok", "error"}) /\ links \in Seq(Jobs)

\* The jobs registered are those of the file entries read, in their order.
RegisteredInv ==
  /\ \A j \in Jobs : Registered(j) <=> j \in Files /\ j <= pos
  /\ \A j \in Jobs : Registered(j) => path[j] = e(j).path
  /\ \A i, j \in Jobs :
       Registered(i) /\ Registered(j) /\ path[i] = path[j] /\ i < j => seq[i] < seq[j]

\* A job that is not through waits in the queue or runs, in one place only,
\* and works on its path exactly while it holds the guard.
PlaceInv ==
  /\ \A k \in DOMAIN queue : lstate[queue[k]] = "ticket"
  /\ \A k, l \in DOMAIN queue : queue[k] = queue[l] => k = l
  /\ \A w \in Threads : running[w] # 0 =>
       Pending(running[w]) /\ \A k \in DOMAIN queue : queue[k] # running[w]
  /\ \A v, w \in Threads : running[v] = running[w] /\ running[v] # 0 => v = w
  /\ \A j \in Jobs : Pending(j) => \/ \E k \in DOMAIN queue : queue[k] = j
                                   \/ \E w \in Threads : running[w] = j
  /\ \A j \in Jobs : step[j] # "idle" <=> lstate[j] = "guard"

ReaderInv ==
  /\ \A k \in DOMAIN links : links[k] \in DOMAIN archive /\ e(links[k]).kind = "link"
  /\ rstate \in {"dirclear", "dirmake", "dircreate"} =>
       pos \in DOMAIN archive /\ e(pos).kind = "dir"
  /\ rstate \in {"scope", "links", "done"} => pos = Len(archive)
  /\ rstate \in {"links", "done"} => Quiet /\ ~Failed

\* What job i finds, what it leaves once it has unlinked, and what it does.
Found(i) == OneByOne[i - 1][e(i).path]
Cleared(i) == IF Unlinks(Found(i)) THEN Absent ELSE Found(i)
Touches(i) == ~Refused(Found(i), i) /\ ~Skipped(Found(i), i)
Good(i) == ~Refused(Found(i), i) /\ (e(i).bad => Skipped(Found(i), i))

\* What is under the path of a job at each of its steps.
Stage(i, s, r, n) ==
  /\ s = "check" => n = Found(i)
  /\ s \in {"unlink", "remove", "create", "write", "temp", "prepare", "rename"} => Touches(i)
  /\ s \in {"unlink", "remove", "create"} => r = RemovesExisting(Found(i))
  /\ s = "unlink" => n = Found(i) /\ Unlinks(n)
  /\ s = "remove" => n = Cleared(i) /\ r
  /\ s = "create" => n = IF r THEN Absent ELSE Cleared(i)
  /\ s \in {"remove", "create", "write"} => ~opt.safe_writes
  /\ s = "write" => n = Node("file", i, FALSE, Now)
  /\ s \in {"temp", "prepare", "rename"} => opt.safe_writes
  /\ s \in {"temp", "prepare"} => n = Cleared(i)
  /\ s \in {"prepare", "rename"} => ~e(i).bad
  /\ s = "rename" => n = IF Cleared(i).kind = "dir" THEN Absent ELSE Cleared(i)
  /\ s \in {"ok", "error", "leave"} => n = Alone(Found(i), i)
  /\ s = "ok" => Good(i)
StageInv ==
  \A i \in Jobs : step[i] # "idle" /\ OnlyFiles(e(i).path) =>
                    Stage(i, step[i], remove[i], fs[e(i).path])

\* The jobs of path p that are through are those of the first k entries.
ThroughUpTo(p, k) ==
  \A j \in Files : j <= pos /\ e(j).path = p => (j <= k <=> lstate[j] = "gone")
\* A path that nobody works on is as the jobs that are through have left it.
RestInv ==
  \A p \in Paths :
    OnlyFiles(p) /\ (\A i \in Jobs : step[i] # "idle" => e(i).path # p) =>
      \A k \in 0..pos : ThroughUpTo(p, k) => fs[p] = OneByOne[k][p]

Reported(i) == \E k \in DOMAIN rx : rx[k][1] = i
Erred(i) == \E k \in DOMAIN rx : rx[k][1] = i /\ rx[k][2] = "error"
\* Every job reports once, and ok only when it has done what it had to.
ReportInv ==
  /\ \A j \in Jobs : Reported(j) <=> lstate[j] = "gone" \/ step[j] = "leave"
  /\ \A k, l \in DOMAIN rx : rx[k][1] = rx[l][1] => k = l
  /\ \A k \in DOMAIN rx : rx[k][2] = "ok" /\ OnlyFiles(e(rx[k][1]).path) => Good(rx[k][1])

\* What is not whole is being written, or its job fails.
WholeInv ==
  \A p \in Paths : ~fs[p].whole =>
    /\ fs[p].kind = "file" /\ fs[p].by \in Jobs
    /\ e(fs[p].by).path = p
    /\ step[fs[p].by] \in {"write", "error"} \/ Erred(fs[p].by)

ExtractInv == /\ TicketInv /\ Types /\ RegisteredInv /\ PlaceInv /\ ReaderInv
              /\ StageInv /\ RestInv /\ ReportInv /\ WholeInv
-----------------------------------------------------------------------------
(* OneByOne satisfies its recursion.                                       *)

After(m, k) == IF k \in Files
               THEN [m EXCEPT ![e(k).path] = Alone(m[e(k).path], k)] ELSE m
\* g says what OneByOne is up to n.
UpTo(g, n) == g[0] = disk /\ \A k \in 1..n : g[k] = After(g[k - 1], k)

LEMMA UpToUnique ==
  ASSUME NEW n \in Nat, NEW m \in Nat, NEW g, NEW h, UpTo(g, n), UpTo(h, m)
  PROVE  \A k \in Nat : k <= n /\ k <= m => g[k] = h[k]
<1> DEFINE S == {k \in Nat : k <= n /\ k <= m => g[k] = h[k]}
<1>1. 0 \in S
  BY DEF UpTo
<1>2. ASSUME NEW k \in Nat, k \in S PROVE k + 1 \in S
  <2>1. k + 1 \in Nat /\ (k + 1) - 1 = k
    OBVIOUS
  <2>2. CASE k + 1 <= n /\ k + 1 <= m
    <3>1. k + 1 \in 1..n /\ k + 1 \in 1..m /\ k <= n /\ k <= m
      BY <2>2
    <3>2. g[k + 1] = After(g[k], k + 1) /\ h[k + 1] = After(h[k], k + 1)
      BY <2>1, <3>1 DEF UpTo
    <3> QED
      BY <1>2, <2>1, <3>1, <3>2
  <2> QED
    BY <2>1, <2>2
<1> HIDE DEF S
<1>3. Nat \subseteq S
  BY <1>1, <1>2, SetInduction
<1> QED
  BY <1>3 DEF S

LEMMA UpToExists == \A n \in Nat : \E g : UpTo(g, n)
<1> DEFINE S == {n \in Nat : \E g : UpTo(g, n)}
<1>1. 0 \in S
  <2>1. UpTo([k \in {0} |-> disk], 0)
    BY DEF UpTo
  <2> QED
    BY <2>1
<1>2. ASSUME NEW n \in Nat, n \in S PROVE n + 1 \in S
  <2>1. PICK g : UpTo(g, n)
    BY <1>2
  <2> DEFINE h == [k \in 0..(n + 1) |-> IF k = n + 1 THEN After(g[n], n + 1) ELSE g[k]]
  <2>2. h[0] = disk
    BY <2>1 DEF UpTo
  <2>3. ASSUME NEW k \in 1..(n + 1) PROVE h[k] = After(h[k - 1], k)
    <3>1. h[k - 1] = g[k - 1]
      OBVIOUS
    <3>2. CASE k = n + 1
      BY <3>1, <3>2
    <3>3. CASE k # n + 1
      <4>1. k \in 1..n /\ h[k] = g[k]
        BY <3>3
      <4> QED
        BY <2>1, <3>1, <4>1 DEF UpTo
    <3> QED
      BY <3>2, <3>3
  <2> HIDE DEF h
  <2>4. UpTo(h, n + 1)
    BY <2>2, <2>3 DEF UpTo
  <2> QED
    BY <2>4
<1> HIDE DEF S
<1>3. Nat \subseteq S
  BY <1>1, <1>2, SetInduction
<1> QED
  BY <1>3 DEF S

LEMMA OneByOneDefined ==
  OneByOne = [k \in Nat |->
    IF k = 0 THEN disk
    ELSE IF k \in Files
    THEN [OneByOne[k - 1] EXCEPT ![e(k).path] = Alone(OneByOne[k - 1][e(k).path], k)]
    ELSE OneByOne[k - 1]]
<1> DEFINE G(n) == CHOOSE g : UpTo(g, n)
           F == [n \in Nat |-> G(n)[n]]
<1>1. \A n \in Nat : UpTo(G(n), n)
  BY UpToExists
<1> HIDE DEF G
<1>2. ASSUME NEW k \in Nat PROVE F[k] = IF k = 0 THEN disk ELSE After(F[k - 1], k)
  <2>1. CASE k = 0
    BY <1>1, <2>1 DEF UpTo
  <2>2. CASE k # 0
    <3>1. k - 1 \in Nat /\ k \in 1..k /\ k - 1 <= k - 1 /\ k - 1 <= k
      BY <2>2
    <3>2. G(k)[k] = After(G(k)[k - 1], k)
      BY <1>1, <3>1 DEF UpTo
    <3>3. G(k)[k - 1] = G(k - 1)[k - 1]
      BY <1>1, <3>1, UpToUnique
    <3> QED
      BY <2>2, <3>1, <3>2, <3>3
  <2> QED
    BY <2>1, <2>2
<1>3. F = [k \in Nat |-> IF k = 0 THEN disk ELSE After(F[k - 1], k)]
  BY <1>2
<1> HIDE DEF F
<1>4. F = [k \in Nat |->
    IF k = 0 THEN disk
    ELSE IF k \in Files
    THEN [F[k - 1] EXCEPT ![e(k).path] = Alone(F[k - 1][e(k).path], k)]
    ELSE F[k - 1]]
  BY <1>3 DEF After
<1> QED
  BY <1>4 DEF OneByOne

LEMMA OneByOneStep ==
  /\ OneByOne[0] = disk
  /\ \A k \in Nat : OneByOne[k + 1] = After(OneByOne[k], k + 1)
<1>1. OneByOne[0] = disk
  BY OneByOneDefined
<1>2. ASSUME NEW k \in Nat PROVE OneByOne[k + 1] = After(OneByOne[k], k + 1)
  <2>1. k + 1 \in Nat /\ k + 1 # 0 /\ (k + 1) - 1 = k
    OBVIOUS
  <2> QED
    BY <2>1, OneByOneDefined DEF After
<1> QED
  BY <1>1, <1>2

-----------------------------------------------------------------------------
(* Types.                                                                  *)

LEMMA EntryTypes ==
  ASSUME InputsOk, NEW i \in DOMAIN archive
  PROVE  /\ i \in Jobs /\ i \in Nat /\ i > 0
         /\ e(i).path \in Paths /\ e(i).kind \in {"file", "link", "dir"}
         /\ e(i).mtime \in Nat /\ e(i).bad \in BOOLEAN
<1>1. archive[i] \in Entries /\ i \in Jobs
  BY DEF InputsOk
<1>2. i \in Nat /\ i > 0
  BY <1>1, JobsAssumption
<1> QED
  BY <1>1, <1>2 DEF Entries, e

LEMMA NodeTypes ==
  /\ Absent \in Nodes
  /\ \A k \in {"none", "file", "dir", "link"}, i \in {0} \cup Jobs, w \in BOOLEAN, t \in Nat :
       /\ Node(k, i, w, t) \in Nodes
       /\ Node(k, i, w, t).kind = k /\ Node(k, i, w, t).by = i
       /\ Node(k, i, w, t).whole = w /\ Node(k, i, w, t).mtime = t
  /\ Absent.kind = "none" /\ Absent.whole = TRUE
  BY DEF Absent, Node, Nodes

LEMMA NodeNumbers ==
  ASSUME NEW n \in Nodes
  PROVE  n.by \in Nat /\ n.mtime \in Nat
<1>1. n.by \in {0} \cup Jobs /\ n.mtime \in Nat
  BY DEF Nodes
<1>2. \A x \in {0} \cup Jobs : x \in Nat
  BY JobsAssumption
<1> QED
  BY <1>1, <1>2

LEMMA MtimeType ==
  ASSUME InputsOk, NEW i \in DOMAIN archive
  PROVE  Mtime(i) \in Nat
  BY EntryTypes, JobsAssumption DEF Mtime, HasTime

\* What a file entry makes of a node.
LEMMA AloneTypes ==
  ASSUME InputsOk, NEW i \in DOMAIN archive, NEW n \in Nodes
  PROVE  Alone(n, i) \in Nodes
<1>1. /\ Absent \in Nodes /\ Node("file", i, TRUE, Mtime(i)) \in Nodes
      /\ Node("file", i, FALSE, Now) \in Nodes
  BY EntryTypes, NodeTypes, MtimeType, JobsAssumption
<1> QED
  BY <1>1 DEF Alone

LEMMA OneByOneTypes ==
  ASSUME InputsOk
  PROVE  \A k \in Nat : OneByOne[k] \in [Paths -> Nodes]
<1> DEFINE S == {k \in Nat : OneByOne[k] \in [Paths -> Nodes]}
<1>1. 0 \in S
  BY OneByOneStep DEF InputsOk
<1>2. ASSUME NEW k \in Nat, k \in S PROVE k + 1 \in S
  <2>1. OneByOne[k + 1] = After(OneByOne[k], k + 1) /\ OneByOne[k] \in [Paths -> Nodes]
    BY <1>2, OneByOneStep
  <2>2. CASE k + 1 \in Files
    <3>1. k + 1 \in DOMAIN archive
      BY <2>2 DEF Files
    <3>2. e(k + 1).path \in Paths
      BY <3>1, EntryTypes
    <3>3. OneByOne[k][e(k + 1).path] \in Nodes
      BY <2>1, <3>2
    <3>4. Alone(OneByOne[k][e(k + 1).path], k + 1) \in Nodes
      BY <3>1, <3>3, AloneTypes
    <3> QED
      BY <2>1, <2>2, <3>2, <3>4 DEF After
  <2>3. CASE k + 1 \notin Files
    BY <2>1, <2>3 DEF After
  <2> QED
    BY <2>2, <2>3
<1> HIDE DEF S
<1>3. Nat \subseteq S
  BY <1>1, <1>2, SetInduction
<1> QED
  BY <1>3 DEF S

\* Entries that do not go to a path as files leave it alone.
LEMMA OneByOneRests ==
  ASSUME InputsOk, NEW p \in Paths, NEW m \in Nat, NEW n \in Nat, m <= n,
         \A j \in Files : e(j).path = p => j <= m \/ j > n
  PROVE  OneByOne[n][p] = OneByOne[m][p]
<1> DEFINE S == {d \in Nat : m + d <= n => OneByOne[m + d][p] = OneByOne[m][p]}
<1>1. 0 \in S
  OBVIOUS
<1>2. ASSUME NEW d \in Nat, d \in S PROVE d + 1 \in S
  <2> SUFFICES ASSUME m + (d + 1) <= n PROVE OneByOne[m + (d + 1)][p] = OneByOne[m][p]
    OBVIOUS
  <2> DEFINE k == m + d
  <2>1. k \in Nat /\ k + 1 = m + (d + 1) /\ k <= n /\ k + 1 <= n /\ k + 1 > m
    OBVIOUS
  <2>2. OneByOne[k][p] = OneByOne[m][p]
    BY <1>2, <2>1
  <2> HIDE DEF k
  <2>3. OneByOne[k + 1] = After(OneByOne[k], k + 1) /\ OneByOne[k] \in [Paths -> Nodes]
    BY <2>1, OneByOneStep, OneByOneTypes
  <2>4. k + 1 \in Files => e(k + 1).path # p
    BY <2>1
  <2>5. OneByOne[k + 1][p] = OneByOne[k][p]
    BY <2>3, <2>4 DEF After
  <2> QED
    BY <2>1, <2>2, <2>5
<1> HIDE DEF S
<1>3. Nat \subseteq S
  BY <1>1, <1>2, SetInduction
<1>4. n - m \in Nat /\ m + (n - m) = n
  OBVIOUS
<1> QED
  BY <1>3, <1>4 DEF S

-----------------------------------------------------------------------------
(* What the steps do.                                                      *)

\* Everything the reader does but registering a file.
ReadsOn == \/ ReadLink \/ ReadDirectory \/ ClearDirectory \/ MakeDirectory
           \/ EndOfArchive \/ JoinScope \/ ExtractLink \/ AllDone \/ ReadFails
NoJobMoves == UNCHANGED <<inputs, queue, running, step, remove, rx, lvars>>
\* Steps of a job under its guard, and what they have in common.
Acts(i) == Check(i) \/ Unlink(i) \/ Create(i) \/ Write(i) \/ WriteTemp(i)
           \/ Prepare(i) \/ Rename(i) \/ Send(i)
OnlyJobMoves(i) ==
  /\ UNCHANGED <<inputs, readvars, queue, running, lvars>>
  /\ step[i] \notin {"idle", "leave"}
  /\ \E s \in JobSteps \ {"idle"} : step' = [step EXCEPT ![i] = s]
  /\ \E b \in BOOLEAN : remove' = [remove EXCEPT ![i] = b]
  /\ fs' = fs \/ \E n \in Nodes : fs' = [fs EXCEPT ![e(i).path] = n]

LEMMA NextSteps ==
  Next <=> \/ ReadFile \/ ReadsOn \/ Spurious
           \/ \E w \in Threads : \/ Start(w) \/ Leave(w)
                                 \/ running[w] # 0 /\ Wait(running[w])
                                 \/ running[w] # 0 /\ Acts(running[w])
  BY DEF Next, Read, ReadsOn, Work, Run, Acts

LEMMA ActsMove ==
  ASSUME Types, NEW i \in Jobs, i \in DOMAIN archive, Acts(i)
  PROVE  OnlyJobMoves(i)
<1> USE DEF InJob, Then, Put
<1>0. /\ e(i).path \in Paths /\ Absent \in Nodes
      /\ Node("file", i, TRUE, Mtime(i)) \in Nodes /\ Node("file", i, FALSE, Now) \in Nodes
      /\ remove[i] \in BOOLEAN /\ remove = [remove EXCEPT ![i] = remove[i]]
  <2>1. InputsOk /\ remove \in [Jobs -> BOOLEAN]
    BY DEF Types
  <2>2. Mtime(i) \in Nat /\ Now \in Nat /\ e(i).path \in Paths
    BY <2>1, MtimeType, EntryTypes, JobsAssumption
  <2>3. Node("file", i, TRUE, Mtime(i)) \in Nodes /\ Node("file", i, FALSE, Now) \in Nodes
    BY <2>2, NodeTypes
  <2>4. remove[i] \in BOOLEAN /\ remove = [remove EXCEPT ![i] = remove[i]]
    BY <2>1
  <2> QED
    BY <2>2, <2>3, <2>4, NodeTypes
<1>1. CASE Check(i)
  <2>1. RemovesExisting(At(i)) \in BOOLEAN
    BY DEF RemovesExisting
  <2> QED
    BY <1>1, <2>1 DEF Check, OnlyJobMoves, JobSteps, AfterUnlink
<1>2. CASE Unlink(i)
  BY <1>0, <1>2 DEF Unlink, OnlyJobMoves, JobSteps, AfterUnlink
<1>3. CASE Create(i)
  BY <1>0, <1>3 DEF Create, OnlyJobMoves, JobSteps
<1>4. CASE Write(i)
  BY <1>0, <1>4 DEF Write, OnlyJobMoves, JobSteps
<1>5. CASE WriteTemp(i)
  BY <1>0, <1>5 DEF WriteTemp, OnlyJobMoves, JobSteps
<1>6. CASE Prepare(i)
  BY <1>0, <1>6 DEF Prepare, OnlyJobMoves, JobSteps
<1>7. CASE Rename(i)
  BY <1>0, <1>7 DEF Rename, OnlyJobMoves, JobSteps
<1>8. CASE Send(i)
  BY <1>0, <1>8 DEF Send, OnlyJobMoves, JobSteps
<1> QED
  BY <1>1, <1>2, <1>3, <1>4, <1>5, <1>6, <1>7, <1>8 DEF Acts

-----------------------------------------------------------------------------
(* What the inputs alone determine does not change.                        *)

LEMMA InputsFixed ==
  ASSUME UNCHANGED inputs
  PROVE  /\ Files' = Files
         /\ \A i : e(i)' = e(i)
         /\ \A p : OnlyFiles(p)' <=> OnlyFiles(p)
         /\ OneByOne' = OneByOne
         /\ \A n, i : Refused(n, i)' <=> Refused(n, i)
         /\ \A n, i : Skipped(n, i)' <=> Skipped(n, i)
         /\ \A n, i : Alone(n, i)' = Alone(n, i)
<1>0. archive' = archive /\ opt' = opt /\ disk' = disk
  BY DEF inputs
<1>1. Files' = Files
  BY <1>0 DEF Files, e
<1>2. \A i : e(i)' = e(i)
  BY <1>0 DEF e
<1>3. \A p : OnlyFiles(p)' <=> OnlyFiles(p)
  BY <1>0 DEF OnlyFiles, Files, e
<1>4. \A n, i : /\ Refused(n, i)' <=> Refused(n, i)
                /\ Skipped(n, i)' <=> Skipped(n, i)
  BY <1>0 DEF Refused, Skipped, Newer, HasTime, e
<1>5. \A n, i : Alone(n, i)' = Alone(n, i)
  BY <1>0 DEF Alone, Refused, Skipped, Newer, HasTime, e, Unlinks, Mtime
<1>6. OneByOne' = OneByOne
  BY <1>0 DEF OneByOne, Alone, Refused, Skipped, Newer, HasTime, e, Unlinks, Mtime, Files
<1> QED
  BY <1>1, <1>2, <1>3, <1>4, <1>5, <1>6

LEMMA StageFixed ==
  ASSUME UNCHANGED inputs
  PROVE  /\ \A i : Found(i)' = Found(i)
         /\ \A i : Good(i)' <=> Good(i)
         /\ \A i, s, r, n : Stage(i, s, r, n)' <=> Stage(i, s, r, n)
<1>0. opt' = opt
  BY DEF inputs
<1>1. \A i : Found(i)' = Found(i)
  BY InputsFixed DEF Found
<1>2. \A i : Cleared(i)' = Cleared(i) /\ (Touches(i)' <=> Touches(i))
  BY <1>0, <1>1, InputsFixed DEF Cleared, Touches, Unlinks
<1>3. \A i : Good(i)' <=> Good(i)
  BY <1>1, InputsFixed DEF Good
<1>4. \A i, s, r, n : Stage(i, s, r, n)' <=> Stage(i, s, r, n)
  <2> SUFFICES ASSUME NEW i, NEW s, NEW r, NEW n
               PROVE  Stage(i, s, r, n)' <=> Stage(i, s, r, n)
    OBVIOUS
  <2>1. /\ Found(i)' = Found(i) /\ Cleared(i)' = Cleared(i) /\ e(i)' = e(i)
        /\ (Touches(i)' <=> Touches(i)) /\ (Good(i)' <=> Good(i))
    BY <1>1, <1>2, <1>3, InputsFixed
  <2>2. /\ Alone(Found(i), i)' = Alone(Found(i), i)
        /\ RemovesExisting(Found(i))' = RemovesExisting(Found(i))
        /\ Unlinks(n)' <=> Unlinks(n)
    BY <1>0, <2>1, InputsFixed DEF Unlinks, RemovesExisting
  <2> QED
    BY <1>0, <2>1, <2>2 DEF Stage
<1> QED
  BY <1>1, <1>3, <1>4

-----------------------------------------------------------------------------
(* The tickets are those of PathLocks.                                     *)

LEMMA StepLocks ==
  ASSUME Types, RegisteredInv, PlaceInv, [Next]_vars
  PROVE  [LNext]_lvars
<1> USE DEF Types
<1>1. CASE ReadFile
  <2>1. pos + 1 \in DOMAIN archive
    BY <1>1 DEF ReadFile, MayRead, InputsOk
  <2> QED
    BY <1>1, <2>1, EntryTypes DEF ReadFile, LNext
<1>2. CASE ReadsOn
  BY <1>2 DEF ReadsOn, ReadLink, ReadDirectory, ClearDirectory, MakeDirectory,
              EndOfArchive, JoinScope, ExtractLink, AllDone, ReadFails
<1>3. CASE Spurious
  BY <1>3 DEF Spurious, LNext
<1>4. ASSUME NEW w \in Threads, Start(w) PROVE [LNext]_lvars
  BY <1>4 DEF Start
<1>5. ASSUME NEW w \in Threads, Leave(w) PROVE [LNext]_lvars
  BY <1>5 DEF Leave, LNext
<1>6. ASSUME NEW w \in Threads, running[w] # 0, Wait(running[w]) PROVE [LNext]_lvars
  BY <1>6 DEF Wait, LNext
<1>7. ASSUME NEW w \in Threads, running[w] # 0, Acts(running[w]) PROVE [LNext]_lvars
  BY <1>7 DEF Acts, Check, Unlink, Create, Write, WriteTemp, Prepare, Rename, Send, InJob
<1>8. CASE UNCHANGED vars
  BY <1>8 DEF vars
<1> QED
  BY <1>1, <1>2, <1>3, <1>4, <1>5, <1>6, <1>7, <1>8, NextSteps

LEMMA InputsStay == [Next]_vars => UNCHANGED inputs
<1> USE DEF inputs
<1>1. Read \/ ReadFails => UNCHANGED inputs
  BY DEF Read, ReadFile, ReadLink, ReadDirectory, ClearDirectory, MakeDirectory,
         EndOfArchive, JoinScope, ExtractLink, AllDone, ReadFails
<1>2. \A w \in Threads : Work(w) => UNCHANGED inputs
  BY DEF Work, Start, Leave, Run, Wait, Check, Unlink, Create, Write, WriteTemp,
         Prepare, Rename, Send, InJob
<1> QED
  BY <1>1, <1>2 DEF Next, Spurious, vars

\* Who works on a path works there alone.
LEMMA Exclusive ==
  ASSUME TicketInv, Types, RegisteredInv, PlaceInv,
         NEW i \in Jobs, NEW j \in Jobs, step[i] # "idle", step[j] # "idle",
         e(i).path = e(j).path
  PROVE  i = j
<1>1. lstate[i] = "guard" /\ lstate[j] = "guard"
  BY DEF PlaceInv
<1>2. path[i] = path[j]
  BY <1>1 DEF RegisteredInv, Registered
<1> QED
  BY <1>1, <1>2 DEF TicketInv, Numbered, Distinct, Registered

\* The entry of a job that works or runs.
LEMMA JobEntry ==
  ASSUME Types, RegisteredInv, NEW i \in Jobs, Registered(i)
  PROVE  /\ i \in Files /\ i \in DOMAIN archive /\ i <= pos /\ i \in Nat /\ i > 0
         /\ e(i).path \in Paths /\ path[i] = e(i).path
<1>1. i \in Files /\ i <= pos /\ path[i] = e(i).path
  BY DEF RegisteredInv
<1>2. i \in DOMAIN archive
  BY <1>1 DEF Files
<1> QED
  BY <1>1, <1>2, EntryTypes DEF Types

-----------------------------------------------------------------------------
(* The reader.                                                             *)

\* An entry that is not a file keeps its path from being OnlyFiles.
LEMMA OtherPaths ==
  ASSUME NEW i \in DOMAIN archive, e(i).kind # "file"
  PROVE  ~OnlyFiles(e(i).path)
  BY DEF OnlyFiles, Files

\* What the reader changes: at most a path that not only files go to, where it
\* leaves nothing half-written.
ReaderTouches(n, i) == n.whole /\ ~OnlyFiles(e(i).path) /\ fs' = [fs EXCEPT ![e(i).path] = n]
ReaderMoves ==
  /\ NoJobMoves
  /\ \/ pos' = pos
     \/ pos' = pos + 1 /\ pos + 1 \in DOMAIN archive /\ e(pos + 1).kind # "file"
  /\ fs' = fs \/ \E i \in DOMAIN archive, n \in Nodes : ReaderTouches(n, i)

LEMMA TakesEntry ==
  ASSUME Types, MayRead
  PROVE  pos + 1 \in DOMAIN archive /\ pos + 1 \in 0..Len(archive)
  BY DEF Types, InputsOk, MayRead

LEMMA ReadsOnMoves ==
  ASSUME Types, ReaderInv, ReadsOn
  PROVE  ReaderMoves
<1> USE DEF ReaderMoves, NoJobMoves, jobvars
<1>1. CASE ReadLink \/ ReadDirectory
  <2>1. pos + 1 \in DOMAIN archive
    BY <1>1, TakesEntry DEF ReadLink, ReadDirectory
  <2> QED
    BY <1>1, <2>1 DEF ReadLink, ReadDirectory
<1>2. CASE ClearDirectory \/ MakeDirectory
  <2>1. pos \in DOMAIN archive /\ ~OnlyFiles(e(pos).path) /\ pos \in Jobs
    <3>1. pos \in DOMAIN archive /\ e(pos).kind = "dir"
      BY <1>2 DEF ReaderInv, ClearDirectory, MakeDirectory
    <3> QED
      BY <3>1, OtherPaths, EntryTypes DEF Types
  <2>2. Absent \in Nodes /\ Node("dir", pos, TRUE, Now) \in Nodes
    BY <2>1, NodeTypes, JobsAssumption
  <2>3. Absent.whole /\ Node("dir", pos, TRUE, Now).whole
    BY DEF Node, Absent
  <2>4. fs' = fs \/ \E n \in Nodes : ReaderTouches(n, pos)
    BY <1>2, <2>1, <2>2, <2>3 DEF ClearDirectory, MakeDirectory, Put, ReaderTouches
  <2> QED
    BY <1>2, <2>1, <2>4 DEF ClearDirectory, MakeDirectory
<1>3. CASE ExtractLink
  <2> DEFINE i == links[1]
  <2>1. i \in DOMAIN archive /\ ~OnlyFiles(e(i).path) /\ i \in Jobs
    <3>1. 1 \in DOMAIN links
      BY <1>3 DEF Types, ExtractLink
    <3>2. i \in DOMAIN archive /\ e(i).kind = "link"
      BY <3>1 DEF ReaderInv
    <3> QED
      BY <3>2, OtherPaths, EntryTypes DEF Types
  <2>2. Node("link", i, TRUE, Now) \in Nodes /\ Node("link", i, TRUE, Now).whole
    BY <2>1, NodeTypes, JobsAssumption
  <2>3. fs' = fs \/ \E n \in Nodes : ReaderTouches(n, i)
    BY <1>3, <2>1, <2>2 DEF ExtractLink, Put, ReaderTouches
  <2> HIDE DEF i
  <2> QED
    BY <1>3, <2>1, <2>3 DEF ExtractLink
<1>4. CASE EndOfArchive \/ JoinScope \/ AllDone \/ ReadFails
  BY <1>4 DEF EndOfArchive, JoinScope, AllDone, ReadFails
<1> QED
  BY <1>1, <1>2, <1>3, <1>4 DEF ReadsOn

LEMMA ReadsOnReader ==
  ASSUME Types, ReaderInv, ReadsOn
  PROVE  /\ ReaderInv'
         /\ rstate' \in RStates /\ pos' \in 0..Len(archive) /\ links' \in Seq(Jobs)
<1>0. /\ UNCHANGED <<archive, queue, running, rx>>
      /\ (Quiet' <=> Quiet) /\ (Failed' <=> Failed) /\ \A i : e(i)' = e(i)
  BY ReadsOnMoves DEF ReaderMoves, NoJobMoves, inputs, Quiet, Failed, e
<1>1. CASE ReadLink
  <2>1. pos + 1 \in DOMAIN archive /\ pos + 1 \in 0..Len(archive) /\ pos + 1 \in Jobs
    BY <1>1, TakesEntry, EntryTypes DEF ReadLink, Types
  <2>2. \A k \in DOMAIN links' : links'[k] \in DOMAIN archive /\ e(links'[k]).kind = "link"
    BY <1>1, <2>1 DEF ReadLink, ReaderInv, Types
  <2>3. links' \in Seq(Jobs)
    BY <1>1, <2>1 DEF ReadLink, Types
  <2> QED
    BY <1>0, <1>1, <2>1, <2>2, <2>3 DEF ReadLink, ReaderInv, MayRead, RStates
<1>2. CASE ReadDirectory
  <2>1. pos + 1 \in DOMAIN archive /\ pos + 1 \in 0..Len(archive)
    BY <1>2, TakesEntry DEF ReadDirectory
  <2> QED
    BY <1>0, <1>2, <2>1 DEF ReadDirectory, ReaderInv, RStates, Types
<1>3. CASE ClearDirectory \/ MakeDirectory
  BY <1>0, <1>3 DEF ClearDirectory, MakeDirectory, ReaderInv, RStates, Types
<1>4. CASE ExtractLink
  <2>1. \A k \in DOMAIN links' : k + 1 \in DOMAIN links /\ links'[k] = links[k + 1]
    BY <1>4 DEF ExtractLink, Types
  <2>2. links' \in Seq(Jobs)
    BY <1>4 DEF ExtractLink, Types
  <2> QED
    BY <1>0, <1>4, <2>1, <2>2 DEF ExtractLink, ReaderInv, RStates, Types
<1>5. CASE EndOfArchive \/ AllDone \/ ReadFails
  BY <1>0, <1>5 DEF EndOfArchive, AllDone, ReadFails, ReaderInv, RStates, Types, MayRead
<1>6. CASE JoinScope
  BY <1>0, <1>6 DEF JoinScope, Drains, ReaderInv, RStates, Types
<1> QED
  BY <1>1, <1>2, <1>3, <1>4, <1>5, <1>6 DEF ReadsOn

\* Every step keeps ExtractInv; TicketInv is kept by StepLocks and TicketStep.
Kept == Types' /\ RegisteredInv' /\ PlaceInv' /\ ReaderInv' /\ StageInv' /\ RestInv'
        /\ ReportInv' /\ WholeInv'

LEMMA ReadsOnKeeps ==
  ASSUME ExtractInv, ReadsOn
  PROVE  Kept
<1>0. ReaderMoves /\ UNCHANGED inputs
  BY ReadsOnMoves DEF ExtractInv, ReaderMoves, NoJobMoves
<1>1. /\ UNCHANGED <<archive, opt, pool, disk>>
      /\ UNCHANGED <<queue, running, step, remove, rx>>
      /\ UNCHANGED <<next_seq, current_seq, path, seq, lstate>>
  BY <1>0 DEF ReaderMoves, NoJobMoves, inputs, lvars
<1>2. /\ Files' = Files /\ (\A i : e(i)' = e(i)) /\ (\A p : OnlyFiles(p)' <=> OnlyFiles(p))
      /\ OneByOne' = OneByOne
      /\ \A i : Good(i)' <=> Good(i)
      /\ \A i, s, r, n : Stage(i, s, r, n)' <=> Stage(i, s, r, n)
  BY <1>0, InputsFixed, StageFixed
<1>3. pos \in Nat /\ pos' \in Nat /\ Files \subseteq Nat
  BY <1>1, ReadsOnReader, EntryTypes DEF ExtractInv, Types, InputsOk, Files
<1>4. \A j \in Files : j <= pos' <=> j <= pos
  <2>1. CASE pos' = pos
    BY <2>1
  <2>2. CASE pos' = pos + 1 /\ e(pos + 1).kind # "file"
    BY <1>3, <2>2 DEF Files
  <2> QED
    BY <1>0, <2>1, <2>2 DEF ReaderMoves
<1>5. fs' \in [Paths -> Nodes] /\ \A p \in Paths : \/ fs'[p] = fs[p]
                                                   \/ fs'[p].whole /\ ~OnlyFiles(p)
  <2>1. fs \in [Paths -> Nodes]
    BY DEF ExtractInv, Types
  <2>2. ASSUME NEW i \in DOMAIN archive, NEW n \in Nodes, ReaderTouches(n, i)
        PROVE  fs' \in [Paths -> Nodes] /\ \A p \in Paths : \/ fs'[p] = fs[p]
                                                            \/ fs'[p].whole /\ ~OnlyFiles(p)
    BY <2>1, <2>2 DEF ReaderTouches
  <2> QED
    BY <1>0, <2>1, <2>2 DEF ReaderMoves
<1>6. Types' /\ ReaderInv'
  <2>1. /\ ReaderInv'
        /\ rstate' \in RStates /\ pos' \in 0..Len(archive) /\ links' \in Seq(Jobs)
    BY ReadsOnReader DEF ExtractInv
  <2> QED
    BY <1>1, <1>5, <2>1 DEF ExtractInv, Types, InputsOk
<1>7. RegisteredInv'
  BY <1>1, <1>2, <1>4 DEF ExtractInv, RegisteredInv, Registered
<1>8. PlaceInv'
  BY <1>1 DEF ExtractInv, PlaceInv, Pending
<1>9. StageInv'
  <2> SUFFICES ASSUME NEW i \in Jobs, step[i] # "idle", OnlyFiles(e(i).path)
               PROVE  Stage(i, step[i], remove[i], fs'[e(i).path])
    BY <1>1, <1>2 DEF StageInv
  <2>1. e(i).path \in Paths
    BY JobEntry DEF ExtractInv, PlaceInv, Registered
  <2>2. fs'[e(i).path] = fs[e(i).path]
    BY <1>5, <2>1
  <2> QED
    BY <2>2 DEF ExtractInv, StageInv
<1>10. RestInv'
  <2> SUFFICES ASSUME NEW p \in Paths, OnlyFiles(p),
                      \A i \in Jobs : step[i] # "idle" => e(i).path # p,
                      NEW k \in 0..pos', ThroughUpTo(p, k)'
               PROVE  fs'[p] = OneByOne[k][p]
    BY <1>1, <1>2 DEF RestInv
  <2>1. \A j \in Files : j <= pos /\ e(j).path = p => (j <= k <=> lstate[j] = "gone")
    BY <1>1, <1>2, <1>4 DEF ThroughUpTo
  <2>2. fs'[p] = fs[p]
    BY <1>5
  <2>3. CASE k \in 0..pos
    BY <2>1, <2>2, <2>3 DEF ExtractInv, RestInv, ThroughUpTo
  <2>4. CASE k \notin 0..pos
    <3>1. k = pos + 1 /\ e(pos + 1).kind # "file" /\ pos \in 0..pos
      <4>1. pos' # pos /\ pos \in 0..pos
        BY <1>3, <2>4
      <4>2. pos' = pos + 1 /\ e(pos + 1).kind # "file"
        BY <1>0, <4>1 DEF ReaderMoves
      <4> QED
        BY <1>3, <2>4, <4>1, <4>2
    <3>2. OneByOne[k] = OneByOne[pos]
      <4>1. pos + 1 \notin Files
        BY <3>1 DEF Files
      <4>2. OneByOne[pos + 1] = After(OneByOne[pos], pos + 1)
        BY <1>3, OneByOneStep
      <4> QED
        BY <3>1, <4>1, <4>2 DEF After
    <3>3. \A j \in Files : j <= pos => j <= k
      BY <1>3, <3>1
    <3>4. ThroughUpTo(p, pos)
      BY <2>1, <3>3 DEF ThroughUpTo
    <3> QED
      BY <2>2, <3>1, <3>2, <3>4 DEF ExtractInv, RestInv
  <2> QED
    BY <2>3, <2>4
<1>11. ReportInv'
  BY <1>1, <1>2 DEF ExtractInv, ReportInv, Reported
<1>12. WholeInv'
  <2> SUFFICES ASSUME NEW p \in Paths, ~fs'[p].whole
               PROVE  /\ fs'[p].kind = "file" /\ fs'[p].by \in Jobs
                      /\ e(fs'[p].by).path = p
                      /\ step[fs'[p].by] \in {"write", "error"} \/ Erred(fs'[p].by)
    BY <1>1, <1>2 DEF WholeInv, Erred
  <2>1. fs'[p] = fs[p]
    BY <1>5
  <2> QED
    BY <2>1 DEF ExtractInv, WholeInv
<1> QED
  BY <1>6, <1>7, <1>8, <1>9, <1>10, <1>11, <1>12 DEF Kept

-----------------------------------------------------------------------------
(* The tickets and the queue.                                              *)

\* Steps that touch no file, and no job's own state.
LEMMA NoFileTouched ==
  ASSUME Types, StageInv, WholeInv, UNCHANGED <<inputs, fs, step, remove, rx>>
  PROVE  StageInv' /\ WholeInv'
<1>1. /\ (\A i : e(i)' = e(i)) /\ (\A p : OnlyFiles(p)' <=> OnlyFiles(p))
      /\ \A i, s, r, n : Stage(i, s, r, n)' <=> Stage(i, s, r, n)
  BY InputsFixed, StageFixed
<1>2. StageInv'
  <2> SUFFICES ASSUME NEW i \in Jobs, step[i] # "idle", OnlyFiles(e(i).path)
               PROVE  Stage(i, step[i], remove[i], fs[e(i).path])
    BY <1>1 DEF StageInv
  <2> QED
    BY DEF StageInv
<1>3. WholeInv'
  BY <1>1 DEF WholeInv, Erred
<1> QED
  BY <1>2, <1>3

\* A sleeper wakes up for no reason.
LEMMA SpuriousKeeps ==
  ASSUME ExtractInv, Spurious
  PROVE  Kept
<1>0. /\ UNCHANGED inputs
      /\ UNCHANGED <<archive, opt, pool, disk, fs, pos, rstate, saw, links>>
      /\ UNCHANGED <<queue, running, step, remove, rx, path, seq>>
  BY DEF Spurious, inputs, readvars, jobvars, WakeUp, Unlocked
<1>1. /\ Files' = Files /\ (\A i : e(i)' = e(i)) /\ (\A p : OnlyFiles(p)' <=> OnlyFiles(p))
      /\ OneByOne' = OneByOne
      /\ \A i : Good(i)' <=> Good(i)
      /\ \A i, s, r, n : Stage(i, s, r, n)' <=> Stage(i, s, r, n)
  BY <1>0, InputsFixed, StageFixed
<1>2. \A j \in Jobs : /\ Registered(j)' <=> Registered(j)
                      /\ Pending(j)' <=> Pending(j)
                      /\ lstate'[j] = "gone" <=> lstate[j] = "gone"
                      /\ lstate'[j] = "guard" <=> lstate[j] = "guard"
                      /\ lstate'[j] = "ticket" <=> lstate[j] = "ticket"
  BY DEF ExtractInv, TicketInv, LTypeOK, Spurious, WakeUp, Goto, Registered, Pending
<1>3. Types' /\ ReaderInv' /\ StageInv' /\ WholeInv'
  <2>1. Types'
    BY <1>0 DEF ExtractInv, Types, InputsOk
  <2>2. ReaderInv'
    BY <1>0, <1>1 DEF ExtractInv, ReaderInv, Quiet, Failed
  <2> QED
    BY <1>0, <2>1, <2>2, NoFileTouched DEF ExtractInv
<1>4. RegisteredInv'
  BY <1>0, <1>1, <1>2 DEF ExtractInv, RegisteredInv
<1>5. PlaceInv'
  <2>1. \A k \in DOMAIN queue : queue[k] \in Jobs
    BY DEF ExtractInv, Types
  <2>2. \A w \in Threads : running[w] # 0 => running[w] \in Jobs
    BY DEF ExtractInv, Types
  <2> QED
    BY <1>0, <1>2, <2>1, <2>2 DEF ExtractInv, PlaceInv
<1>6. RestInv'
  <2>1. Files \subseteq Jobs
    BY DEF ExtractInv, Types, InputsOk, Files
  <2>2. \A p, k : ThroughUpTo(p, k)' <=> ThroughUpTo(p, k)
    BY <1>0, <1>1, <1>2, <2>1 DEF ThroughUpTo
  <2> QED
    BY <1>0, <1>1, <2>2 DEF ExtractInv, RestInv
<1>7. ReportInv'
  BY <1>0, <1>1, <1>2 DEF ExtractInv, ReportInv, Reported
<1> QED
  BY <1>3, <1>4, <1>5, <1>6, <1>7 DEF Kept

\* A worker takes the next job.
LEMMA StartKeeps ==
  ASSUME ExtractInv, NEW w \in Threads, Start(w)
  PROVE  Kept
<1>0. /\ UNCHANGED inputs
      /\ UNCHANGED <<archive, opt, pool, disk, fs, pos, rstate, saw, links>>
      /\ UNCHANGED <<step, remove, rx, path, seq, lstate>>
  BY DEF Start, inputs, readvars, jobvars, lvars
<1>1. /\ Files' = Files /\ (\A i : e(i)' = e(i)) /\ (\A p : OnlyFiles(p)' <=> OnlyFiles(p))
      /\ OneByOne' = OneByOne
      /\ \A i : Good(i)' <=> Good(i)
      /\ \A i, s, r, n : Stage(i, s, r, n)' <=> Stage(i, s, r, n)
  BY <1>0, InputsFixed, StageFixed
<1>2. queue \in Seq(Jobs) /\ queue # <<>> /\ running \in [Threads -> {0} \cup Jobs]
  BY DEF ExtractInv, Types, Start
<1>3. queue[1] \in Jobs /\ 1 \in DOMAIN queue /\ queue[1] # 0
  BY <1>2, JobsAssumption
<1>4. queue' = Tail(queue)
  <2>1. queue' = RemoveAt(queue, 1)
    BY DEF Start, NextJob
  <2>2. RemoveAt(queue, 1) = SubSeq(queue, 1, 0) \o SubSeq(queue, 2, Len(queue))
    BY DEF RemoveAt
  <2>3. SubSeq(queue, 1, 0) = <<>> /\ SubSeq(queue, 2, Len(queue)) = Tail(queue)
    BY <1>2
  <2> QED
    BY <1>2, <2>1, <2>2, <2>3
<1>5. /\ queue' \in Seq(Jobs)
      /\ \A k \in DOMAIN queue' : k + 1 \in DOMAIN queue /\ queue'[k] = queue[k + 1]
                                  /\ k + 1 # 1 /\ k \in Nat
      /\ \A k \in DOMAIN queue : k # 1 => k - 1 \in DOMAIN queue' /\ queue'[k - 1] = queue[k]
  BY <1>2, <1>4
<1>6. /\ running' \in [Threads -> {0} \cup Jobs]
      /\ \A v \in Threads : running'[v] = IF v = w THEN queue[1] ELSE running[v]
      /\ running[w] = 0
  BY <1>2, <1>3 DEF Start, NextJob
<1>7. Types' /\ StageInv' /\ WholeInv'
  <2>1. Types'
    BY <1>0, <1>5, <1>6 DEF ExtractInv, Types, InputsOk
  <2> QED
    BY <1>0, <2>1, NoFileTouched DEF ExtractInv
<1>8. ReaderInv'
  BY <1>0, <1>1, <1>2 DEF ExtractInv, ReaderInv, Quiet
<1>9. RegisteredInv'
  BY <1>0, <1>1 DEF ExtractInv, RegisteredInv, Registered
<1>10. PlaceInv'
  <2>1. PlaceInv
    BY DEF ExtractInv
  <2>2. \A k \in DOMAIN queue : lstate[queue[k]] = "ticket"
    BY <2>1 DEF PlaceInv
  <2>3. \A k, l \in DOMAIN queue : queue[k] = queue[l] => k = l
    BY <2>1 DEF PlaceInv
  <2>4. \A k \in DOMAIN queue' : lstate'[queue'[k]] = "ticket"
    BY <1>0, <1>5, <2>2
  <2>5. \A k, l \in DOMAIN queue' : queue'[k] = queue'[l] => k = l
    <3> SUFFICES ASSUME NEW k \in DOMAIN queue', NEW l \in DOMAIN queue', queue'[k] = queue'[l]
                 PROVE  k = l
      OBVIOUS
    <3>1. k + 1 = l + 1
      BY <1>5, <2>3
    <3> QED
      BY <1>5, <3>1
  <2>6. \A v \in Threads : running'[v] # 0 =>
          Pending(running[v])' /\ \A k \in DOMAIN queue' : queue'[k] # running'[v]
    <3> SUFFICES ASSUME NEW v \in Threads, running'[v] # 0
                 PROVE  Pending(running[v])' /\ \A k \in DOMAIN queue' : queue'[k] # running'[v]
      OBVIOUS
    <3>1. CASE v = w
      <4>1. running'[v] = queue[1] /\ lstate'[queue[1]] = "ticket"
        BY <1>0, <1>3, <1>6, <2>2, <3>1
      <4>2. \A k \in DOMAIN queue' : queue'[k] # queue[1]
        BY <1>3, <1>5, <2>3
      <4> QED
        BY <4>1, <4>2 DEF Pending
    <3>2. CASE v # w
      <4>1. running'[v] = running[v] /\ running[v] # 0
        BY <1>6, <3>2
      <4> QED
        BY <1>0, <1>5, <2>1, <4>1 DEF PlaceInv, Pending
    <3> QED
      BY <3>1, <3>2
  <2>7. \A u, v \in Threads : running'[u] = running'[v] /\ running'[u] # 0 => u = v
    BY <1>3, <1>6, <2>1 DEF PlaceInv
  <2>8. \A j \in Jobs : Pending(j)' => \/ \E k \in DOMAIN queue' : queue'[k] = j
                                       \/ \E v \in Threads : running'[v] = j
    <3> SUFFICES ASSUME NEW j \in Jobs, Pending(j)
                 PROVE  \/ \E k \in DOMAIN queue' : queue'[k] = j
                        \/ \E v \in Threads : running'[v] = j
      BY <1>0 DEF Pending
    <3>1. CASE \E k \in DOMAIN queue : queue[k] = j
      <4>1. PICK k \in DOMAIN queue : queue[k] = j
        BY <3>1
      <4>2. CASE k = 1
        BY <1>6, <4>1, <4>2
      <4>3. CASE k # 1
        BY <1>5, <4>1, <4>3
      <4> QED
        BY <4>2, <4>3
    <3>2. CASE \E v \in Threads : running[v] = j
      BY <1>6, <3>2, JobsAssumption
    <3> QED
      BY <2>1, <3>1, <3>2 DEF PlaceInv
  <2>9. \A j \in Jobs : step'[j] # "idle" <=> lstate'[j] = "guard"
    BY <1>0, <2>1 DEF PlaceInv
  <2> QED
    BY <2>4, <2>5, <2>6, <2>7, <2>8, <2>9 DEF PlaceInv
<1>11. RestInv' /\ ReportInv'
  BY <1>0, <1>1 DEF ExtractInv, RestInv, ThroughUpTo, ReportInv, Reported
<1> QED
  BY <1>7, <1>8, <1>9, <1>10, <1>11 DEF Kept

\* The reader registers a file for its path and spawns its job.
LEMMA ReadFileKeeps ==
  ASSUME ExtractInv, ReadFile
  PROVE  Kept
<1> DEFINE i == pos + 1
<1>0. /\ UNCHANGED inputs
      /\ UNCHANGED <<archive, opt, pool, disk, fs, rstate, saw, links>>
      /\ UNCHANGED <<running, step, remove, rx>>
      /\ pos' = i /\ queue' = Append(queue, i) /\ MayRead /\ e(i).kind = "file"
      /\ Register(i, e(i).path)
  BY DEF ReadFile, inputs, jobvars
<1>1. /\ Files' = Files /\ (\A j : e(j)' = e(j)) /\ (\A p : OnlyFiles(p)' <=> OnlyFiles(p))
      /\ OneByOne' = OneByOne
      /\ \A j : Good(j)' <=> Good(j)
  BY <1>0, InputsFixed, StageFixed
<1>2. /\ i \in DOMAIN archive /\ i \in Jobs /\ i \in Nat /\ i > 0 /\ e(i).path \in Paths
      /\ i \in Files /\ i \in 0..Len(archive) /\ pos \in Nat
  <2>1. i \in DOMAIN archive /\ i \in 0..Len(archive)
    BY <1>0, TakesEntry DEF ExtractInv
  <2> QED
    BY <1>0, <2>1, EntryTypes DEF ExtractInv, Types, Files
<1> HIDE DEF i
<1>3. /\ lstate[i] = "none"
      /\ \A j \in Jobs : /\ path'[j] = IF j = i THEN e(i).path ELSE path[j]
                         /\ seq'[j] = IF j = i THEN next_seq[e(i).path] ELSE seq[j]
                         /\ lstate'[j] = IF j = i THEN "ticket" ELSE lstate[j]
  BY <1>0, <1>2 DEF ExtractInv, TicketInv, LTypeOK, Register
<1>4. \A j \in Jobs : /\ Registered(j)' <=> Registered(j) \/ j = i
                      /\ Pending(j)' <=> Pending(j) \/ j = i
                      /\ lstate'[j] = "gone" <=> lstate[j] = "gone"
                      /\ lstate'[j] = "guard" <=> lstate[j] = "guard"
  BY <1>3 DEF Registered, Pending
<1>5. /\ queue \in Seq(Jobs) /\ running \in [Threads -> {0} \cup Jobs]
      /\ \A k \in DOMAIN queue : queue[k] \in Jobs
  BY DEF ExtractInv, Types
<1>6. /\ queue' \in Seq(Jobs)
      /\ DOMAIN queue' = DOMAIN queue \cup {Len(queue) + 1}
      /\ Len(queue) + 1 \notin DOMAIN queue
      /\ queue'[Len(queue) + 1] = i
      /\ \A k \in DOMAIN queue : queue'[k] = queue[k]
  BY <1>0, <1>2, <1>5
<1>7. Types' /\ StageInv' /\ WholeInv'
  <2>1. Types'
    BY <1>0, <1>2, <1>6 DEF ExtractInv, Types, InputsOk
  <2> QED
    BY <1>0, <2>1, NoFileTouched DEF ExtractInv
<1>8. ReaderInv'
  BY <1>0, <1>1 DEF ExtractInv, ReaderInv, MayRead
<1>9. \A j \in Files : j \in Jobs /\ j \in Nat /\ (j <= pos' <=> j <= pos \/ j = i)
  <2>1. \A j \in Files : j \in Jobs /\ j \in Nat
    BY EntryTypes DEF ExtractInv, Types, Files
  <2> QED
    BY <1>0, <1>2, <2>1 DEF i
<1>10. RegisteredInv'
  <2>1. RegisteredInv
    BY DEF ExtractInv
  <2>2. \A j \in Jobs : Registered(j)' <=> j \in Files' /\ j <= pos'
    BY <1>1, <1>2, <1>4, <1>9, <2>1 DEF RegisteredInv
  <2>3. \A j \in Jobs : Registered(j)' => path'[j] = e(j)'.path
    BY <1>1, <1>3, <1>4, <2>1 DEF RegisteredInv
  <2>4. ASSUME NEW j \in Jobs, NEW k \in Jobs, Registered(j)', Registered(k)',
               path'[j] = path'[k], j < k
        PROVE  seq'[j] < seq'[k]
    <3>1. \A l \in Jobs : Registered(l) => l \in Nat /\ l <= pos /\ l < i /\ l # i
      BY <1>2, <1>3, <1>9, <2>1 DEF RegisteredInv, Registered, i
    <3>2. CASE k = i
      <4>1. j # i /\ Registered(j) /\ path[j] = e(i).path
        BY <1>2, <1>3, <1>4, <2>4, <3>2
      <4>2. seq[j] < next_seq[path[j]]
        BY <4>1 DEF ExtractInv, TicketInv, Numbered
      <4> QED
        BY <1>3, <3>2, <4>1, <4>2
    <3>3. CASE k # i
      <4>1. Registered(k) /\ k < i /\ k \in Nat
        BY <1>4, <2>4, <3>1, <3>3
      <4>2. j # i
        BY <1>2, <2>4, <4>1
      <4> QED
        BY <1>3, <1>4, <2>1, <2>4, <3>3, <4>1, <4>2 DEF RegisteredInv
    <3> QED
      BY <3>2, <3>3
  <2> QED
    BY <2>2, <2>3, <2>4 DEF RegisteredInv
<1>11. PlaceInv'
  <2>1. PlaceInv
    BY DEF ExtractInv
  <2>2. \A k \in DOMAIN queue : lstate[queue[k]] = "ticket" /\ queue[k] # i
    BY <1>3, <2>1 DEF PlaceInv
  <2>3. \A k \in DOMAIN queue' : lstate'[queue'[k]] = "ticket"
    BY <1>2, <1>3, <1>5, <1>6, <2>2
  <2>4. \A k, l \in DOMAIN queue' : queue'[k] = queue'[l] => k = l
    BY <1>6, <2>1, <2>2 DEF PlaceInv
  <2>5. \A w \in Threads : running[w] # 0 =>
          running[w] \in Jobs /\ Pending(running[w]) /\ running[w] # i
    BY <1>3, <1>5, <2>1 DEF PlaceInv, Pending
  <2>6. \A w \in Threads : running'[w] # 0 =>
          Pending(running[w])' /\ \A k \in DOMAIN queue' : queue'[k] # running'[w]
    BY <1>0, <1>4, <1>6, <2>1, <2>5 DEF PlaceInv
  <2>7. \A j \in Jobs : Pending(j)' => \/ \E k \in DOMAIN queue' : queue'[k] = j
                                       \/ \E w \in Threads : running'[w] = j
    BY <1>0, <1>4, <1>6, <2>1 DEF PlaceInv
  <2>8. \A j \in Jobs : step'[j] # "idle" <=> lstate'[j] = "guard"
    BY <1>0, <1>4, <2>1 DEF PlaceInv
  <2>9. \A v, w \in Threads : running'[v] = running'[w] /\ running'[v] # 0 => v = w
    BY <1>0, <2>1 DEF PlaceInv
  <2> QED
    BY <2>3, <2>4, <2>6, <2>7, <2>8, <2>9 DEF PlaceInv
<1>12. RestInv'
  <2> SUFFICES ASSUME NEW p \in Paths, OnlyFiles(p),
                      \A j \in Jobs : step[j] # "idle" => e(j).path # p,
                      NEW k \in 0..pos', ThroughUpTo(p, k)'
               PROVE  fs[p] = OneByOne[k][p]
    BY <1>0, <1>1 DEF RestInv
  <2>1. \A j \in Files : j <= pos /\ e(j).path = p => (j <= k <=> lstate[j] = "gone")
    BY <1>1, <1>4, <1>9 DEF ThroughUpTo
  <2>2. CASE k \in 0..pos
    BY <2>1, <2>2 DEF ExtractInv, RestInv, ThroughUpTo
  <2>3. CASE k \notin 0..pos
    <3>1. k = i /\ pos \in 0..pos
      BY <1>0, <1>2, <2>3 DEF i
    <3>2. e(i).path # p
      BY <1>1, <1>2, <1>3, <1>9, <3>1 DEF ThroughUpTo
    <3>3. OneByOne[pos] \in [Paths -> Nodes] /\ OneByOne[i] = After(OneByOne[pos], i)
      BY <1>2, OneByOneStep, OneByOneTypes DEF ExtractInv, Types, i
    <3>4. OneByOne[k][p] = OneByOne[pos][p]
      BY <3>1, <3>2, <3>3 DEF After
    <3>5. \A j \in Files : j <= pos => j <= k
      BY <1>2, <1>9, <3>1 DEF i
    <3>6. ThroughUpTo(p, pos)
      BY <2>1, <3>5 DEF ThroughUpTo
    <3> QED
      BY <3>1, <3>4, <3>6 DEF ExtractInv, RestInv
  <2> QED
    BY <2>2, <2>3
<1>13. ReportInv'
  BY <1>0, <1>1, <1>4 DEF ExtractInv, ReportInv, Reported
<1> QED
  BY <1>7, <1>8, <1>10, <1>11, <1>12, <1>13 DEF Kept

\* When the turn of job i has come, exactly the files before it on its path
\* are through.
LEMMA TurnComes ==
  ASSUME TicketInv, Types, RegisteredInv, NEW i \in Jobs, Pending(i), MyTurn(i),
         NEW j \in Files, j <= pos, e(j).path = e(i).path
  PROVE  /\ j < i <=> lstate[j] = "gone"
         /\ j # i => lstate[j] # "guard"
<1>1. j \in Jobs /\ j \in Nat /\ i \in Nat /\ Registered(j) /\ Registered(i)
  <2>1. j \in DOMAIN archive /\ Registered(i)
    BY DEF Files, Pending, Registered
  <2>2. InputsOk
    BY DEF Types
  <2>3. j \in Jobs /\ j \in Nat
    BY <2>1, <2>2, EntryTypes
  <2>4. i \in Nat
    BY <2>1, JobEntry
  <2>5. Registered(j)
    BY <2>3 DEF RegisteredInv
  <2> QED
    BY <2>1, <2>3, <2>4, <2>5
<1>2. path[j] = path[i] /\ current_seq[path[i]] = seq[i] /\ seq[i] \in Nat /\ seq[j] \in Nat
  BY <1>1 DEF RegisteredInv, MyTurn, TicketInv, LTypeOK
<1>3. CASE j < i
  <2>1. seq[j] < seq[i]
    BY <1>1, <1>2, <1>3 DEF RegisteredInv
  <2>2. ~Pending(j)
    BY <1>1, <1>2, <2>1 DEF TicketInv, Numbered
  <2> QED
    BY <1>1, <1>3, <2>2 DEF Pending, Registered
<1>4. CASE j = i
  BY <1>1, <1>4 DEF Pending
<1>5. CASE j > i
  <2>1. seq[i] < seq[j]
    BY <1>1, <1>2, <1>5 DEF RegisteredInv
  <2>2. lstate[j] # "gone" /\ lstate[j] # "guard"
    BY <1>1, <1>2, <2>1 DEF TicketInv, Numbered
  <2> QED
    BY <1>1, <1>5, <2>2
<1> QED
  BY <1>1, <1>3, <1>4, <1>5

\* So what it finds is what the files before it have made one by one.
LEMMA FoundInOrder ==
  ASSUME ExtractInv, NEW i \in Jobs, Pending(i), MyTurn(i), step[i] = "idle",
         OnlyFiles(e(i).path)
  PROVE  fs[e(i).path] = Found(i)
<1> DEFINE p == e(i).path
<1>1. Registered(i) /\ TicketInv /\ Types /\ RegisteredInv /\ PlaceInv
  BY DEF Pending, Registered, ExtractInv
<1>2. p \in Paths /\ i \in Nat /\ i > 0 /\ i <= pos /\ pos \in Nat
  BY <1>1, JobEntry DEF Types
<1>3. i - 1 \in 0..pos
  BY <1>2
<1>4. \A j \in Jobs : step[j] # "idle" => e(j).path # p
  <2> SUFFICES ASSUME NEW j \in Jobs, step[j] # "idle", e(j).path = p PROVE FALSE
    OBVIOUS
  <2>1. lstate[j] = "guard" /\ j # i
    BY <1>1 DEF PlaceInv
  <2>2. j \in Files /\ j <= pos
    BY <1>1, <2>1, JobEntry DEF Registered
  <2> QED
    BY <1>1, <2>1, <2>2, TurnComes
<1>5. ThroughUpTo(p, i - 1)
  <2> SUFFICES ASSUME NEW j \in Files, j <= pos, e(j).path = p
               PROVE  j <= i - 1 <=> lstate[j] = "gone"
    BY DEF ThroughUpTo
  <2>1. j < i <=> lstate[j] = "gone"
    BY <1>1, TurnComes
  <2>2. j \in Nat
    BY <1>1, EntryTypes DEF Types, Files
  <2> QED
    BY <1>2, <2>1, <2>2
<1> QED
  BY <1>2, <1>3, <1>4, <1>5 DEF ExtractInv, RestInv, Found

\* A job gets the guard of its path, or sleeps until its turn has come.
LEMMA WaitKeeps ==
  ASSUME ExtractInv, NEW w \in Threads, running[w] # 0, Wait(running[w])
  PROVE  Kept
<1> DEFINE i == running[w]
<1>0. /\ UNCHANGED inputs
      /\ UNCHANGED <<archive, opt, pool, disk, fs, pos, rstate, saw, links>>
      /\ UNCHANGED <<queue, running, remove, rx, path, seq, current_seq>>
      /\ i \in Jobs /\ i # 0 /\ step[i] = "idle" /\ lstate[i] \in {"ticket", "woken"}
      /\ \A k \in DOMAIN queue : queue[k] # i
  BY DEF Wait, WaitForTurn, Unlocked, inputs, readvars, ExtractInv, Types, PlaceInv
<1>1. /\ Files' = Files /\ (\A j : e(j)' = e(j)) /\ (\A p : OnlyFiles(p)' <=> OnlyFiles(p))
      /\ OneByOne' = OneByOne
      /\ \A j : Good(j)' <=> Good(j)
      /\ \A j, s, r, n : Stage(j, s, r, n)' <=> Stage(j, s, r, n)
  BY <1>0, InputsFixed, StageFixed
<1>2. /\ MyTurn(i) => lstate' = [lstate EXCEPT ![i] = "guard"]
      /\ ~MyTurn(i) => lstate' = [lstate EXCEPT ![i] = "asleep"]
      /\ IF lstate'[i] = "guard" THEN step' = [step EXCEPT ![i] = "check"] ELSE step' = step
  BY DEF Wait, WaitForTurn, Goto, Then
<1>3. /\ step \in [Jobs -> JobSteps] /\ lstate \in [Jobs -> LStates]
      /\ running \in [Threads -> {0} \cup Jobs]
      /\ \A k \in DOMAIN queue : queue[k] \in Jobs
  BY DEF ExtractInv, Types, TicketInv, LTypeOK
<1> HIDE DEF i
<1>4. \/ /\ MyTurn(i) /\ lstate'[i] = "guard" /\ step'[i] = "check"
      \/ /\ lstate'[i] = "asleep" /\ step'[i] = "idle"
  BY <1>0, <1>2, <1>3
<1>5. /\ \A j \in Jobs : j # i => lstate'[j] = lstate[j] /\ step'[j] = step[j]
      /\ step' \in [Jobs -> JobSteps]
  BY <1>2, <1>3 DEF JobSteps
<1>6. \A j \in Jobs : /\ Registered(j)' <=> Registered(j)
                      /\ Pending(j)' <=> Pending(j)
                      /\ lstate'[j] = "gone" <=> lstate[j] = "gone"
                      /\ step'[j] = "leave" <=> step[j] = "leave"
                      /\ step[j] # "idle" => step'[j] = step[j]
  BY <1>0, <1>4, <1>5 DEF Registered, Pending
<1>7. Types'
  BY <1>0, <1>5 DEF ExtractInv, Types, InputsOk
<1>8. ReaderInv'
  BY <1>0, <1>1 DEF ExtractInv, ReaderInv, Quiet, Failed
<1>9. RegisteredInv'
  BY <1>0, <1>1, <1>6 DEF ExtractInv, RegisteredInv
<1>10. PlaceInv'
  <2>1. PlaceInv
    BY DEF ExtractInv
  <2>2. \A k \in DOMAIN queue : lstate'[queue[k]] = "ticket"
    BY <1>0, <1>3, <1>5, <2>1 DEF PlaceInv
  <2>3. \A v \in Threads : running[v] # 0 => Pending(running[v])'
    BY <1>0, <1>3, <1>6, <2>1 DEF PlaceInv
  <2>4. \A j \in Jobs : step'[j] # "idle" <=> lstate'[j] = "guard"
    BY <1>4, <1>5, <2>1 DEF PlaceInv
  <2> QED
    BY <1>0, <1>6, <2>1, <2>2, <2>3, <2>4 DEF PlaceInv
<1>11. StageInv'
  <2> SUFFICES ASSUME NEW j \in Jobs, step'[j] # "idle", OnlyFiles(e(j).path)
               PROVE  Stage(j, step'[j], remove[j], fs[e(j).path])
    BY <1>0, <1>1 DEF StageInv
  <2>1. CASE step[j] # "idle"
    BY <1>6, <2>1 DEF ExtractInv, StageInv
  <2>2. CASE step[j] = "idle"
    <3>1. j = i /\ MyTurn(i) /\ step'[i] = "check"
      BY <1>4, <1>5, <2>2
    <3>2. fs[e(i).path] = Found(i)
      BY <1>0, <3>1, FoundInOrder DEF Pending
    <3> QED
      BY <3>1, <3>2 DEF Stage
  <2> QED
    BY <2>1, <2>2
<1>12. RestInv'
  <2>1. Files \subseteq Jobs
    BY DEF ExtractInv, Types, InputsOk, Files
  <2>2. \A p, k : ThroughUpTo(p, k)' <=> ThroughUpTo(p, k)
    BY <1>0, <1>1, <1>6, <2>1 DEF ThroughUpTo
  <2> QED
    BY <1>0, <1>1, <1>6, <2>2 DEF ExtractInv, RestInv
<1>13. ReportInv'
  BY <1>0, <1>1, <1>6 DEF ExtractInv, ReportInv, Reported
<1>14. WholeInv'
  <2> SUFFICES ASSUME NEW p \in Paths, ~fs[p].whole
               PROVE  /\ fs[p].kind = "file" /\ fs[p].by \in Jobs
                      /\ e(fs[p].by).path = p
                      /\ step'[fs[p].by] \in {"write", "error"} \/ Erred(fs[p].by)
    BY <1>0, <1>1 DEF WholeInv, Erred
  <2> QED
    BY <1>6 DEF ExtractInv, WholeInv
<1> QED
  BY <1>7, <1>8, <1>9, <1>10, <1>11, <1>12, <1>13, <1>14 DEF Kept

\* A job leaves its path as one extraction more has made it.
LEMMA LeaveKeeps ==
  ASSUME ExtractInv, NEW w \in Threads, Leave(w)
  PROVE  Kept
<1> DEFINE i == running[w]
<1>0. /\ UNCHANGED inputs
      /\ UNCHANGED <<archive, opt, pool, disk, fs, pos, rstate, saw, links>>
      /\ UNCHANGED <<queue, remove, rx, path, seq>>
      /\ i \in Jobs /\ i # 0 /\ step[i] = "leave" /\ lstate[i] = "guard"
      /\ \A k \in DOMAIN queue : queue[k] # i
      /\ lstate' = [j \in Jobs |-> IF j = i THEN "gone" ELSE Woken(j, path[i])]
      /\ step' = [step EXCEPT ![i] = "idle"]
      /\ running' = [running EXCEPT ![w] = 0]
  BY DEF Leave, DropGuard, Advance, NotifyAll, Then, inputs, readvars, ExtractInv, Types, PlaceInv
<1>1. /\ Files' = Files /\ (\A j : e(j)' = e(j)) /\ (\A p : OnlyFiles(p)' <=> OnlyFiles(p))
      /\ OneByOne' = OneByOne
      /\ \A j : Good(j)' <=> Good(j)
      /\ \A j, s, r, n : Stage(j, s, r, n)' <=> Stage(j, s, r, n)
  BY <1>0, InputsFixed, StageFixed
<1>2. /\ step \in [Jobs -> JobSteps] /\ lstate \in [Jobs -> LStates]
      /\ running \in [Threads -> {0} \cup Jobs]
      /\ \A k \in DOMAIN queue : queue[k] \in Jobs
  BY DEF ExtractInv, Types, TicketInv, LTypeOK
<1>3. \A v \in Threads : running'[v] = IF v = w THEN 0 ELSE running[v]
  BY <1>0, <1>2
<1>w. running[w] = i
  OBVIOUS
<1> HIDE DEF i
<1>4. /\ lstate'[i] = "gone" /\ step'[i] = "idle"
      /\ \A j \in Jobs : j # i => lstate'[j] = Woken(j, path[i]) /\ step'[j] = step[j]
      /\ step' \in [Jobs -> JobSteps]
  BY <1>0, <1>2 DEF JobSteps
<1>5. \A j \in Jobs : /\ Registered(j)' <=> Registered(j)
                      /\ Pending(j)' <=> Pending(j) /\ j # i
                      /\ lstate'[j] = "gone" <=> lstate[j] = "gone" \/ j = i
                      /\ lstate'[j] = "guard" <=> lstate[j] = "guard" /\ j # i
                      /\ j # i => (lstate'[j] = "ticket" <=> lstate[j] = "ticket")
  BY <1>0, <1>2, <1>4 DEF Registered, Pending, Woken
<1>6. \A j \in Jobs : step'[j] # "idle" => step'[j] = step[j] /\ j # i
  BY <1>4
<1>7. Types'
  BY <1>0, <1>2, <1>4 DEF ExtractInv, Types, InputsOk
<1>8. ReaderInv'
  BY <1>0, <1>1, <1>w DEF ExtractInv, ReaderInv, Quiet
<1>9. RegisteredInv'
  BY <1>0, <1>1, <1>5 DEF ExtractInv, RegisteredInv
<1>10. PlaceInv'
  <2>1. PlaceInv
    BY DEF ExtractInv
  <2>2. \A k \in DOMAIN queue : lstate'[queue[k]] = "ticket"
    BY <1>0, <1>2, <1>5, <2>1 DEF PlaceInv
  <2>3. \A v \in Threads : v # w /\ running[v] # 0 => running[v] # i
    BY <1>0, <1>w, <2>1 DEF PlaceInv
  <2>4. \A v \in Threads : running'[v] # 0 =>
          Pending(running[v])' /\ \A k \in DOMAIN queue : queue[k] # running'[v]
    <3> SUFFICES ASSUME NEW v \in Threads, running'[v] # 0
                 PROVE  Pending(running[v])' /\ \A k \in DOMAIN queue : queue[k] # running'[v]
      OBVIOUS
    <3>1. v # w /\ running'[v] = running[v] /\ running[v] \in Jobs /\ running[v] # i
      BY <1>3, <1>2, <2>3
    <3>2. Pending(running[v])
      BY <3>1, <2>1 DEF PlaceInv
    <3> QED
      BY <1>5, <2>1, <3>1, <3>2 DEF PlaceInv, Pending
  <2>5. \A j \in Jobs : Pending(j)' => \/ \E k \in DOMAIN queue : queue[k] = j
                                       \/ \E v \in Threads : running'[v] = j
    BY <1>3, <1>5, <1>w, <2>1 DEF PlaceInv
  <2>6. \A j \in Jobs : step'[j] # "idle" <=> lstate'[j] = "guard"
    BY <1>4, <1>5, <2>1 DEF PlaceInv
  <2>7. \A u, v \in Threads : running'[u] = running'[v] /\ running'[u] # 0 => u = v
    BY <1>3, <2>1 DEF PlaceInv
  <2>8. \A k, l \in DOMAIN queue : queue[k] = queue[l] => k = l
    BY <2>1 DEF PlaceInv
  <2> QED
    BY <1>0, <2>2, <2>4, <2>5, <2>6, <2>7, <2>8 DEF PlaceInv
<1>11. StageInv'
  <2> SUFFICES ASSUME NEW j \in Jobs, step'[j] # "idle", OnlyFiles(e(j).path)
               PROVE  Stage(j, step'[j], remove[j], fs[e(j).path])
    BY <1>0, <1>1 DEF StageInv
  <2> QED
    BY <1>6 DEF ExtractInv, StageInv
<1>12. RestInv'
  <2> SUFFICES ASSUME NEW p \in Paths, OnlyFiles(p),
                      \A j \in Jobs : step'[j] # "idle" => e(j).path # p,
                      NEW k \in 0..pos, ThroughUpTo(p, k)'
               PROVE  fs[p] = OneByOne[k][p]
    BY <1>0, <1>1 DEF RestInv
  <2>0. \A j \in Files : j \in Jobs /\ j \in Nat /\ j > 0 /\ j \in DOMAIN archive
    BY EntryTypes DEF ExtractInv, Types, Files
  <2>1. \A j \in Files : j <= pos /\ e(j).path = p => (j <= k <=> lstate[j] = "gone" \/ j = i)
    BY <1>0, <1>1, <1>5, <2>0 DEF ThroughUpTo
  <2>2. CASE e(i).path # p
    <3>1. \A j \in Jobs : step[j] # "idle" => e(j).path # p
      BY <1>4, <2>2
    <3>2. ThroughUpTo(p, k)
      BY <2>1, <2>2 DEF ThroughUpTo
    <3> QED
      BY <3>1, <3>2 DEF ExtractInv, RestInv
  <2>3. CASE e(i).path = p
    <3>1. i \in Files /\ i <= pos /\ i \in Nat /\ i > 0
      BY <1>0, JobEntry DEF ExtractInv, Registered
    <3>2. i <= k /\ k \in Nat /\ pos \in Nat
      BY <2>1, <2>3, <3>1 DEF ExtractInv, Types
    <3>3. fs[p] = Alone(Found(i), i)
      BY <1>0, <2>3 DEF ExtractInv, StageInv, Stage
    <3>4. OneByOne[i] = After(OneByOne[i - 1], i) /\ OneByOne[i - 1] \in [Paths -> Nodes]
      <4>1. i - 1 \in Nat /\ (i - 1) + 1 = i
        BY <3>1
      <4> QED
        BY <4>1, OneByOneStep, OneByOneTypes DEF ExtractInv, Types
    <3>5. OneByOne[i][p] = Alone(Found(i), i)
      BY <2>3, <3>1, <3>4 DEF After, Found
    <3>6. ASSUME NEW j \in Files, e(j).path = p, j > i PROVE j > k
      <4>1. j \in Nat /\ (j <= k => j <= pos)
        BY <2>0, <3>2
      <4>2. MyTurn(i) /\ Pending(i)
        BY <1>0 DEF ExtractInv, TicketInv, Numbered, MyTurn, Pending
      <4>3. j <= pos => lstate[j] # "gone"
        BY <1>0, <2>3, <3>1, <3>6, <4>1, <4>2, TurnComes DEF ExtractInv
      <4> QED
        BY <2>1, <3>1, <3>2, <3>6, <4>1, <4>3
    <3>7. \A j \in Files : e(j).path = p => j <= i \/ j > k
      BY <2>0, <3>1, <3>6
    <3>8. OneByOne[k][p] = OneByOne[i][p]
      BY <3>1, <3>2, <3>7, OneByOneRests DEF ExtractInv, Types
    <3> QED
      BY <3>3, <3>5, <3>8
  <2> QED
    BY <2>2, <2>3
<1>13. ReportInv'
  <2>1. \A j \in Jobs : lstate'[j] = "gone" \/ step'[j] = "leave"
                          <=> lstate[j] = "gone" \/ step[j] = "leave"
    BY <1>0, <1>4, <1>5
  <2> QED
    BY <1>0, <1>1, <2>1 DEF ExtractInv, ReportInv, Reported
<1>14. WholeInv'
  <2> SUFFICES ASSUME NEW p \in Paths, ~fs[p].whole
               PROVE  /\ fs[p].kind = "file" /\ fs[p].by \in Jobs
                      /\ e(fs[p].by).path = p
                      /\ step'[fs[p].by] \in {"write", "error"} \/ Erred(fs[p].by)
    BY <1>0, <1>1 DEF WholeInv, Erred
  <2> QED
    BY <1>0, <1>4 DEF ExtractInv, WholeInv
<1> QED
  BY <1>7, <1>8, <1>9, <1>10, <1>11, <1>12, <1>13, <1>14 DEF Kept

-----------------------------------------------------------------------------
(* A job at work under its guard.                                          *)

LEMMA Unlinked ==
  ASSUME NEW i
  PROVE  /\ Unlinks(Found(i)) => Cleared(i) = Absent
         /\ ~Unlinks(Found(i)) => Cleared(i) = Found(i)
         /\ Touches(i) /\ ~e(i).bad => Alone(Found(i), i) = Node("file", i, TRUE, Mtime(i))
         /\ Touches(i) /\ e(i).bad /\ opt.safe_writes => Alone(Found(i), i) = Cleared(i)
         /\ Touches(i) /\ e(i).bad /\ ~opt.safe_writes
              => Alone(Found(i), i) = Node("file", i, FALSE, Now)
         /\ ~Touches(i) => Alone(Found(i), i) = Found(i)
         /\ Touches(i) /\ ~e(i).bad => Good(i)
  BY DEF Cleared, Touches, Alone, Good

\* When existing files are not to be removed, nothing is in the way of the
\* file to create.
LEMMA NothingInTheWay ==
  ASSUME InputsOk, NEW i, Touches(i), ~RemovesExisting(Found(i))
  PROVE  Cleared(i).kind = "none"
<1>1. opt.strategy \in {"Always", "Never", "KeepNewer", "KeepOlder"}
  BY DEF InputsOk, Options
<1>2. CASE Found(i).kind = "none"
  BY <1>2 DEF Cleared, Unlinks
<1>3. CASE Found(i).kind # "none" /\ opt.unlink_first
  BY <1>3 DEF Cleared, Unlinks, Absent, Node
<1>4. CASE Found(i).kind # "none" /\ ~opt.unlink_first
  BY <1>1, <1>4 DEF Touches, Refused, Skipped, RemovesExisting
<1> QED
  BY <1>2, <1>3, <1>4

\* What is under the path of a job after each of its calls.
LEMMA StageStep ==
  ASSUME Types, NEW i \in Jobs, i \in DOMAIN archive, Acts(i),
         Stage(i, step[i], remove[i], fs[e(i).path])
  PROVE  Stage(i, step'[i], remove'[i], fs'[e(i).path])
<1> DEFINE p == e(i).path
           n == fs[p]
<1>0. /\ step \in [Jobs -> JobSteps] /\ remove \in [Jobs -> BOOLEAN]
      /\ fs \in [Paths -> Nodes] /\ p \in Paths /\ At(i) = n /\ InputsOk
  BY EntryTypes DEF Types, At
<1>1. CASE Check(i)
  <2>1. /\ step[i] = "check" /\ n = Found(i) /\ fs'[p] = n
        /\ remove'[i] = RemovesExisting(n)
        /\ step'[i] = IF Refused(n, i) THEN "error" ELSE IF Skipped(n, i) THEN "ok"
                      ELSE IF Unlinks(n) THEN "unlink" ELSE AfterUnlink(RemovesExisting(n))
    BY <1>0, <1>1 DEF Check, Then, Stage
  <2>2. CASE Refused(n, i)
    BY <2>1, <2>2, Unlinked DEF Stage, Touches
  <2>3. CASE ~Refused(n, i) /\ Skipped(n, i)
    <3>1. Good(i) /\ ~Touches(i)
      BY <2>1, <2>3 DEF Good, Touches
    <3> QED
      BY <2>1, <2>3, <3>1, Unlinked DEF Stage
  <2>4. CASE ~Refused(n, i) /\ ~Skipped(n, i)
    <3>1. Touches(i)
      BY <2>1, <2>4 DEF Touches
    <3>2. CASE Unlinks(n)
      BY <2>1, <2>4, <3>1, <3>2 DEF Stage
    <3>3. CASE ~Unlinks(n)
      <4>1. Cleared(i) = n
        BY <2>1, <3>3, Unlinked
      <4>2. step'[i] = AfterUnlink(RemovesExisting(n))
        BY <2>1, <2>4, <3>3
      <4> QED
        BY <2>1, <3>1, <4>1, <4>2 DEF Stage, AfterUnlink
    <3> QED
      BY <3>2, <3>3
  <2> QED
    BY <2>2, <2>3, <2>4
<1>2. CASE Unlink(i)
  <2>1. fs'[p] = Absent /\ remove'[i] = remove[i] /\ Touches(i)
        /\ remove[i] = RemovesExisting(Found(i))
    BY <1>0, <1>2 DEF Unlink, Put, Stage
  <2>2. CASE step[i] = "unlink"
    <3>1. step'[i] = AfterUnlink(remove[i])
      BY <1>0, <1>2, <2>2 DEF Unlink, Then, AfterUnlink
    <3>2. Cleared(i) = Absent
      BY <2>2, Unlinked DEF Stage
    <3> QED
      BY <2>1, <3>1, <3>2 DEF Stage, AfterUnlink
  <2>3. CASE step[i] = "remove"
    <3>1. ~opt.safe_writes /\ remove[i]
      BY <2>3 DEF Stage
    <3>2. step'[i] = "create"
      BY <1>0, <1>2, <2>3, <3>1 DEF Unlink, Then, AfterUnlink
    <3> QED
      BY <2>1, <3>1, <3>2 DEF Stage
  <2> QED
    BY <1>2, <2>2, <2>3 DEF Unlink
<1>3. CASE Create(i)
  <2>1. /\ step[i] = "create" /\ remove'[i] = remove[i] /\ Touches(i) /\ ~opt.safe_writes
        /\ remove[i] = RemovesExisting(Found(i))
        /\ n = IF remove[i] THEN Absent ELSE Cleared(i)
    BY <1>3 DEF Create, Stage
  <2>2. ~CreateFails(i)
    BY <1>0, <2>1, NothingInTheWay, NodeTypes DEF CreateFails
  <2>3. step'[i] = "write" /\ fs'[p] = Node("file", i, FALSE, Now)
    BY <1>0, <1>3, <2>2 DEF Create, Then, Put
  <2> QED
    BY <2>1, <2>3 DEF Stage
<1>4. CASE Write(i)
  <2>1. /\ step[i] = "write" /\ remove'[i] = remove[i] /\ Touches(i) /\ ~opt.safe_writes
        /\ n = Node("file", i, FALSE, Now)
    BY <1>4 DEF Write, Stage
  <2>2. n.kind = "file" /\ n.by = i
    BY <2>1 DEF Node
  <2>3. CASE e(i).bad
    <3>1. step'[i] = "error" /\ fs'[p] = n
      BY <1>0, <1>4, <2>3 DEF Write, Then
    <3> QED
      BY <2>1, <2>3, <3>1, Unlinked DEF Stage
  <2>4. CASE ~e(i).bad
    <3>1. step'[i] = "ok" /\ fs'[p] = Node("file", i, TRUE, Mtime(i))
      BY <1>0, <1>4, <2>2, <2>4 DEF Write, Then, Put
    <3> QED
      BY <2>1, <2>4, <3>1, Unlinked DEF Stage
  <2> QED
    BY <2>3, <2>4
<1>5. CASE WriteTemp(i)
  <2>1. /\ step[i] = "temp" /\ remove'[i] = remove[i] /\ Touches(i) /\ opt.safe_writes
        /\ n = Cleared(i) /\ fs'[p] = n
        /\ step'[i] = IF e(i).bad THEN "error" ELSE "prepare"
    BY <1>0, <1>5 DEF WriteTemp, Stage, Then
  <2>2. CASE e(i).bad
    BY <2>1, <2>2, Unlinked DEF Stage
  <2>3. CASE ~e(i).bad
    BY <2>1, <2>3 DEF Stage
  <2> QED
    BY <2>2, <2>3
<1>6. CASE Prepare(i)
  <2>1. /\ step[i] = "prepare" /\ remove'[i] = remove[i] /\ Touches(i) /\ opt.safe_writes
        /\ n = Cleared(i) /\ ~e(i).bad /\ step'[i] = "rename"
        /\ fs'[p] = IF n.kind = "dir" THEN Absent ELSE n
    BY <1>0, <1>6 DEF Prepare, Stage, Then, Put
  <2> QED
    BY <2>1 DEF Stage
<1>7. CASE Rename(i)
  <2>1. /\ step[i] = "rename" /\ remove'[i] = remove[i] /\ Touches(i) /\ opt.safe_writes
        /\ n = (IF Cleared(i).kind = "dir" THEN Absent ELSE Cleared(i)) /\ ~e(i).bad
    BY <1>7 DEF Rename, Stage
  <2>2. n.kind # "dir"
    BY <2>1, NodeTypes
  <2>3. step'[i] = "ok" /\ fs'[p] = Node("file", i, TRUE, Mtime(i))
    BY <1>0, <1>7, <2>2 DEF Rename, Then, Put
  <2> QED
    BY <2>1, <2>3, Unlinked DEF Stage
<1>8. CASE Send(i)
  <2>1. /\ step[i] \in {"ok", "error"} /\ step'[i] = "leave" /\ fs'[p] = n
    BY <1>0, <1>8 DEF Send, Then
  <2> QED
    BY <2>1 DEF Stage
<1> QED
  BY <1>1, <1>2, <1>3, <1>4, <1>5, <1>6, <1>7, <1>8 DEF Acts

\* A job reports once, and then does nothing but leave.
LEMMA ActsReport ==
  ASSUME Types, NEW i \in Jobs, i \in DOMAIN archive, Acts(i)
  PROVE  \/ rx' = rx /\ step'[i] # "leave"
         \/ /\ rx' = Append(rx, <<i, step[i]>>) /\ step'[i] = "leave" /\ fs' = fs
            /\ step[i] \in {"ok", "error"}
<1> USE DEF Types, Then
<1>1. CASE Check(i) \/ Unlink(i)
  BY <1>1 DEF Check, Unlink, AfterUnlink
<1>2. CASE Create(i) \/ Write(i)
  BY <1>2 DEF Create, Write
<1>3. CASE WriteTemp(i) \/ Prepare(i) \/ Rename(i)
  BY <1>3 DEF WriteTemp, Prepare, Rename
<1>4. CASE Send(i)
  BY <1>4 DEF Send
<1> QED
  BY <1>1, <1>2, <1>3, <1>4 DEF Acts

\* What a job leaves half-written under its path, or finds so.
LEMMA ActsWhole ==
  ASSUME Types, NEW i \in Jobs, i \in DOMAIN archive, Acts(i),
         ~fs'[e(i).path].whole
  PROVE  \/ /\ fs'[e(i).path] = Node("file", i, FALSE, Now) /\ step'[i] = "write"
         \/ /\ fs'[e(i).path] = fs[e(i).path]
            /\ fs[e(i).path].kind = "file" /\ fs[e(i).path].by = i
                 /\ step[i] \in {"write", "error"}
               => \/ step'[i] = "error"
                  \/ step[i] = "error" /\ rx' = Append(rx, <<i, "error">>)
<1>0. /\ step \in [Jobs -> JobSteps] /\ fs \in [Paths -> Nodes]
      /\ e(i).path \in Paths /\ At(i) = fs[e(i).path]
      /\ Absent.whole /\ Node("file", i, TRUE, Mtime(i)).whole
  BY EntryTypes DEF Types, At, Absent, Node
<1>1. CASE Check(i) \/ WriteTemp(i)
  BY <1>0, <1>1 DEF Check, WriteTemp
<1>2. CASE Unlink(i) \/ Prepare(i)
  BY <1>0, <1>2 DEF Unlink, Prepare, Put
<1>3. CASE Create(i)
  BY <1>0, <1>3 DEF Create, Put, Then
<1>4. CASE Write(i)
  BY <1>0, <1>4 DEF Write, Put, Then
<1>5. CASE Rename(i)
  BY <1>0, <1>5 DEF Rename, Put, Then
<1>6. CASE Send(i)
  BY <1>0, <1>6 DEF Send
<1> QED
  BY <1>1, <1>2, <1>3, <1>4, <1>5, <1>6 DEF Acts

LEMMA ActsKeep ==
  ASSUME ExtractInv, NEW w \in Threads, running[w] # 0, Acts(running[w])
  PROVE  Kept
<1> DEFINE i == running[w]
           p == e(i).path
<1>0. /\ i \in Jobs /\ i # 0 /\ Types /\ InputsOk /\ TicketInv /\ RegisteredInv /\ PlaceInv
      /\ step \in [Jobs -> JobSteps] /\ remove \in [Jobs -> BOOLEAN] /\ fs \in [Paths -> Nodes]
      /\ rx \in Seq(Jobs \X {"ok", "error"})
  BY DEF ExtractInv, Types
<1>1. Registered(i)
  BY <1>0 DEF PlaceInv, Pending, Registered
<1>2. i \in DOMAIN archive /\ i \in Files /\ i <= pos /\ p \in Paths
  BY <1>0, <1>1, JobEntry
<1>3. Acts(i)
  OBVIOUS
<1>w. running[w] = i
  OBVIOUS
<1> HIDE DEF i
<1>4. OnlyJobMoves(i)
  BY <1>0, <1>2, <1>3, ActsMove
<1>5. /\ UNCHANGED inputs
      /\ UNCHANGED <<archive, opt, pool, disk, pos, rstate, saw, links>>
      /\ UNCHANGED <<queue, running, next_seq, current_seq, path, seq, lstate>>
      /\ step[i] \notin {"idle", "leave"}
  BY <1>4 DEF OnlyJobMoves, inputs, readvars, lvars
<1>6. /\ Files' = Files /\ (\A j : e(j)' = e(j)) /\ (\A x : OnlyFiles(x)' <=> OnlyFiles(x))
      /\ OneByOne' = OneByOne
      /\ \A j : Good(j)' <=> Good(j)
      /\ \A j, s, r, n : Stage(j, s, r, n)' <=> Stage(j, s, r, n)
  BY <1>5, InputsFixed, StageFixed
<1>7. /\ step' \in [Jobs -> JobSteps] /\ step'[i] # "idle"
      /\ \A j \in Jobs : j # i => step'[j] = step[j]
  <2>1. PICK s \in JobSteps \ {"idle"} : step' = [step EXCEPT ![i] = s]
    BY <1>4 DEF OnlyJobMoves
  <2> QED
    BY <1>0, <2>1
<1>8. /\ remove' \in [Jobs -> BOOLEAN]
      /\ \A j \in Jobs : j # i => remove'[j] = remove[j]
  <2>1. PICK b \in BOOLEAN : remove' = [remove EXCEPT ![i] = b]
    BY <1>4 DEF OnlyJobMoves
  <2> QED
    BY <1>0, <2>1
<1>9. /\ fs' \in [Paths -> Nodes]
      /\ \A x \in Paths : x # p => fs'[x] = fs[x]
  <2>1. CASE fs' = fs
    BY <1>0, <2>1
  <2>2. ASSUME NEW n \in Nodes, fs' = [fs EXCEPT ![p] = n]
        PROVE  fs' \in [Paths -> Nodes] /\ \A x \in Paths : x # p => fs'[x] = fs[x]
    BY <1>0, <1>2, <2>2
  <2> QED
    BY <1>4, <2>1, <2>2 DEF OnlyJobMoves
<1>10. \/ rx' = rx /\ step'[i] # "leave"
       \/ /\ rx' = Append(rx, <<i, step[i]>>) /\ step'[i] = "leave"
          /\ step[i] \in {"ok", "error"}
  BY <1>0, <1>2, <1>3, ActsReport
<1>11. /\ rx' \in Seq(Jobs \X {"ok", "error"})
       /\ \A k \in DOMAIN rx : k \in DOMAIN rx' /\ rx'[k] = rx[k]
  <2>1. CASE rx' = rx
    BY <1>0, <2>1
  <2>2. CASE rx' = Append(rx, <<i, step[i]>>) /\ step[i] \in {"ok", "error"}
    <3>1. <<i, step[i]>> \in Jobs \X {"ok", "error"}
      BY <1>0, <2>2
    <3> HIDE DEF i
    <3> QED
      BY <1>0, <2>2, <3>1
  <2> QED
    BY <1>10, <2>1, <2>2
<1>12. Types'
  BY <1>0, <1>5, <1>7, <1>8, <1>9, <1>11 DEF Types, InputsOk
<1>13. RegisteredInv'
  BY <1>5, <1>6 DEF ExtractInv, RegisteredInv, Registered
<1>14. PlaceInv'
  <2>1. \A j \in Jobs : step'[j] # "idle" <=> step[j] # "idle"
    BY <1>5, <1>7
  <2> QED
    BY <1>0, <1>5, <2>1 DEF PlaceInv, Pending
<1>15. ReaderInv'
  <2>1. ~Quiet
    BY <1>0, <1>w DEF Quiet
  <2> QED
    BY <1>5, <1>6, <2>1 DEF ExtractInv, ReaderInv
<1>16. StageInv'
  <2> SUFFICES ASSUME NEW j \in Jobs, step'[j] # "idle", OnlyFiles(e(j).path)
               PROVE  Stage(j, step'[j], remove'[j], fs'[e(j).path])
    BY <1>5, <1>6 DEF StageInv
  <2>1. CASE j = i
    BY <1>0, <1>2, <1>3, <1>5, <2>1, StageStep DEF ExtractInv, StageInv
  <2>2. CASE j # i
    <3>1. step[j] # "idle" /\ step'[j] = step[j] /\ remove'[j] = remove[j]
      BY <1>7, <1>8, <2>2
    <3>2. Registered(j)
      BY <1>0, <3>1 DEF PlaceInv, Registered
    <3>3. e(j).path \in Paths
      BY <1>0, <3>2, JobEntry
    <3>4. e(j).path # p
      BY <1>0, <1>5, <2>2, <3>1, Exclusive
    <3>5. fs'[e(j).path] = fs[e(j).path]
      BY <1>9, <3>3, <3>4
    <3> QED
      BY <3>1, <3>5 DEF ExtractInv, StageInv
  <2> QED
    BY <2>1, <2>2
<1>17. RestInv'
  <2> SUFFICES ASSUME NEW x \in Paths, OnlyFiles(x),
                      \A j \in Jobs : step'[j] # "idle" => e(j).path # x,
                      NEW k \in 0..pos, ThroughUpTo(x, k)'
               PROVE  fs'[x] = OneByOne[k][x]
    BY <1>5, <1>6 DEF RestInv
  <2>1. x # p /\ \A j \in Jobs : step[j] # "idle" => e(j).path # x
    BY <1>0, <1>5, <1>7
  <2>2. fs'[x] = fs[x]
    BY <1>9, <2>1
  <2>3. ThroughUpTo(x, k)
    BY <1>5, <1>6 DEF ThroughUpTo
  <2> QED
    BY <2>1, <2>2, <2>3 DEF ExtractInv, RestInv
<1>18. ReportInv'
  <2>1. ReportInv
    BY DEF ExtractInv
  <2>2. CASE rx' = rx /\ step'[i] # "leave"
    <3>1. \A j \in Jobs : step'[j] = "leave" <=> step[j] = "leave"
      BY <1>5, <1>7, <2>2
    <3> QED
      BY <1>5, <1>6, <2>1, <2>2, <3>1 DEF ReportInv, Reported
  <2>3. CASE /\ rx' = Append(rx, <<i, step[i]>>) /\ step'[i] = "leave"
             /\ step[i] \in {"ok", "error"}
    <3>1. /\ DOMAIN rx' = DOMAIN rx \cup {Len(rx) + 1} /\ Len(rx) + 1 \notin DOMAIN rx
          /\ \A k \in DOMAIN rx : rx'[k] = rx[k]
          /\ rx'[Len(rx) + 1] = <<i, step[i]>>
      BY <1>0, <2>3
    <3>2. ~Reported(i)
      BY <1>0, <1>5, <2>1 DEF ReportInv, PlaceInv
    <3>3. \A j \in Jobs : Reported(j)' <=> Reported(j) \/ j = i
      BY <3>1 DEF Reported
    <3>4. \A j \in Jobs : Reported(j)' <=> lstate'[j] = "gone" \/ step'[j] = "leave"
      BY <1>5, <1>7, <2>1, <2>3, <3>3 DEF ReportInv
    <3>5. \A k, l \in DOMAIN rx' : rx'[k][1] = rx'[l][1] => k = l
      <4>1. \A k \in DOMAIN rx : rx[k][1] # i
        BY <3>2 DEF Reported
      <4> QED
        BY <2>1, <3>1, <4>1 DEF ReportInv
    <3>6. ASSUME NEW k \in DOMAIN rx', rx'[k][2] = "ok", OnlyFiles(e(rx'[k][1]).path)
          PROVE  Good(rx'[k][1])
      <4>1. CASE k \in DOMAIN rx
        BY <2>1, <3>1, <3>6, <4>1 DEF ReportInv
      <4>2. CASE k = Len(rx) + 1
        <5>1. rx'[k][1] = i /\ step[i] = "ok"
          BY <3>1, <3>6, <4>2
        <5>2. Stage(i, step[i], remove[i], fs[p])
          BY <1>0, <1>5, <3>6, <5>1 DEF ExtractInv, StageInv
        <5> QED
          BY <5>1, <5>2 DEF Stage
      <4> QED
        BY <3>1, <4>1, <4>2
    <3>7. \A k \in DOMAIN rx' :
            rx'[k][2] = "ok" /\ OnlyFiles(e(rx[k][1]).path)' => Good(rx[k][1])'
      BY <1>6, <3>6
    <3> QED
      BY <3>4, <3>5, <3>7 DEF ReportInv
  <2> QED
    BY <1>10, <2>2, <2>3
<1>19. WholeInv'
  <2> DEFINE ErredNow(j) == \E k \in DOMAIN rx' : rx'[k][1] = j /\ rx'[k][2] = "error"
  <2>1. \A j : Erred(j) => ErredNow(j)
    BY <1>11 DEF Erred
  <2> SUFFICES ASSUME NEW x \in Paths, ~fs'[x].whole
               PROVE  /\ fs'[x].kind = "file" /\ fs'[x].by \in Jobs
                      /\ e(fs'[x].by).path = x
                      /\ step'[fs'[x].by] \in {"write", "error"} \/ ErredNow(fs'[x].by)
    BY <1>6 DEF WholeInv, Erred
  <2> HIDE DEF ErredNow
  <2>2. CASE x # p
    <3>1. fs'[x] = fs[x]
      BY <1>9, <2>2
    <3>2. fs[x].kind = "file" /\ fs[x].by \in Jobs /\ e(fs[x].by).path = x
          /\ (step[fs[x].by] \in {"write", "error"} \/ Erred(fs[x].by))
      BY <3>1 DEF ExtractInv, WholeInv
    <3>3. step'[fs[x].by] = step[fs[x].by]
      BY <1>7, <2>2, <3>2
    <3> QED
      BY <2>1, <3>1, <3>2, <3>3
  <2>3. CASE x = p
    <3>1. CASE fs'[p] = Node("file", i, FALSE, Now) /\ step'[i] = "write"
      BY <1>0, <2>3, <3>1 DEF Node
    <3>2. CASE /\ fs'[p] = fs[p]
               /\ fs[p].kind = "file" /\ fs[p].by = i /\ step[i] \in {"write", "error"}
                  => \/ step'[i] = "error"
                     \/ step[i] = "error" /\ rx' = Append(rx, <<i, "error">>)
      <4>1. fs[p].kind = "file" /\ fs[p].by \in Jobs /\ e(fs[p].by).path = p
            /\ (step[fs[p].by] \in {"write", "error"} \/ Erred(fs[p].by))
        BY <1>2, <2>3, <3>2 DEF ExtractInv, WholeInv
      <4>2. CASE Erred(fs[p].by)
        BY <2>1, <2>3, <3>2, <4>1, <4>2
      <4>3. CASE step[fs[p].by] \in {"write", "error"}
        <5>1. fs[p].by = i
          BY <1>0, <1>5, <4>1, <4>3, Exclusive
        <5>2. rx' = Append(rx, <<i, "error">>) => ErredNow(i)
          <6>1. SUFFICES ASSUME rx' = Append(rx, <<i, "error">>) PROVE ErredNow(i)
            OBVIOUS
          <6>2. Len(rx) + 1 \in DOMAIN rx' /\ rx'[Len(rx) + 1] = <<i, "error">>
            BY <1>0, <6>1
          <6> QED
            BY <6>2 DEF ErredNow
        <5> QED
          BY <2>3, <3>2, <4>1, <4>3, <5>1, <5>2
      <4> QED
        BY <4>1, <4>2, <4>3
    <3> QED
      BY <1>0, <1>2, <1>3, <2>3, <3>1, <3>2, ActsWhole
  <2> QED
    BY <2>2, <2>3
<1> QED
  BY <1>12, <1>13, <1>14, <1>15, <1>16, <1>17, <1>18, <1>19 DEF Kept

-----------------------------------------------------------------------------
LEMMA ExtractInit == Init => ExtractInv
<1> SUFFICES ASSUME NEW in \in Inputs, InitOf(in) PROVE ExtractInv
  BY DEF Init
<1> USE DEF InitOf
<1>1. InputsOk
  BY InputsAssumption DEF InputsOk
<1>2. Types
  BY <1>1 DEF Types, InputsOk, RStates, JobSteps
<1>3. TicketInv
  BY TicketInit
<1>4. \A j \in Jobs : lstate[j] = "none" /\ step[j] = "idle"
  BY DEF LInit
<1>5. \A j \in Files : j \in Nat /\ j > 0
  BY <1>1, EntryTypes DEF Files
<1>6. RegisteredInv
  BY <1>4, <1>5 DEF RegisteredInv, Registered
<1>7. PlaceInv
  BY <1>4 DEF PlaceInv, Pending
<1>8. ReaderInv
  BY DEF ReaderInv
<1>9. StageInv
  BY <1>4 DEF StageInv
<1>10. RestInv
  BY OneByOneStep DEF RestInv
<1>11. ReportInv
  BY <1>4 DEF ReportInv, Reported
<1>12. WholeInv
  BY <1>1 DEF WholeInv, InputsOk
<1> QED
  BY <1>2, <1>3, <1>6, <1>7, <1>8, <1>9, <1>10, <1>11, <1>12 DEF ExtractInv

LEMMA StutterKeeps ==
  ASSUME ExtractInv, UNCHANGED vars
  PROVE  Kept
<1>0. /\ UNCHANGED inputs /\ UNCHANGED <<archive, opt, pool, disk, fs, pos, rstate, saw, links>>
      /\ UNCHANGED <<queue, running, step, remove, rx, path, seq, lstate>>
  BY DEF vars, inputs, readvars, jobvars, lvars
<1>1. /\ Files' = Files /\ (\A i : e(i)' = e(i)) /\ (\A p : OnlyFiles(p)' <=> OnlyFiles(p))
      /\ OneByOne' = OneByOne
      /\ \A i : Good(i)' <=> Good(i)
  BY <1>0, InputsFixed, StageFixed
<1>2. Types'
  BY <1>0 DEF ExtractInv, Types, InputsOk
<1>3. StageInv' /\ WholeInv'
  BY <1>0, NoFileTouched DEF ExtractInv
<1>4. RegisteredInv' /\ PlaceInv'
  BY <1>0, <1>1 DEF ExtractInv, RegisteredInv, PlaceInv, Registered, Pending
<1>5. ReaderInv'
  BY <1>0, <1>1 DEF ExtractInv, ReaderInv, Quiet, Failed
<1>6. RestInv' /\ ReportInv'
  BY <1>0, <1>1 DEF ExtractInv, RestInv, ThroughUpTo, ReportInv, Reported
<1> QED
  BY <1>2, <1>3, <1>4, <1>5, <1>6 DEF Kept

LEMMA ExtractStep == ExtractInv /\ [Next]_vars => ExtractInv'
<1> SUFFICES ASSUME ExtractInv, [Next]_vars PROVE ExtractInv'
  OBVIOUS
<1>1. TicketInv'
  BY StepLocks, TicketStep DEF ExtractInv
<1>2. Kept
  BY NextSteps, ReadFileKeeps, ReadsOnKeeps, SpuriousKeeps, StartKeeps, LeaveKeeps,
     WaitKeeps, ActsKeep, StutterKeeps
<1> QED
  BY <1>1, <1>2 DEF Kept, ExtractInv

LEMMA ExtractInvariant == Spec => []ExtractInv
  BY ExtractInit, ExtractStep, PTL DEF Spec

-----------------------------------------------------------------------------
(* What follows.                                                           *)

\* With nothing queued or running, every job registered is through.
LEMMA QuietMeansThrough ==
  ASSUME ExtractInv, Quiet
  PROVE  /\ \A j \in Jobs : step[j] = "idle"
         /\ \A j \in Files : j <= pos => lstate[j] = "gone"
         /\ \A j \in Jobs : lstate[j] = "gone" => j \in Files /\ j <= pos
<1>0. /\ PlaceInv /\ RegisteredInv /\ InputsOk
      /\ \A j \in Files : j \in Jobs /\ j \in DOMAIN archive
  BY DEF ExtractInv, Types, InputsOk, Files
<1>1. \A j \in Jobs : ~Pending(j)
  <2> SUFFICES ASSUME NEW j \in Jobs, Pending(j) PROVE FALSE
    OBVIOUS
  <2>1. DOMAIN queue = {}
    BY DEF Quiet
  <2>2. \E w \in Threads : running[w] = j
    BY <1>0, <2>1 DEF PlaceInv
  <2> QED
    BY <2>2, JobsAssumption DEF Quiet
<1>2. \A j \in Jobs : step[j] = "idle"
  BY <1>0, <1>1 DEF PlaceInv, Pending
<1>3. \A j \in Files : j <= pos => lstate[j] = "gone"
  BY <1>0, <1>1 DEF RegisteredInv, Registered, Pending
<1>4. \A j \in Jobs : lstate[j] = "gone" => j \in Files /\ j <= pos
  BY <1>0 DEF RegisteredInv, Registered
<1> QED
  BY <1>2, <1>3, <1>4

\* For every archive, option, disk and pool: once the jobs of the entries read
\* are through, every path that only files go to is as if they had been
\* extracted one by one (run_extract_archive_reader, run_extract_archive).
LEMMA InvSequential == ExtractInv => SameAsSequential
<1> SUFFICES ASSUME ExtractInv, Quiet, NEW p \in Paths, OnlyFiles(p)
             PROVE  fs[p] = OneByOne[pos][p]
  BY DEF SameAsSequential
<1>1. ThroughUpTo(p, pos)
  BY QuietMeansThrough DEF ThroughUpTo
<1>2. pos \in 0..pos
  BY DEF ExtractInv, Types, InputsOk
<1> QED
  BY <1>1, <1>2, QuietMeansThrough DEF ExtractInv, RestInv

LEMMA InvDone == ExtractInv => DoneIsComplete
<1> SUFFICES ASSUME ExtractInv, rstate = "done"
             PROVE  /\ Quiet /\ ~Failed /\ Len(rx) = Cardinality(Files)
                    /\ {rx[k][1] : k \in DOMAIN rx} = Files
                    /\ \A p \in Paths : fs[p].whole
  BY DEF DoneIsComplete
<1>1. Quiet /\ ~Failed /\ pos = Len(archive)
  BY DEF ExtractInv, ReaderInv
<1>2. /\ rx \in Seq(Jobs \X {"ok", "error"}) /\ archive \in Seq(Entries)
      /\ \A j \in Files : j \in Jobs /\ j <= pos
  BY <1>1 DEF ExtractInv, Types, InputsOk, Files
<1>3. /\ \A j \in Jobs : Reported(j) <=> j \in Files
      /\ \A k, l \in DOMAIN rx : rx[k][1] = rx[l][1] => k = l
  BY <1>1, <1>2, QuietMeansThrough DEF ExtractInv, ReportInv
<1>4. \A k \in DOMAIN rx : rx[k][1] \in Jobs
  BY <1>2
<1>5. {rx[k][1] : k \in DOMAIN rx} = Files
  BY <1>2, <1>3, <1>4 DEF Reported
<1>6. Len(rx) = Cardinality(Files)
  <2> DEFINE f == [k \in 1..Len(rx) |-> rx[k][1]]
  <2>1. DOMAIN rx = 1..Len(rx) /\ Len(rx) \in Nat
    BY <1>2
  <2>2. f \in [1..Len(rx) -> Files]
    BY <1>5, <2>1
  <2>3. \A k, l \in 1..Len(rx) : f[k] = f[l] => k = l
    BY <1>3, <2>1
  <2>4. \A j \in Files : \E k \in 1..Len(rx) : f[k] = j
    BY <1>5, <2>1
  <2> HIDE DEF f
  <2>5. f \in Bijection(1..Len(rx), Files)
    BY <2>2, <2>3, <2>4 DEF Bijection, Injection, Surjection, IsInjective
  <2>6. ExistsBijection(1..Len(rx), Files)
    BY <2>5 DEF ExistsBijection
  <2> QED
    BY <2>1, <2>6, FS_CountingElements
<1>7. ASSUME NEW p \in Paths, ~fs[p].whole PROVE FALSE
  <2>1. fs[p].by \in Jobs /\ (step[fs[p].by] \in {"write", "error"} \/ Erred(fs[p].by))
    BY <1>7 DEF ExtractInv, WholeInv
  <2>2. Erred(fs[p].by)
    BY <1>1, <2>1, QuietMeansThrough
  <2> QED
    BY <1>1, <2>2 DEF Erred, Failed
<1> QED
  BY <1>1, <1>5, <1>6, <1>7

\* On a path that nobody works on, the jobs that are through are the first.
LEMMA ThroughAreFirst ==
  ASSUME ExtractInv, NEW p \in Paths
  PROVE  \E k \in 0..pos : ThroughUpTo(p, k)
<1> DEFINE L == {j \in Files : j <= pos /\ e(j).path = p /\ lstate[j] # "gone"}
<1>0. /\ pos \in Nat /\ TicketInv /\ Types /\ RegisteredInv
      /\ \A j \in Files : j \in Jobs /\ j \in Nat /\ j > 0
  BY EntryTypes DEF ExtractInv, Types, InputsOk, Files
<1>1. CASE L = {}
  <2>1. ThroughUpTo(p, pos) /\ pos \in 0..pos
    BY <1>0, <1>1 DEF ThroughUpTo
  <2> QED
    BY <2>1
<1>2. CASE L # {}
  <2>1. L \subseteq Nat
    BY <1>0
  <2>2. PICK i \in L : \A j \in L : i <= j
    BY <1>2, <2>1, LeastElement
  <2>3. /\ i \in Jobs /\ i \in Nat /\ i > 0 /\ i \in Files /\ i <= pos
        /\ e(i).path = p /\ lstate[i] # "gone"
    BY <1>0
  <2>4. i - 1 \in 0..pos
    BY <1>0, <2>3
  <2>5. ASSUME NEW j \in Files, j <= pos, e(j).path = p, j > i PROVE lstate[j] # "gone"
    <3>1. Registered(i) /\ Registered(j) /\ path[i] = p /\ path[j] = p /\ j \in Jobs
      BY <1>0, <2>3, <2>5 DEF RegisteredInv
    <3>2. seq[i] < seq[j] /\ Pending(i)
      BY <1>0, <2>3, <2>5, <3>1 DEF RegisteredInv, Registered, Pending
    <3>3. current_seq[p] <= seq[i]
      BY <1>0, <2>3, <3>1, <3>2 DEF TicketInv, Numbered
    <3>4. current_seq[p] \in Nat /\ seq[i] \in Nat /\ seq[j] \in Nat
      BY <1>0, <2>3, <3>1 DEF TicketInv, LTypeOK
    <3>5. lstate[j] = "gone" => seq[j] < current_seq[p]
      BY <1>0, <3>1 DEF TicketInv, Numbered
    <3> QED
      BY <3>2, <3>3, <3>4, <3>5
  <2>6. ASSUME NEW j \in Files, j <= pos, e(j).path = p
        PROVE  j <= i - 1 <=> lstate[j] = "gone"
    <3>1. j \in Nat
      BY <1>0
    <3>2. j < i => lstate[j] = "gone"
      BY <2>2, <2>3, <2>6, <3>1
    <3> QED
      BY <2>3, <2>5, <2>6, <3>1, <3>2
  <2>7. ThroughUpTo(p, i - 1)
    BY <2>6 DEF ThroughUpTo
  <2> QED
    BY <2>4, <2>7
<1> QED
  BY <1>1, <1>2

\* What --safe-writes leaves there: always whole, and a file where one was.
Sound(p, n) == n.whole /\ (disk[p].kind = "file" => n.kind = "file")
LEMMA SafeSound ==
  ASSUME InputsOk, opt.safe_writes, ~opt.unlink_first, NEW p \in Paths
  PROVE  \A k \in Nat : Sound(p, OneByOne[k][p])
<1> DEFINE S == {k \in Nat : Sound(p, OneByOne[k][p])}
<1>1. 0 \in S
  BY OneByOneStep DEF InputsOk, Sound
<1>2. ASSUME NEW k \in Nat, k \in S PROVE k + 1 \in S
  <2> DEFINE n == OneByOne[k][p]
  <2>1. /\ OneByOne[k + 1] = After(OneByOne[k], k + 1) /\ OneByOne[k] \in [Paths -> Nodes]
        /\ Sound(p, n)
    BY <1>2, OneByOneStep, OneByOneTypes
  <2>2. CASE k + 1 \in Files /\ e(k + 1).path = p
    <3>1. OneByOne[k + 1][p] = Alone(n, k + 1)
      BY <2>1, <2>2 DEF After
    <3>2. Sound(p, Alone(n, k + 1))
      <4>1. Sound(p, Node("file", k + 1, TRUE, Mtime(k + 1)))
        BY DEF Sound, Node
      <4>2. n.kind = "link" => Sound(p, Absent)
        BY <2>1 DEF Sound, Absent, Node
      <4> HIDE DEF n
      <4> QED
        BY <2>1, <4>1, <4>2 DEF Alone, Unlinks
    <3> QED
      BY <3>1, <3>2
  <2>3. CASE ~(k + 1 \in Files /\ e(k + 1).path = p)
    BY <2>1, <2>3 DEF After
  <2> QED
    BY <2>2, <2>3
<1> HIDE DEF S
<1>3. Nat \subseteq S
  BY <1>1, <1>2, SetInduction
<1> QED
  BY <1>3 DEF S

LEMMA InvSafe == ExtractInv => SafeWritesNeverExpose
<1> SUFFICES ASSUME ExtractInv, opt.safe_writes, ~opt.unlink_first,
                    NEW p \in Paths, OnlyFiles(p)
             PROVE  Sound(p, fs[p])
  BY DEF SafeWritesNeverExpose, Sound
<1>0. Types /\ InputsOk /\ PlaceInv /\ RegisteredInv
  BY DEF ExtractInv, Types
<1>1. ASSUME NEW i \in Jobs, step[i] # "idle", e(i).path = p
      PROVE  Sound(p, fs[p])
  <2>1. Stage(i, step[i], remove[i], fs[p]) /\ step[i] \in JobSteps
    BY <1>0, <1>1 DEF ExtractInv, StageInv, Types
  <2>2. i \in Nat /\ i > 0
    BY <1>0, <1>1, JobEntry DEF PlaceInv, Registered
  <2>3. i - 1 \in Nat
    BY <2>2
  <2>4. Sound(p, Found(i))
    BY <1>0, <1>1, <2>3, SafeSound DEF Found
  <2>5. Sound(p, Cleared(i))
    BY <2>4 DEF Cleared, Unlinks, Sound, Absent, Node
  <2>6. Cleared(i).kind = "dir" => Sound(p, Absent)
    BY <2>5 DEF Sound, Absent, Node
  <2>7. Sound(p, Alone(Found(i), i))
    <3>1. Sound(p, Node("file", i, TRUE, Mtime(i)))
      BY DEF Sound, Node
    <3> QED
      BY <2>4, <2>5, <3>1 DEF Alone, Cleared
  <2> QED
    BY <1>1, <2>1, <2>4, <2>5, <2>6, <2>7 DEF Stage, JobSteps
<1>2. CASE \A i \in Jobs : step[i] # "idle" => e(i).path # p
  <2>1. PICK k \in 0..pos : ThroughUpTo(p, k)
    BY ThroughAreFirst
  <2>2. fs[p] = OneByOne[k][p] /\ k \in Nat
    BY <1>2, <2>1 DEF ExtractInv, RestInv
  <2> QED
    BY <1>0, <2>2, SafeSound
<1> QED
  BY <1>1, <1>2

\* What KeepNewer makes of entries that can all be extracted: those that no
\* entry without a time has gone over are none of them newer.
CoveredBy(p, i, k) == \E j \in Files : i < j /\ j <= k /\ e(j).path = p /\ ~HasTime(j)
Newest(p, n, k) ==
  /\ n.by <= k
  /\ \A j \in Files : j <= k /\ e(j).path = p /\ ~CoveredBy(p, j, k) =>
       n.kind # "none" /\ (n.mtime > Mtime(j) \/ (n.mtime = Mtime(j) /\ n.by <= j))
LEMMA KeepsNewest ==
  ASSUME InputsOk, opt.strategy = "KeepNewer", opt.keep_timestamp, ~opt.unlink_first,
         NEW p \in Paths, \A j \in Files : e(j).path = p => Good(j)
  PROVE  \A k \in Nat : Newest(p, OneByOne[k][p], k)
<1> DEFINE S == {k \in Nat : Newest(p, OneByOne[k][p], k)}
<1>0. \A j \in Files : /\ j \in Nat /\ j > 0 /\ j \in Jobs /\ e(j).mtime \in Nat
                       /\ Mtime(j) \in Nat /\ (HasTime(j) => Mtime(j) = e(j).mtime)
                       /\ (Good(j) => (e(j).bad => Skipped(Found(j), j)))
  BY EntryTypes, MtimeType DEF Files, Mtime, Good
<1>1. 0 \in S
  <2>1. OneByOne[0][p].by = 0
    BY OneByOneStep DEF InputsOk
  <2>2. \A j \in Files : ~(j <= 0)
    BY <1>0
  <2> QED
    BY <2>1, <2>2 DEF Newest
<1>2. ASSUME NEW k \in Nat, k \in S PROVE k + 1 \in S
  <2> DEFINE n == OneByOne[k][p]
             m == OneByOne[k + 1][p]
  <2>1. /\ OneByOne[k + 1] = After(OneByOne[k], k + 1) /\ OneByOne[k] \in [Paths -> Nodes]
        /\ Newest(p, n, k)
    BY <1>2, OneByOneStep, OneByOneTypes
  <2>2. n \in Nodes
    BY <2>1
  <2>3. n.by \in Nat /\ n.mtime \in Nat /\ n.by <= k + 1
    <3>1. n.by \in Nat /\ n.mtime \in Nat
      BY <2>2, NodeNumbers
    <3>2. n.by <= k
      BY <2>1 DEF Newest
    <3> HIDE DEF n
    <3> QED
      BY <3>1, <3>2
  <2>4. \A j \in Files : j <= k + 1 <=> j <= k \/ j = k + 1
    BY <1>0
  <2>9. \A j \in Files : CoveredBy(p, j, k) => CoveredBy(p, j, k + 1)
    BY <2>4 DEF CoveredBy
  <2>5. CASE k + 1 \in Files /\ e(k + 1).path = p
    <3>1. m = Alone(n, k + 1) /\ Found(k + 1) = n
      <4>1. (k + 1) - 1 = k
        OBVIOUS
      <4> QED
        BY <2>1, <2>5, <4>1 DEF After, Found
    <3>2. ~Refused(n, k + 1) /\ (e(k + 1).bad => Skipped(n, k + 1))
      BY <1>0, <2>5, <3>1 DEF Refused
    <3>3. /\ Skipped(n, k + 1)
             <=> n.kind # "none" /\ HasTime(k + 1) /\ n.mtime >= Mtime(k + 1)
          /\ Mtime(k + 1) \in Nat
      BY <1>0, <2>5 DEF Skipped, Newer
    <3> HIDE DEF n, m
    <3>4. CASE Skipped(n, k + 1)
      <4>1. m = n
        BY <3>1, <3>4 DEF Alone
      <4>2. n.mtime > Mtime(k + 1) \/ (n.mtime = Mtime(k + 1) /\ n.by <= k + 1)
        BY <2>3, <3>3, <3>4
      <4> QED
        BY <2>1, <2>3, <2>4, <2>9, <3>3, <3>4, <4>1, <4>2 DEF Newest, m, S
    <3>5. CASE ~Skipped(n, k + 1)
      <4>1. m = Node("file", k + 1, TRUE, Mtime(k + 1))
        BY <1>0, <2>5, <3>1, <3>2, <3>5 DEF Alone
      <4>2. m.kind = "file" /\ m.by = k + 1 /\ m.mtime = Mtime(k + 1)
        BY <4>1 DEF Node
      <4>3. ASSUME NEW j \in Files, j <= k, e(j).path = p, ~CoveredBy(p, j, k + 1)
            PROVE  m.mtime > Mtime(j)
        <5>1. HasTime(k + 1)
          BY <1>0, <2>5, <4>3 DEF CoveredBy
        <5>2. n.kind # "none" /\ n.mtime >= Mtime(j)
          BY <1>0, <2>1, <2>3, <2>9, <4>3 DEF Newest
        <5>3. n.mtime < Mtime(k + 1)
          BY <2>3, <3>3, <3>5, <5>1, <5>2
        <5> QED
          BY <1>0, <2>3, <2>5, <4>2, <5>2, <5>3
      <4> QED
        BY <1>0, <2>4, <2>5, <4>2, <4>3 DEF Newest, m, S
    <3> QED
      BY <3>4, <3>5
  <2>6. CASE ~(k + 1 \in Files /\ e(k + 1).path = p)
    <3>1. m = n
      BY <2>1, <2>6 DEF After
    <3> HIDE DEF n, m
    <3> QED
      BY <2>1, <2>3, <2>4, <2>6, <2>9, <3>1 DEF Newest, m, S
  <2> QED
    BY <2>5, <2>6
<1> HIDE DEF S
<1>3. Nat \subseteq S
  BY <1>1, <1>2, SetInduction
<1> QED
  BY <1>3 DEF S

LEMMA InvNewest == ExtractInv => NewestStays
<1> SUFFICES ASSUME ExtractInv, rstate = "done", opt.strategy = "KeepNewer",
                    opt.keep_timestamp, ~opt.unlink_first,
                    NEW i \in Files, OnlyFiles(e(i).path), ~Covered(i)
             PROVE  LET n == At(i)
                    IN n.mtime > Mtime(i) \/ (n.mtime = Mtime(i) /\ n.by <= i)
  BY DEF NewestStays
<1> DEFINE p == e(i).path
<1>0. InputsOk /\ p \in Paths /\ \A j \in Files : j \in Jobs /\ j \in DOMAIN archive
  BY EntryTypes DEF ExtractInv, Types, InputsOk, Files
<1>1. Quiet /\ ~Failed /\ pos = Len(archive)
  BY DEF ExtractInv, ReaderInv
<1>2. pos \in Nat /\ i <= pos
  BY <1>0, <1>1 DEF InputsOk
<1>3. fs[p] = OneByOne[pos][p]
  BY <1>0, <1>1, InvSequential DEF SameAsSequential
<1>4. ASSUME NEW j \in Files, e(j).path = p PROVE Good(j)
  <2>1. j <= pos /\ j \in Jobs
    BY <1>0, <1>1 DEF InputsOk
  <2>2. Reported(j)
    BY <1>1, <2>1, QuietMeansThrough DEF ExtractInv, ReportInv
  <2>3. PICK k \in DOMAIN rx : rx[k][1] = j
    BY <2>2 DEF Reported
  <2>4. rx[k][2] \in {"ok", "error"}
    BY DEF ExtractInv, Types
  <2>5. rx[k][2] = "ok"
    BY <1>1, <2>4 DEF Failed
  <2> QED
    BY <1>4, <2>3, <2>5 DEF ExtractInv, ReportInv
<1>5. Newest(p, fs[p], pos)
  BY <1>0, <1>2, <1>3, <1>4, KeepsNewest
<1> QED
  BY <1>2, <1>5 DEF Newest, At, Covered, CoveredBy

\* For every archive, option, disk and pool of threads: however the jobs
\* interleave, once those of the entries read are through, each path that only
\* files go to is as if they had been extracted one by one in archive order
\* (run_extract_archive_reader, OrderedPathLocks).
THEOREM ExtractsInOrder == Spec => []SameAsSequential
  BY ExtractInvariant, InvSequential, PTL

\* For every archive, option, disk and pool of threads: a success means that
\* each file entry has been worked on once, nothing runs, no error is lost and
\* nothing is half-written; with --safe-writes nothing ever is, and a file that
\* was there is never missing (SafeWriter, the channel of results).
THEOREM ExtractsWhole == Spec => []NothingHalfWritten
<1>1. ExtractInv => NothingHalfWritten
  BY InvDone, InvSafe DEF NothingHalfWritten
<1> QED
  BY <1>1, ExtractInvariant, PTL

\* For every archive, disk and pool of threads: --keep-newer-files ends with
\* the newest entry of a path that only files go to, however its jobs
\* interleave (check_and_prepare_target).
THEOREM KeepsTheNewest == Spec => []NewestStays
  BY ExtractInvariant, InvNewest, PTL
=============================================================================
