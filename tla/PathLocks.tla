------------------------------ MODULE PathLocks ------------------------------
(***************************************************************************)
(* OrderedPathLocks of cli/src/command/core/path_lock.rs: a ticket lock    *)
(* for each output path.  The thread that reads the archive registers jobs *)
(* one after the other; workers then wait for their turn in any order.     *)
(*                                                                         *)
(* What runs between taking and releasing a mutex is one action: the       *)
(* registry has one mutex, and every path's counter its own.  What is not  *)
(* atomic is Condvar::wait, which releases the mutex and sleeps until it   *)
(* is notified, or wakes up for no reason.                                 *)
(***************************************************************************)
EXTENDS Naturals

CONSTANTS Jobs, Paths
ASSUME PathsAssumption == Paths # {}

VARIABLES
  next_seq,     \* the next ticket of each path
  current_seq,  \* the ticket of each path whose turn it is
  path, seq,    \* the ticket of each job
  lstate        \* where each job stands with its ticket

lvars == <<next_seq, current_seq, path, seq, lstate>>

\* "ticket": not used yet; "asleep", then "woken": in the wait of
\* wait_for_turn; "guard": its turn; "dropping", then "dropwoken": in the
\* wait of advance_seq, when a ticket is dropped unused.
LStates == {"none", "ticket", "asleep", "woken", "guard", "dropping",
            "dropwoken", "gone"}

LInit ==
  /\ next_seq = [p \in Paths |-> 0] /\ current_seq = [p \in Paths |-> 0]
  /\ path = [j \in Jobs |-> CHOOSE p \in Paths : TRUE]   \* set by Register
  /\ seq = [j \in Jobs |-> 0]
  /\ lstate = [j \in Jobs |-> "none"]

\* OrderedPathLocks::register
Register(j, p) ==
  /\ lstate[j] = "none"
  /\ path' = [path EXCEPT ![j] = p]
  /\ seq' = [seq EXCEPT ![j] = next_seq[p]]
  /\ next_seq' = [next_seq EXCEPT ![p] = @ + 1]
  /\ lstate' = [lstate EXCEPT ![j] = "ticket"]
  /\ UNCHANGED current_seq

Goto(j, s) == lstate' = [lstate EXCEPT ![j] = s]
Unlocked == UNCHANGED <<next_seq, current_seq, path, seq>>

MyTurn_NotPassed(j) == current_seq[path[j]] <= seq[j]   \* mutant
MyTurn(j) == current_seq[path[j]] = seq[j]

\* wait_for_turn takes the mutex, for the first time or after a wake-up: the
\* job gets its guard or goes (back) to sleep.
WaitForTurn(j) ==
  /\ lstate[j] \in {"ticket", "woken"}
  /\ IF MyTurn(j) THEN Goto(j, "guard") ELSE Goto(j, "asleep")
  /\ Unlocked

\* Condvar::wait may return without a notification.
WakeUp(j) ==
  /\ \/ lstate[j] = "asleep" /\ Goto(j, "woken")
     \/ lstate[j] = "dropping" /\ Goto(j, "dropwoken")
  /\ Unlocked

\* notify_all wakes every sleeper of the path; the caller is done.
Woken_Nobody(k, p) == lstate[k]   \* mutant
Woken(k, p) ==
  IF path[k] # p \/ lstate[k] \notin {"asleep", "dropping"} THEN lstate[k]
  ELSE IF lstate[k] = "asleep" THEN "woken" ELSE "dropwoken"
NotifyAll(j) ==
  lstate' = [k \in Jobs |-> IF k = j THEN "gone" ELSE Woken(k, path[j])]

\* The end of advance_seq: the turn goes to the ticket after the caller's.
Following_Skips(j) == seq[j] + 2   \* mutant
Following(j) == seq[j] + 1
Advance(j) ==
  /\ current_seq' = [current_seq EXCEPT ![path[j]] = Following(j)]
  /\ NotifyAll(j)
  /\ UNCHANGED <<next_seq, path, seq>>

\* The loop of advance_seq waits until the turn of the caller has come.
MustWait_Never(j) == FALSE   \* mutant
MustWait(j) == current_seq[path[j]] < seq[j]

DropGuard(j) == lstate[j] = "guard" /\ ~MustWait(j) /\ Advance(j)

DropTicket(j) ==
  /\ lstate[j] \in {"ticket", "dropwoken"}
  /\ \/ ~MustWait(j) /\ Advance(j)
     \/ MustWait(j) /\ Goto(j, "dropping") /\ Unlocked

LNext == \E j \in Jobs :
  \/ \E p \in Paths : Register(j, p)
  \/ WaitForTurn(j) \/ WakeUp(j) \/ DropGuard(j) \/ DropTicket(j)

\* Whoever has a ticket uses it or drops it, and runs on when it can.
LSpec == LInit /\ [][LNext]_lvars
         /\ \A j \in Jobs : WF_lvars(WaitForTurn(j) \/ DropGuard(j) \/ DropTicket(j))

-----------------------------------------------------------------------------
(* Properties                                                              *)

\* Types of the variables; no turn comes before its ticket is handed out.
LTypeOK ==
  /\ next_seq \in [Paths -> Nat] /\ current_seq \in [Paths -> Nat]
  /\ path \in [Jobs -> Paths] /\ seq \in [Jobs -> Nat]
  /\ lstate \in [Jobs -> LStates]
  /\ \A p \in Paths : current_seq[p] <= next_seq[p]

\* Two jobs never hold the guard of one path at the same time.
MutualExclusion ==
  \A i, j \in Jobs :
    lstate[i] = "guard" /\ lstate[j] = "guard" /\ path[i] = path[j] => i = j

\* Guards are handed out in the order of registration: whoever registered
\* earlier for the path, and perhaps dropped the ticket, is through with it.
RegistrationOrder ==
  \A i, j \in Jobs :
    /\ lstate[j] = "guard" /\ lstate[i] # "none"
    /\ path[i] = path[j] /\ seq[i] < seq[j]
    => lstate[i] = "gone"

\* Nobody sleeps for ever: no wake-up is lost between the check of the turn
\* and the wait, and an unused ticket does not block those behind it.
EveryTicketPasses == \A j \in Jobs : lstate[j] = "ticket" ~> lstate[j] = "gone"
=============================================================================
