---------------------------- MODULE MCConcurrency ----------------------------
(* Extraction with its pool of workers, and the two pieces that the parallel *)
(* commands are built with: the locks of the output paths, with tickets used *)
(* and dropped in every order, and the reordering of results.  One of them   *)
(* moves in each behaviour.                                                  *)
EXTENDS MCParallelExtract, ReorderResults

CONSTANTS Indices, MaxLength

VARIABLE part   \* the one that moves
own == <<archive, opt, pool, disk, fs, pos, rstate, saw, links, queue, running, step, remove, rx>>
allvars == <<part, given, own, lvars, rvars>>

Arrivals == UNION {[1..n -> Indices] : n \in 0..MaxLength}
AnyInput == [archive |-> <<>>, opt |-> Opt("Never", FALSE, FALSE, FALSE),
             pool |-> Pool({w1}, main), disk |-> Under(Absent, Absent)]

LayersInit ==
  \/ part = "extract" /\ Init /\ given = <<>> /\ Arriving(given)
  \/ /\ part \in {"locks", "results"} /\ InitOf(AnyInput)
     /\ given \in IF part = "results" THEN Arrivals ELSE {<<>>}
     /\ Arriving(given)
Others == UNCHANGED <<part, given>>
Extract == part = "extract" /\ Next /\ Others /\ UNCHANGED rvars
Locks == part = "locks" /\ LNext /\ Others /\ UNCHANGED <<own, rvars>>
Results == part = "results" /\ ReorderNext /\ Others /\ UNCHANGED <<own, lvars>>
LayersNext == Extract \/ Locks \/ Results

UsesTicket(j) == /\ part = "locks" /\ Others /\ UNCHANGED <<own, rvars>>
                 /\ WaitForTurn(j) \/ DropGuard(j) \/ DropTicket(j)
ReaderGoesOn == part = "extract" /\ Read /\ Others /\ UNCHANGED rvars
Works(w) == part = "extract" /\ Work(w) /\ Others /\ UNCHANGED rvars
\* The fairness of PathLocks and of ParallelExtract.
LayersSpec == /\ LayersInit /\ [][LayersNext]_allvars
              /\ \A j \in Jobs : WF_allvars(UsesTicket(j))
              /\ WF_allvars(ReaderGoesOn) /\ \A w \in Threads : WF_allvars(Works(w))
----------------------------------------------------------------------------
\* ParallelExtract comes to an end, and so does every ticket of PathLocks.
ExtractTerminates == part = "extract" => Terminates
TicketsPass == part = "locks" => EveryTicketPasses
=============================================================================
