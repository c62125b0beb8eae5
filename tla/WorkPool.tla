------------------------------ MODULE WorkPool ------------------------------
(***************************************************************************)
(* parallel.Run of the graph builder: one goroutine sends the numbers of   *)
(* the jobs on a buffered channel, workers take them, and the first error  *)
(* cancels the rest.  All callers pass context.Background(): nothing but   *)
(* an error cancels, so that firstErr and the context are one variable.    *)
(*                                                                         *)
(* The channel holds the numbers taken .. sent - 1.                        *)
(***************************************************************************)
EXTENDS Integers, FiniteSets

CONSTANTS
    Sizes,       \* the numbers of jobs a caller may have
    Requests,    \* the numbers of workers it may ask for
    Procs        \* GOMAXPROCS(0)

ASSUME PoolAssumption == Sizes \subseteq Nat /\ Requests \subseteq Int /\ Procs \in Nat \ {0}

VARIABLES
    numJobs, workers,
    main,        \* "send", "wait" or "returned"
    sent, taken,
    worker,      \* where each worker is: "range", "check", "run" or "gone"
    jobOf,       \* the job it has
    written,     \* jobs that succeeded: their slot of the result is filled
    failures,    \* jobs that failed (history)
    firstErr     \* the job whose error is kept, or NoErr

poolVars == <<numJobs, workers, main, sent, taken, worker, jobOf, written, failures, firstErr>>

NoErr == -1
Jobs == 0 .. numJobs - 1
Pool == 1 .. workers
WorkerCount(requested) == IF requested > 0 THEN requested ELSE Procs
Clamped(requested, size) ==
    IF WorkerCount(requested) > size THEN size ELSE WorkerCount(requested)

(* No job: Run returns at once.                                            *)
PoolInit ==
    /\ numJobs \in Sizes
    /\ \E requested \in Requests : workers = Clamped(requested, numJobs)
    /\ main = IF numJobs = 0 THEN "returned" ELSE "send"
    /\ sent = 0 /\ taken = 0
    /\ worker = [w \in Pool |-> "range"] /\ jobOf = [w \in Pool |-> 0]
    /\ written = {} /\ failures = {} /\ firstErr = NoErr

SendJob ==
    /\ main = "send" /\ sent < numJobs /\ sent - taken < 2 * workers
    /\ sent' = sent + 1
    /\ UNCHANGED <<numJobs, workers, main, taken, worker, jobOf, written, failures, firstErr>>

CloseJobs ==
    /\ main = "send" /\ sent = numJobs
    /\ main' = "wait"
    /\ UNCHANGED <<numJobs, workers, sent, taken, worker, jobOf, written, failures, firstErr>>

TakeJob(w) ==
    /\ worker[w] = "range" /\ taken < sent
    /\ taken' = taken + 1
    /\ worker' = [worker EXCEPT ![w] = "check"]
    /\ jobOf' = [jobOf EXCEPT ![w] = taken]
    /\ UNCHANGED <<numJobs, workers, main, sent, written, failures, firstErr>>

(* The channel is closed and empty.                                        *)
RangeEnds(w) ==
    /\ worker[w] = "range" /\ taken = sent /\ main # "send"
    /\ worker' = [worker EXCEPT ![w] = "gone"]
    /\ UNCHANGED <<numJobs, workers, main, sent, taken, jobOf, written, failures, firstErr>>

(* A worker that finds the context cancelled leaves, and its job with it.  *)
CheckCancelled(w) ==
    /\ worker[w] = "check"
    /\ worker' = [worker EXCEPT ![w] = IF firstErr = NoErr THEN "run" ELSE "gone"]
    /\ UNCHANGED <<numJobs, workers, main, sent, taken, jobOf, written, failures, firstErr>>

JobSucceeds(w) ==
    /\ worker[w] = "run"
    /\ written' = written \cup {jobOf[w]}
    /\ worker' = [worker EXCEPT ![w] = "range"]
    /\ UNCHANGED <<numJobs, workers, main, sent, taken, jobOf, failures, firstErr>>

JobFails(w) ==
    /\ worker[w] = "run"
    /\ failures' = failures \cup {jobOf[w]}
    /\ firstErr' = IF firstErr = NoErr THEN jobOf[w] ELSE firstErr
    /\ worker' = [worker EXCEPT ![w] = "gone"]
    /\ UNCHANGED <<numJobs, workers, main, sent, taken, jobOf, written>>

(* Mutant: without wg.Wait.                                                *)
RunReturnsEarly ==
    /\ main = "wait"
    /\ main' = "returned"
    /\ UNCHANGED <<numJobs, workers, sent, taken, worker, jobOf, written, failures, firstErr>>

RunReturns ==
    /\ main = "wait" /\ \A w \in Pool : worker[w] = "gone"
    /\ main' = "returned"
    /\ UNCHANGED <<numJobs, workers, sent, taken, worker, jobOf, written, failures, firstErr>>

PoolNext ==
    \/ SendJob \/ CloseJobs \/ RunReturns
    \/ \E w \in Pool :
          \/ TakeJob(w) \/ RangeEnds(w) \/ CheckCancelled(w)
          \/ JobSucceeds(w) \/ JobFails(w)

PoolSpec == PoolInit /\ [][PoolNext]_poolVars

-----------------------------------------------------------------------------
(* The sender waits for room and nobody is left to make it.                *)
SenderStuck ==
    /\ main = "send" /\ sent < numJobs /\ sent - taken = 2 * workers
    /\ \A w \in Pool : worker[w] = "gone"

(* What decodeAndNormalizeParallel relies on.  No job is given to two      *)
(* workers or done again.  When Run returns nil, every slot of the result  *)
(* is written and no job failed; when it returns an error, that job        *)
(* failed; and only after an error can the sender be left waiting for      *)
(* ever (workers return without emptying the channel, workpool.go:45).     *)
PoolResult ==
    /\ \A v, w \in Pool :
          (v # w /\ {worker[v], worker[w]} \subseteq {"check", "run"}) => jobOf[v] # jobOf[w]
    /\ \A w \in Pool : worker[w] \in {"check", "run"} => jobOf[w] \notin written \cup failures
    /\ main = "returned" =>
          IF firstErr = NoErr THEN written = Jobs /\ failures = {} ELSE firstErr \in failures
    /\ SenderStuck => firstErr # NoErr
=============================================================================
