----------------------------- MODULE Dispatcher -----------------------------
(* The build dispatcher, 03-delve/exercises/ex2-dispatcher: main hands a     *)
(* batch of jobs to a pool over a buffered channel, then gathers reports     *)
(* from a second one.  In the shipped build both loops run in main, one      *)
(* after the other; solution.diff gives the first a goroutine of its own.    *)
(* Jobs are their IDs 1..batch, a report is the ID of its job, and the time  *)
(* a build takes is the gap between Take and Report.                         *)
EXTENDS Naturals, Sequences, FiniteSets

CONSTANTS
  Workers,     \* the goroutines of the pool (3 in the code)
  JobsCap,     \* cap(jobs), 4 in the code
  ReportsCap,  \* cap(reports), 2 in the code
  BatchSizes,  \* the values of len(batch) considered
  Builds       \* a subset of {"shipped", "solution"}

ASSUME DispatcherAssumption ==
  /\ IsFiniteSet(Workers) /\ Workers # {}
  /\ JobsCap \in Nat \ {0} /\ ReportsCap \in Nat \ {0}
  /\ BatchSizes \subseteq Nat
  /\ Builds \subseteq {"shipped", "solution"}

VARIABLES
  build, batch,  \* chosen in Init, constant from then on
  sent,          \* how many jobs the dispatch loop has sent
  closed,        \* jobs is closed
  jobs,          \* the buffer of jobs
  hold,          \* the job each worker has, 0 while it has none
  returned,      \* the workers that have returned
  reports,       \* the buffer of reports
  gathered,      \* iterations the gather loop has completed
  logged,        \* the jobs whose report main has logged
  complete       \* main logged "build complete" and returned

vars == <<build, batch, sent, closed, jobs, hold, returned, reports, gathered,
          logged, complete>>
rigid == <<build, batch>>

Init ==
  /\ build \in Builds /\ batch \in BatchSizes
  /\ sent = 0 /\ closed = FALSE /\ jobs = <<>>
  /\ hold = [w \in Workers |-> 0] /\ returned = {}
  /\ reports = <<>> /\ gathered = 0 /\ logged = {} /\ complete = FALSE

-----------------------------------------------------------------------------
(* Mutants: mistakes the checked properties must notice.                     *)
DispatchOnePastTheEnd ==
  /\ ~complete /\ sent <= batch /\ Len(jobs) < JobsCap
  /\ sent' = sent + 1 /\ jobs' = Append(jobs, sent + 1)
  /\ UNCHANGED <<rigid, closed, hold, returned, reports, gathered, logged, complete>>

DispatchBackwards ==
  /\ ~complete /\ sent < batch /\ Len(jobs) < JobsCap
  /\ sent' = sent + 1 /\ jobs' = Append(jobs, batch - sent)
  /\ UNCHANGED <<rigid, closed, hold, returned, reports, gathered, logged, complete>>

ReportOrDrop(w) ==
  /\ ~complete /\ hold[w] # 0
  /\ reports' = IF Len(reports) < ReportsCap THEN Append(reports, hold[w]) ELSE reports
  /\ hold' = [hold EXCEPT ![w] = 0]
  /\ UNCHANGED <<rigid, sent, closed, jobs, returned, gathered, logged, complete>>

ReportAgain(w) ==
  /\ ~complete /\ hold[w] # 0 /\ Len(reports) < ReportsCap
  /\ reports' = Append(reports, hold[w])
  /\ UNCHANGED <<rigid, sent, closed, jobs, hold, returned, gathered, logged, complete>>

ReturnWhenIdle(w) ==
  /\ ~complete /\ w \notin returned /\ hold[w] = 0 /\ jobs = <<>>
  /\ returned' = returned \union {w}
  /\ UNCHANGED <<rigid, sent, closed, jobs, hold, reports, gathered, logged, complete>>

GatherAfterClose == ~complete /\ closed

FinishAfterOneMore ==
  /\ ~complete /\ closed /\ gathered = batch + 1
  /\ complete' = TRUE
  /\ UNCHANGED <<rigid, sent, closed, jobs, hold, returned, reports, gathered, logged>>
-----------------------------------------------------------------------------
(* The dispatch loop: the code of main in one build, of its own goroutine in *)
(* the other.  When main returns the process exits, so nothing runs after.   *)
Dispatch ==
  /\ ~complete
  /\ sent < batch /\ Len(jobs) < JobsCap
  /\ sent' = sent + 1
  /\ jobs' = Append(jobs, sent + 1)
  /\ UNCHANGED <<rigid, closed, hold, returned, reports, gathered, logged, complete>>

CloseJobs ==
  /\ ~complete
  /\ sent = batch /\ ~closed
  /\ closed' = TRUE
  /\ UNCHANGED <<rigid, sent, jobs, hold, returned, reports, gathered, logged, complete>>

(* worker: receive, build, report; return once jobs is closed and drained.   *)
Take(w) ==
  /\ ~complete
  /\ w \notin returned /\ hold[w] = 0 /\ jobs # <<>>
  /\ hold' = [hold EXCEPT ![w] = Head(jobs)]
  /\ jobs' = Tail(jobs)
  /\ UNCHANGED <<rigid, sent, closed, returned, reports, gathered, logged, complete>>

Report(w) ==
  /\ ~complete
  /\ hold[w] # 0 /\ Len(reports) < ReportsCap
  /\ reports' = Append(reports, hold[w])
  /\ hold' = [hold EXCEPT ![w] = 0]
  /\ UNCHANGED <<rigid, sent, closed, jobs, returned, gathered, logged, complete>>

Return(w) ==
  /\ ~complete
  /\ w \notin returned /\ hold[w] = 0 /\ closed /\ jobs = <<>>
  /\ returned' = returned \union {w}
  /\ UNCHANGED <<rigid, sent, closed, jobs, hold, reports, gathered, logged, complete>>

(* The gather loop counts reports, one per job of the batch.                 *)
Gathering == ~complete /\ (build = "solution" \/ closed)

Gather ==
  /\ Gathering
  /\ gathered < batch /\ reports # <<>>
  /\ logged' = logged \union {Head(reports)}
  /\ reports' = Tail(reports)
  /\ gathered' = gathered + 1
  /\ UNCHANGED <<rigid, sent, closed, jobs, hold, returned, complete>>

Finish ==
  /\ Gathering
  /\ gathered = batch
  /\ complete' = TRUE
  /\ UNCHANGED <<rigid, sent, closed, jobs, hold, returned, reports, gathered, logged>>

Main == Dispatch \/ CloseJobs \/ Gather \/ Finish
Worker(w) == Take(w) \/ Report(w) \/ Return(w)
Next == Main \/ \E w \in Workers : Worker(w)

Spec == Init /\ [][Next]_vars

(* The scheduler runs every goroutine that can run, so weak fairness of each *)
(* goroutine's next step is what the runtime gives; the dispatch loop and    *)
(* the gather loop may be two goroutines, so each has its own.               *)
Fairness ==
  /\ WF_vars(Dispatch \/ CloseJobs)
  /\ WF_vars(Gather \/ Finish)
  /\ \A w \in Workers : WF_vars(Worker(w))

FairSpec == Spec /\ Fairness
-----------------------------------------------------------------------------
Busy == {w \in Workers : hold[w] # 0}

(* How many jobs the program can absorb before anybody gathers a report.     *)
Capacity == JobsCap + ReportsCap + Cardinality(Workers)

(* "all goroutines are asleep": main in its send, every worker in its own.   *)
Wedged ==
  /\ sent < batch /\ Len(jobs) = JobsCap
  /\ Busy = Workers /\ Len(reports) = ReportsCap
  /\ ~Gathering /\ ~complete

(* The variables have their types.                                           *)
TypeOK ==
  /\ build \in Builds /\ batch \in BatchSizes
  /\ sent \in 0..batch /\ gathered \in 0..batch
  /\ jobs \in Seq(1..batch) /\ Len(jobs) <= JobsCap
  /\ reports \in Seq(1..batch) /\ Len(reports) <= ReportsCap
  /\ hold \in [Workers -> 0..batch] /\ returned \subseteq Workers
  /\ logged \subseteq 1..batch
  /\ closed \in BOOLEAN /\ complete \in BOOLEAN

(* No job is lost: what was sent is in a buffer, in a worker or gathered     *)
(* (channel sends and receives of worker and main, main.go:38-49, 78-89).    *)
NoJobLost == sent = Len(jobs) + Cardinality(Busy) + Len(reports) + gathered

(* The program can only freeze in the shipped build, with a batch larger     *)
(* than both buffers and the pool together (job 10 for 4 + 2 + 3).           *)
WedgeNeedsOversizedBatch == Wedged => build = "shipped" /\ batch > Capacity

(* What the debugger shows of the frozen process: main holds the first job   *)
(* beyond the capacity and the jobs buffer has those just before it, in      *)
(* order (jobs 6 to 9 of the code's batch of 12).                            *)
WedgeShape ==
  Wedged => /\ sent = Capacity
            /\ jobs = [i \in 1..JobsCap |-> ReportsCap + Cardinality(Workers) + i]

(* The program never sleeps for another reason: where nothing can step it is *)
(* done, or it is frozen in the way Wedged describes.                        *)
SleepsOnlyWedged == ~ENABLED Next => complete \/ Wedged

(* Every run decides: a batch within the capacity, or the solution build,    *)
(* ends with all reports; a larger one always freezes in the shipped build.  *)
Settles ==
  /\ (build = "solution" \/ batch <= Capacity) ~> complete
  /\ (build = "shipped" /\ batch > Capacity) ~> []Wedged

(* The pool delivers every job of the batch exactly once.                    *)
Pool == INSTANCE Delivery WITH
  Item <- Nat, expected <- 1..batch, delivered <- logged, count <- gathered
Delivers == Pool!Spec
=============================================================================
