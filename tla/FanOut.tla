------------------------------- MODULE FanOut -------------------------------
(* The log ingester, 03-delve/exercises/ex1-fanout-fanin/main.go: a feeder   *)
(* hands events to a worker pool over an unbuffered channel, the workers     *)
(* record each in Stats under a mutex and report it over a buffered channel, *)
(* and main collects until that channel is closed.  Go's mutex is not        *)
(* reentrant: in the shipped build Record calls noteCritical, which locks    *)
(* again.  An event is its position in the stream, a result that of its      *)
(* event; the stream gives the severity classify finds.                      *)
EXTENDS Naturals, Sequences, FiniteSets

CONSTANTS
  Workers,     \* the pool, 8 in the code
  ResultsCap,  \* cap(results), numWorkers in the code
  Streams,     \* the streams considered: sequences of severities
  Builds       \* a subset of {"shipped", "solution"}

Severity == {"INFO", "WARN", "ERROR", "FATAL"}

ASSUME FanOutAssumption ==
  /\ IsFiniteSet(Workers) /\ Workers # {} /\ ResultsCap \in Nat \ {0}
  /\ Streams \subseteq Seq(Severity)
  /\ Builds \subseteq {"shipped", "solution"}

(* generateEvents: the severity of event id, numbered from 0.                *)
SeverityOf(id) ==
  CASE id % 37 = 36 -> "FATAL"
    [] id % 37 # 36 /\ id % 11 = 10 -> "ERROR"
    [] id % 37 # 36 /\ id % 11 # 10 /\ id % 7 = 6 -> "WARN"
    [] OTHER -> "INFO"
generateEvents(count) == [i \in 1..count |-> SeverityOf(i - 1)]

VARIABLES
  build, stream,          \* chosen in Init, constant
  fed, eventsClosed,      \* events sent so far; events is closed
  pc, ev,                 \* of each worker: where it is and its event, 0 if none
  mu,                     \* the workers that hold Stats.mu
  bySeverity, critical,   \* the counts and the critical IDs of Stats
  results, resultsClosed, \* the results channel
  collected, seen,        \* main's counter, and the events it stands for
  finished                \* main has left its loop and printed the counts

feeder == <<fed, eventsClosed>>
stats == <<bySeverity, critical>>
main == <<collected, seen, finished>>
vars == <<build, stream, feeder, pc, ev, mu, stats, results, resultsClosed, main>>

Init ==
  /\ build \in Builds /\ stream \in Streams
  /\ fed = 0 /\ eventsClosed = FALSE
  /\ pc = [w \in Workers |-> "receive"] /\ ev = [w \in Workers |-> 0]
  /\ mu = {} /\ bySeverity = [s \in Severity |-> 0] /\ critical = {}
  /\ results = <<>> /\ resultsClosed = FALSE
  /\ collected = 0 /\ seen = {} /\ finished = FALSE
-----------------------------------------------------------------------------
(* Mutants.                                                                  *)
FeedPastTheEnd(w) ==
  /\ ~finished /\ fed <= Len(stream) /\ pc[w] = "receive"
  /\ fed' = fed + 1 /\ ev' = [ev EXCEPT ![w] = fed + 1]
  /\ pc' = [pc EXCEPT ![w] = "record"]
  /\ UNCHANGED <<build, stream, eventsClosed, mu, stats, results, resultsClosed, main>>

AlwaysLocksAgain == TRUE
FeedingDone == eventsClosed
CountUnlessCritical(s) == IF s = "FATAL" THEN 0 ELSE 1

SendOrDrop(w) ==
  /\ ~finished /\ pc[w] = "send"
  /\ results' = IF Len(results) < ResultsCap THEN Append(results, ev[w]) ELSE results
  /\ pc' = [pc EXCEPT ![w] = "receive"] /\ ev' = [ev EXCEPT ![w] = 0]
  /\ UNCHANGED <<build, stream, feeder, mu, stats, resultsClosed, main>>
-----------------------------------------------------------------------------
Feed(w) ==
  /\ ~finished /\ fed < Len(stream) /\ pc[w] = "receive"
  /\ fed' = fed + 1 /\ ev' = [ev EXCEPT ![w] = fed + 1]
  /\ pc' = [pc EXCEPT ![w] = "record"]
  /\ UNCHANGED <<build, stream, eventsClosed, mu, stats, results, resultsClosed, main>>

CloseEvents ==
  /\ ~finished /\ fed = Len(stream) /\ ~eventsClosed
  /\ eventsClosed' = TRUE
  /\ UNCHANGED <<build, stream, fed, pc, ev, mu, stats, results, resultsClosed, main>>

(* Record locks mu and counts; a critical event goes on to noteCritical,     *)
(* which in the shipped build locks mu once more.                            *)
Counts(s) == 1

Record(w) ==
  /\ ~finished /\ pc[w] = "record" /\ mu = {}
  /\ mu' = {w}
  /\ LET s == stream[ev[w]] IN
       /\ bySeverity' = [bySeverity EXCEPT ![s] = @ + Counts(s)]
       /\ pc' = [pc EXCEPT ![w] = IF s = "FATAL" THEN "note" ELSE "unlock"]
  /\ UNCHANGED <<build, stream, feeder, ev, critical, results, resultsClosed, main>>

LocksAgain == build = "shipped"

NoteCritical(w) ==
  /\ ~finished /\ pc[w] = "note" /\ (LocksAgain => mu = {})
  /\ critical' = critical \union {ev[w]}
  /\ pc' = [pc EXCEPT ![w] = "unlock"]
  /\ UNCHANGED <<build, stream, feeder, ev, mu, bySeverity, results, resultsClosed, main>>

Unlock(w) ==
  /\ ~finished /\ pc[w] = "unlock"
  /\ mu' = mu \ {w}
  /\ pc' = [pc EXCEPT ![w] = "send"]
  /\ UNCHANGED <<build, stream, feeder, ev, stats, results, resultsClosed, main>>

Send(w) ==
  /\ ~finished /\ pc[w] = "send" /\ Len(results) < ResultsCap
  /\ results' = Append(results, ev[w])
  /\ pc' = [pc EXCEPT ![w] = "receive"] /\ ev' = [ev EXCEPT ![w] = 0]
  /\ UNCHANGED <<build, stream, feeder, mu, stats, resultsClosed, main>>

Return(w) ==
  /\ ~finished /\ pc[w] = "receive" /\ eventsClosed
  /\ pc' = [pc EXCEPT ![w] = "returned"]
  /\ UNCHANGED <<build, stream, feeder, ev, mu, stats, results, resultsClosed, main>>

Worker(w) == Record(w) \/ NoteCritical(w) \/ Unlock(w) \/ Send(w) \/ Return(w)

(* The goroutine that waits for the pool and closes results.                 *)
WaitGroupDone == \A w \in Workers : pc[w] = "returned"

CloseResults ==
  /\ ~finished /\ WaitGroupDone /\ ~resultsClosed
  /\ resultsClosed' = TRUE
  /\ UNCHANGED <<build, stream, feeder, pc, ev, mu, stats, results, main>>

Collect ==
  /\ results # <<>>
  /\ collected' = collected + 1 /\ seen' = seen \union {Head(results)}
  /\ results' = Tail(results)
  /\ UNCHANGED <<build, stream, feeder, pc, ev, mu, stats, resultsClosed, finished>>

Finish ==
  /\ ~finished /\ results = <<>> /\ resultsClosed
  /\ finished' = TRUE
  /\ UNCHANGED <<build, stream, feeder, pc, ev, mu, stats, results, resultsClosed,
                 collected, seen>>

Feeder == CloseEvents \/ \E w \in Workers : Feed(w)
Next ==
  \/ Feeder \/ CloseResults \/ Collect \/ Finish
  \/ \E w \in Workers : Worker(w)

Spec == Init /\ [][Next]_vars

(* A goroutine that can run is run; a worker that keeps finding mu free gets *)
(* it (Go's mutex hands itself to a waiter after a millisecond).             *)
FairSpec ==
  /\ Spec
  /\ WF_vars(Feeder) /\ WF_vars(CloseResults) /\ WF_vars(Collect \/ Finish)
  /\ \A w \in Workers : WF_vars(Worker(w)) /\ SF_vars(Record(w))
-----------------------------------------------------------------------------
(* The variables have their types.                                           *)
TypeOK ==
  /\ build \in Builds /\ stream \in Streams
  /\ fed \in 0..Len(stream) /\ eventsClosed \in BOOLEAN
  /\ pc \in [Workers -> {"receive", "record", "note", "unlock", "send", "returned"}]
  /\ ev \in [Workers -> 0..Len(stream)] /\ mu \subseteq Workers
  /\ bySeverity \in [Severity -> 0..Len(stream)] /\ critical \subseteq 1..Len(stream)
  /\ results \in Seq(1..Len(stream)) /\ Len(results) <= ResultsCap
  /\ resultsClosed \in BOOLEAN /\ finished \in BOOLEAN
  /\ collected \in 0..Len(stream) /\ seen \subseteq 1..Len(stream)

InRecord(w) == pc[w] \in {"note", "unlock"}

(* The counts agree with the events that have been through Record, wherever  *)
(* they are by now: in a worker, in results or collected.                    *)
Recorded ==
  seen \union {results[i] : i \in 1..Len(results)}
       \union {ev[w] : w \in {v \in Workers : InRecord(v) \/ pc[v] = "send"}}
CountsMatch ==
  \A s \in Severity : bySeverity[s] = Cardinality({e \in Recorded : stream[e] = s})

(* main prints the counts without the lock (main.go:191-193), and results is *)
(* closed under the workers' feet: both are safe because every worker has    *)
(* returned and left Stats alone by then, with every critical ID noted.      *)
QuietOnceClosed ==
  resultsClosed =>
    /\ mu = {} /\ \A w \in Workers : pc[w] = "returned"
    /\ critical = {e \in 1..Len(stream) : stream[e] = "FATAL"}

(* A worker is stuck in the mutex it holds itself.                           *)
SelfDeadlocked == LocksAgain /\ \E w \in Workers : pc[w] = "note" /\ mu = {w}

(* The build and the stream decide: main finishes, unless a critical event   *)
(* comes along in the shipped build; then the pool stops for good.           *)
HasCritical == \E e \in 1..Len(stream) : stream[e] = "FATAL"
Settles ==
  /\ (build = "solution" \/ ~HasCritical) ~> finished
  /\ (build = "shipped" /\ HasCritical) ~> [](SelfDeadlocked /\ ~finished)

(* Every event is collected exactly once, and main finishes with all: the    *)
(* branch that prints FAILED (main.go:194-197) is never taken.               *)
Pool == INSTANCE Delivery WITH
  Item <- Nat, expected <- 1..Len(stream), delivered <- seen, count <- collected,
  complete <- finished
Delivers == Pool!Spec
=============================================================================
