------------------------------ MODULE Shipper ------------------------------
(* The record shipper, 02-execution-tracer/exercises/ex3-io: main feeds      *)
(* record IDs to a pool of workers that fetch them, a single collector       *)
(* appends what they send to the archive.  Both channels are unbuffered, so  *)
(* a send is one joint step.  The shipped build compresses in the collector, *)
(* solution.diff in the workers.  Any fetch, and any write to the archive,   *)
(* may fail; log.Fatal then ends the process on the spot.                    *)
EXTENDS Naturals, Sequences, FiniteSets

CONSTANTS
  NumRecords,  \* 200 in the code
  Workers      \* the worker goroutines, 8 in the code

ASSUME ShipperAssumption ==
  NumRecords \in Nat \ {0} /\ IsFiniteSet(Workers) /\ Workers # {}

Builds == {"shipped", "solution"}
Ids == 0..(NumRecords - 1)
(* A record knows how often it has been compressed.                          *)
Record == [id : Ids, compressed : 0..2]

VARIABLES
  build,          \* chosen in Init, as is
  mayFail,        \* whether a fetch or a write may fail
  fed,            \* IDs main has sent
  jobsClosed, resultsClosed,
  pc,             \* per worker: "receive", "fetch", "compress", "send", "gone"
  rec,            \* per worker: the record it has, meaningful from "fetch" on
  collector,      \* "receive", "append", "gone"
  inHand,         \* the record the collector has, in a set
  archive,        \* what has been appended
  outcome         \* of the process: "running", "shipped" or "fatal"

chosen == <<build, mayFail>>
feeding == <<fed, jobsClosed, resultsClosed>>
pool == <<pc, rec>>
gathering == <<collector, inHand, archive>>
vars == <<chosen, feeding, pool, gathering, outcome>>

Init ==
  /\ build \in Builds /\ mayFail \in BOOLEAN
  /\ fed = 0 /\ jobsClosed = FALSE /\ resultsClosed = FALSE
  /\ pc = [w \in Workers |-> "receive"]
  /\ rec = [w \in Workers |-> [id |-> 0, compressed |-> 0]]
  /\ collector = "receive" /\ inHand = {} /\ archive = <<>>
  /\ outcome = "running"

Running == outcome = "running"
Compressed(r) == [r EXCEPT !.compressed = @ + 1]
-----------------------------------------------------------------------------
(* Mutants.                                                                  *)
WrittenAgain(r) == Compressed(r)
SomeWorkerGone == \E w \in Workers : pc[w] = "gone"
CollectorNotAwaited == TRUE
CloseJobsAfterPool ==
  /\ Running /\ fed = NumRecords /\ ~jobsClosed /\ \A w \in Workers : pc[w] = "gone"
  /\ jobsClosed' = TRUE
  /\ UNCHANGED <<chosen, fed, resultsClosed, pool, gathering, outcome>>
-----------------------------------------------------------------------------
(* main's loop over the IDs, and the worker that takes the next one.         *)
Feed(w) ==
  /\ Running /\ fed < NumRecords /\ pc[w] = "receive"
  /\ fed' = fed + 1
  /\ rec' = [rec EXCEPT ![w] = [id |-> fed, compressed |-> 0]]
  /\ pc' = [pc EXCEPT ![w] = "fetch"]
  /\ UNCHANGED <<chosen, jobsClosed, resultsClosed, gathering, outcome>>

CloseJobs ==
  /\ Running /\ fed = NumRecords /\ ~jobsClosed
  /\ jobsClosed' = TRUE
  /\ UNCHANGED <<chosen, fed, resultsClosed, pool, gathering, outcome>>

fetch(w) ==
  /\ Running /\ pc[w] = "fetch"
  /\ pc' = [pc EXCEPT ![w] = IF build = "solution" THEN "compress" ELSE "send"]
  /\ UNCHANGED <<chosen, feeding, rec, gathering, outcome>>

compress(w) ==
  /\ Running /\ pc[w] = "compress"
  /\ rec' = [rec EXCEPT ![w] = Compressed(@)]
  /\ pc' = [pc EXCEPT ![w] = "send"]
  /\ UNCHANGED <<chosen, feeding, gathering, outcome>>

Send(w) ==
  /\ Running /\ pc[w] = "send" /\ collector = "receive"
  /\ pc' = [pc EXCEPT ![w] = "receive"]
  /\ collector' = "append" /\ inHand' = {rec[w]}
  /\ UNCHANGED <<chosen, feeding, rec, archive, outcome>>

Return(w) ==
  /\ Running /\ jobsClosed /\ pc[w] = "receive"
  /\ pc' = [pc EXCEPT ![w] = "gone"]
  /\ UNCHANGED <<chosen, feeding, rec, gathering, outcome>>

(* What the collector writes of a record it received.                        *)
Written(r) == IF build = "shipped" THEN Compressed(r) ELSE r

Collect ==
  /\ Running /\ collector = "append"
  /\ \E r \in inHand : archive' = Append(archive, Written(r))
  /\ collector' = "receive" /\ inHand' = {}
  /\ UNCHANGED <<chosen, feeding, pool, outcome>>

CollectorReturns ==
  /\ Running /\ resultsClosed /\ collector = "receive"
  /\ collector' = "gone"
  /\ UNCHANGED <<chosen, feeding, pool, inHand, archive, outcome>>

(* log.Fatal in fetch, or in the collector on a failed write.                *)
Fatal ==
  /\ Running /\ mayFail
  /\ collector = "append" \/ \E w \in Workers : pc[w] = "fetch"
  /\ outcome' = "fatal"
  /\ UNCHANGED <<chosen, feeding, pool, gathering>>

WaitGroupDone == \A w \in Workers : pc[w] = "gone"

CloseResults ==
  /\ Running /\ jobsClosed /\ WaitGroupDone /\ ~resultsClosed
  /\ resultsClosed' = TRUE
  /\ UNCHANGED <<chosen, fed, jobsClosed, pool, gathering, outcome>>

CollectorDone == collector = "gone"

(* main prints how many records were shipped and returns.                    *)
Finish ==
  /\ Running /\ resultsClosed /\ CollectorDone
  /\ outcome' = "shipped"
  /\ UNCHANGED <<chosen, feeding, pool, gathering>>

Main == CloseJobs \/ CloseResults \/ Finish \/ \E w \in Workers : Feed(w)
worker(w) == fetch(w) \/ compress(w) \/ Send(w) \/ Return(w)
Next == Main \/ Collect \/ CollectorReturns \/ Fatal \/ \E w \in Workers : worker(w)

Spec == Init /\ [][Next]_vars

(* Every goroutine that can go on does; nothing has to fail.                 *)
FairSpec ==
  /\ Spec /\ WF_vars(Main) /\ WF_vars(Collect \/ CollectorReturns)
  /\ \A w \in Workers : WF_vars(worker(w))
-----------------------------------------------------------------------------
Busy == {w \in Workers : pc[w] \in {"fetch", "compress", "send"}}
ArchivedIds == {archive[i].id : i \in DOMAIN archive}

TypeOK ==
  /\ build \in Builds /\ mayFail \in BOOLEAN
  /\ fed \in 0..NumRecords /\ jobsClosed \in BOOLEAN /\ resultsClosed \in BOOLEAN
  /\ pc \in [Workers -> {"receive", "fetch", "compress", "send", "gone"}]
  /\ rec \in [Workers -> Record]
  /\ collector \in {"receive", "append", "gone"} /\ inHand \subseteq Record
  /\ archive \in Seq(Record) /\ outcome \in {"running", "shipped", "fatal"}

(* Whatever fails and whenever: each ID fed so far is with exactly one       *)
(* worker, in the collector's hand, or in the archive, nowhere twice.  This  *)
(* is what makes the archive of a fatal run usable (main.go:87-133).         *)
Conserved ==
  /\ {rec[w].id : w \in Busy} \union {r.id : r \in inHand} \union ArchivedIds = 0..(fed - 1)
  /\ Cardinality(Busy) + Cardinality(inHand) + Len(archive) = fed

(* Every line of the archive is a record compressed once: solution.diff      *)
(* moves the compression to the workers, and does it in no other place.      *)
CompressedOnce == \A i \in DOMAIN archive : archive[i].compressed = 1

(* results is closed when no worker is left to send on it, which would       *)
(* panic, and every record is then in the collector or behind it             *)
(* (main.go:91-92).                                                          *)
ClosedQuietly ==
  resultsClosed => /\ \A w \in Workers : pc[w] = "gone"
                   /\ Cardinality(inHand) + Len(archive) = NumRecords

(* The archive a reader can rely on: the three above.                        *)
ArchiveSound == TypeOK /\ Conserved /\ CompressedOnce /\ ClosedQuietly

(* The shipper implements exactly-once delivery; "shipped 200 records" is    *)
(* its announcement that all of them are in the archive.                     *)
Pool == INSTANCE Delivery WITH
  Item <- Ids, expected <- Ids, delivered <- ArchivedIds, count <- Len(archive),
  complete <- outcome = "shipped"
Delivers == Pool!Spec

(* A run ends, with the archive complete unless something failed.            *)
Finishes ==
  /\ <>(outcome # "running")
  /\ ~mayFail => <>(outcome = "shipped")
=============================================================================
