---------------------------- MODULE ServiceMaps ----------------------------
(* The service of 01-race-detector/exercises/ex2-map: a cache of results and *)
(* a map of metrics, used by cache workers, a verifier, metrics collectors   *)
(* and a monitor.  Modelled is main.go with the locks of locks.diff, and the *)
(* two steps that build on it: atomic.diff (atomic hit counts) and           *)
(* syncmap.diff (no lock around the cache).  main.go as it stands guards     *)
(* neither map: the Go runtime may stop it at any step.                      *)
(* A lookup, a store, a delete and RecordMetric are single steps under their *)
(* locks.  The hit count is raised after the lookup has unlocked, in two     *)
(* steps in locks.diff.  Only counts matter, so a cached result is its hit   *)
(* count; heap[k] has those of all results ever stored under k, the last of  *)
(* them being the one in the cache while k is present.                       *)
EXTENDS Naturals, Sequences, FiniteSets, Functions

CONSTANTS
  Workers,     \* the cacheWorker goroutines, 3 in the code
  PerWorker,   \* keys of each worker, 20 in the code
  Requests,    \* requests of each worker, 300 each in the code
  Verifier,    \* the verifier goroutine
  VerifyKeys,  \* the number of testKeys, 3 in the code
  Rounds,      \* times it reads them back, 30 in the code
  More,        \* accesses between its two looks at a hit count, 5 in the code
  Collectors,  \* the metricsCollector goroutines, 3 in the code
  Records      \* records of each collector, 200 in the code

ASSUME ServiceMapsAssumption ==
  /\ IsFiniteSet(Workers) /\ IsFiniteSet(Collectors) /\ Verifier \notin Workers
  /\ Requests \in [Workers -> Nat] /\ VerifyKeys \in Nat \ {0}
  /\ PerWorker \in Nat \ {0} /\ Rounds \in Nat /\ More \in Nat /\ Records \in Nat

Users == Workers \union {Verifier}
Keys == (Workers \X (1..PerWorker)) \union ({Verifier} \X (1..VerifyKeys))
Metrics == {"hits", "misses", "invalidations", "others", "operations"}

VARIABLES
  version,    \* of the program, chosen in ServiceInit
  present,    \* the keys in the cache
  heap,       \* per key: the hit counts of the results stored under it
  metrics,
  at,         \* per user of the cache, where it is, see ServiceTypeOK
  key, result,  \* per user: the key and the result (its place in heap) it is at
  seen,       \* per user: the hit count it has read
  metric,     \* per user: the metric to record next
  left,       \* per user: requests to go
  hitCount1, errors,   \* of the verifier
  writes,     \* per collector: calls of RecordMetric made
  monitor,    \* "wait", "scan", "gone"
  toScan, totalHits,   \* of GetCacheStats under way, or the last one
  finished

cached == <<present, heap>>
locals == <<key, result, seen, metric, left>>
verifying == <<hitCount1, errors>>
monitoring == <<monitor, toScan, totalHits>>
serviceVars == <<version, cached, metrics, at, locals, verifying, writes,
                 monitoring, finished>>

(* What the verifier reads: its keys in turn, then the first key again.      *)
TestReads == [i \in 1..(Rounds * VerifyKeys + More + 2) |->
            IF i <= Rounds * VerifyKeys THEN ((i - 1) % VerifyKeys) + 1 ELSE 1]

ServiceInit ==
  /\ version \in {"locks", "atomic", "syncmap"}
  /\ present = {} /\ heap = [k \in Keys |-> <<>>] /\ metrics = [m \in Metrics |-> 0]
  /\ at = [u \in Users |-> IF u = Verifier THEN "store" ELSE "next"]
  /\ key = [u \in Users |-> <<u, 1>>] /\ result = [u \in Users |-> 0]
  /\ seen = [u \in Users |-> 0] /\ metric = [u \in Users |-> "hits"]
  /\ left = [u \in Users |-> IF u = Verifier THEN Len(TestReads) ELSE Requests[u]]
  /\ hitCount1 = 0 /\ errors = 0 /\ writes = [c \in Collectors |-> 0]
  /\ monitor = "wait" /\ toScan = {} /\ totalHits = 0 /\ finished = FALSE

HitCount(u) == heap[key[u]][result[u]]

(* GetCacheStats keeps writers out while it reads, except in syncmap.diff.   *)
Writable == monitor # "scan" \/ version = "syncmap"
-----------------------------------------------------------------------------
(* Mutants.                                                                  *)
KeysWithoutID(w) == {CHOOSE v \in Workers : TRUE} \X (1..PerWorker)
TickKeepingTotal ==
  /\ monitor = "wait" /\ totalHits < 20
  /\ monitor' = "scan" /\ toScan' = Keys
  /\ UNCHANGED <<version, cached, metrics, at, locals, verifying, writes,
                 totalHits, finished>>
-----------------------------------------------------------------------------
(* Every worker has its own keys: fmt.Sprintf("user_%d_%d", id, i).          *)
KeysOf(w) == {w} \X (1..PerWorker)

Asks(u) ==
  IF u = Verifier THEN {<<u, TestReads[Len(TestReads) - left[u] + 1]>>} ELSE KeysOf(u)

(* GetFromCache: the lookup.  A hit will be counted on the result it found.  *)
Lookup(u, k) ==
  /\ at[u] = "next" /\ left[u] > 0 /\ k \in Asks(u)
  /\ left' = [left EXCEPT ![u] = @ - 1] /\ key' = [key EXCEPT ![u] = k]
  /\ result' = [result EXCEPT ![u] = Len(heap[k])]
  /\ at' = [at EXCEPT ![u] = IF k \in present THEN "hit" ELSE "record"]
  /\ metric' = [metric EXCEPT ![u] = IF k \in present THEN "hits" ELSE "misses"]
  /\ errors' = IF u = Verifier /\ k \notin present THEN errors + 1 ELSE errors
  /\ UNCHANGED <<version, cached, metrics, seen, hitCount1, writes, monitoring,
                 finished>>

ReadHitCount(u) ==
  /\ at[u] = "hit" /\ version = "locks"
  /\ seen' = [seen EXCEPT ![u] = HitCount(u)]
  /\ at' = [at EXCEPT ![u] = "raise"]
  /\ UNCHANGED <<version, cached, metrics, key, result, metric, left,
                 verifying, writes, monitoring, finished>>

SetHitCount(u, n) ==
  /\ heap' = [heap EXCEPT ![key[u]][result[u]] = n]
  /\ seen' = [seen EXCEPT ![u] = 0]
  /\ at' = [at EXCEPT ![u] = "record"]
  /\ UNCHANGED <<version, present, metrics, key, result, metric, left,
                 verifying, writes, monitoring, finished>>

WriteHitCount(u) == at[u] = "raise" /\ SetHitCount(u, seen[u] + 1)
AddHit(u) == at[u] = "hit" /\ version # "locks" /\ SetHitCount(u, HitCount(u) + 1)

(* RecordMetric, and where its caller goes on.                               *)
Continues(u) ==
  CASE metric[u] = "invalidations" -> "next"
    [] metric[u] = "misses" /\ u # Verifier -> "store"
    [] OTHER -> "after"

RecordMetric(u) ==
  /\ at[u] = "record"
  /\ metrics' = [metrics EXCEPT ![metric[u]] = @ + 1]
  /\ at' = [at EXCEPT ![u] = Continues(u)]
  /\ UNCHANGED <<version, cached, locals, verifying, writes, monitoring,
                 finished>>

(* StoreInCache, by a worker after a miss, by the verifier for each key.     *)
StoreInCache(u) ==
  /\ at[u] = "store" /\ Writable
  /\ present' = present \union {key[u]}
  /\ heap' = [heap EXCEPT ![key[u]] = Append(@, 0)]
  /\ IF u = Verifier /\ key[u][2] < VerifyKeys
       THEN key' = [key EXCEPT ![u] = <<u, @[2] + 1>>] /\ at' = at
       ELSE key' = key /\ at' = [at EXCEPT ![u] = IF u = Verifier THEN "next" ELSE "after"]
  /\ UNCHANGED <<version, metrics, result, seen, metric, left, verifying,
                 writes, monitoring, finished>>

(* InvalidateCacheEntry, now and then after a request.                       *)
InvalidateCacheEntry(w, k) ==
  /\ at[w] = "after" /\ k \in KeysOf(w) /\ Writable
  /\ present' = present \ {k}
  /\ metric' = [metric EXCEPT ![w] = "invalidations"]
  /\ at' = [at EXCEPT ![w] = "record"]
  /\ UNCHANGED <<version, heap, metrics, key, result, seen, left, verifying,
                 writes, monitoring, finished>>

NextRequest(w) ==
  /\ at[w] = "after"
  /\ at' = [at EXCEPT ![w] = "next"]
  /\ UNCHANGED <<version, cached, metrics, locals, verifying, writes,
                 monitoring, finished>>

(* The verifier looks at the hit count it was given last but More + 1, and   *)
(* at the last, which must be higher.                                        *)
Compare ==
  /\ at[Verifier] = "after"
  /\ hitCount1' = IF left[Verifier] = More + 1 THEN HitCount(Verifier) ELSE hitCount1
  /\ errors' = IF left[Verifier] = 0 /\ HitCount(Verifier) <= hitCount1
                 THEN errors + 1 ELSE errors
  /\ at' = [at EXCEPT ![Verifier] = "next"]
  /\ UNCHANGED <<version, cached, metrics, locals, writes, monitoring,
                 finished>>
-----------------------------------------------------------------------------
(* A collector records one metric of its own or a shared one, then the total *)
(* of operations, which may also be the one picked.  Its reads change        *)
(* nothing.                                                                  *)
Collect(c) ==
  /\ writes[c] < 2 * Records
  /\ writes' = [writes EXCEPT ![c] = @ + 1]
  /\ \E m \in IF writes[c] % 2 = 0 THEN {"others", "operations"} ELSE {"operations"} :
       metrics' = [metrics EXCEPT ![m] = @ + 1]
  /\ UNCHANGED <<version, cached, at, locals, verifying, monitoring, finished>>

MonitorTick ==
  /\ monitor = "wait"
  /\ monitor' = "scan" /\ toScan' = Keys /\ totalHits' = 0
  /\ UNCHANGED <<version, cached, metrics, at, locals, verifying, writes,
                 finished>>

(* GetCacheStats reads one hit count after another, in any order.            *)
ScanCache(k) ==
  /\ monitor = "scan" /\ k \in toScan
  /\ toScan' = toScan \ {k}
  /\ totalHits' = IF k \in present THEN totalHits + heap[k][Len(heap[k])] ELSE totalHits
  /\ UNCHANGED <<version, cached, metrics, at, locals, verifying, writes,
                 monitor, finished>>

(* GetAllMetrics and the report.                                             *)
ReportStats ==
  /\ monitor = "scan" /\ toScan = {}
  /\ monitor' = "wait"
  /\ UNCHANGED <<version, cached, metrics, at, locals, verifying, writes,
                 toScan, totalHits, finished>>

(* main: wg.Wait, done <- true (which the monitor takes between two ticks),  *)
(* the final statistics.                                                     *)
UsersDone ==
  /\ \A u \in Users : at[u] = "next" /\ left[u] = 0
  /\ \A c \in Collectors : writes[c] = 2 * Records

Stop ==
  /\ UsersDone /\ monitor = "wait" /\ ~finished
  /\ monitor' = "gone" /\ finished' = TRUE
  /\ UNCHANGED <<version, cached, metrics, at, locals, verifying, writes,
                 toScan, totalHits>>

GetFromCache(u) ==
  (\E k \in Keys : Lookup(u, k))
    \/ ReadHitCount(u) \/ WriteHitCount(u) \/ AddHit(u) \/ RecordMetric(u)
ServiceNext ==
  \/ \E u \in Users : GetFromCache(u) \/ StoreInCache(u)
  \/ \E w \in Workers : NextRequest(w) \/ \E k \in KeysOf(w) : InvalidateCacheEntry(w, k)
  \/ Compare \/ \E c \in Collectors : Collect(c)
  \/ MonitorTick \/ (\E k \in Keys : ScanCache(k)) \/ ReportStats \/ Stop

ServiceSpec == ServiceInit /\ [][ServiceNext]_serviceVars
-----------------------------------------------------------------------------
AllHits == SumFunction([k \in Keys |-> SumFunction(heap[k])])
Uncounted == {u \in Users : at[u] = "record" /\ metric[u] = "hits"}

ServiceTypeOK ==
  /\ version \in {"locks", "atomic", "syncmap"}
  /\ present \subseteq Keys /\ heap \in [Keys -> Seq(Nat)] /\ metrics \in [Metrics -> Nat]
  /\ at \in [Users -> {"next", "hit", "raise", "record", "store", "after"}]
  /\ key \in [Users -> Keys] /\ result \in [Users -> Nat] /\ seen \in [Users -> Nat]
  /\ metric \in [Users -> Metrics] /\ left \in [Users -> Nat]
  /\ hitCount1 \in Nat /\ errors \in Nat /\ writes \in [Collectors -> 0..(2 * Records)]
  /\ monitor \in {"wait", "scan", "gone"} /\ toScan \subseteq Keys /\ totalHits \in Nat
  /\ finished \in BOOLEAN

(* Every hit is on some result, if not yet in the metrics: even with the     *)
(* unguarded HitCount++ of locks.diff, because no two goroutines use a key.  *)
HitsAgree == AllHits = metrics["hits"] + Cardinality(Uncounted)

(* The results a goroutine counts on, and the one it stores over a miss, are *)
(* nobody else's: no store replaces a result in the cache, so no hits vanish *)
(* but by an invalidation (main.go:51-63, 120-136).                          *)
NeverReplaced ==
  \A u \in Users : /\ at[u] = "store" => key[u] \notin present
                   /\ at[u] \in {"hit", "raise"} =>
                        key[u] \in present /\ result[u] = Len(heap[key[u]])

(* Of the operations collectors count, at most one each is not in the total. *)
OperationsAgree ==
  metrics["others"] <= metrics["operations"]
                         + Cardinality({c \in Collectors : writes[c] % 2 = 1})

(* The verifier finds nothing wrong, in any of the builds.                   *)
VerifierSatisfied == errors = 0

CountsAgree ==
  ServiceTypeOK /\ HitsAgree /\ NeverReplaced /\ OperationsAgree /\ VerifierSatisfied

(* The monitor adds up hit counts one by one and reads the metrics later:    *)
(* its total exceeds the hits in the metrics by no more than the goroutines  *)
(* that are between the two (main.go:41-42, 194-198).                        *)
MonitorSkew == totalHits <= metrics["hits"] + Cardinality(Uncounted)
=============================================================================
