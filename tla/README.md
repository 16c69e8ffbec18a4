# Verification of the concurrency workshop programs

This directory holds TLA+ models of the Go programs in this repository, the TLC
configurations that check them on small instances, and proofs of the most
important results that TLAPS checks for every instance. The programs are
teaching material: most exist twice, as *shipped* (with a deliberate mistake)
and after the `solution.diff` beside them. The models cover both builds. They
state precisely what the mistake does, when it bites, and that the solution
removes it without introducing another.

## 1. The system

The repository is a collection of independent programs. None calls another; the
components below interact only inside their own process, through channels,
mutexes, wait groups and shared memory.

| Program | State it keeps | Operations | What is hard | What makes it correct |
|---|---|---|---|---|
| Order pipeline, `03-delve/demo/pipeline.go` | four unbuffered channels, the order each stage holds, two timers, `p.done` | SendOrder, receiver, validator, processor, shipper, Wait, main's select | shipper leaves after ten orders while others still send; the closing chain; two timers racing the work | success is printed only when every order was shipped or rejected; no order is in two places |
| Log ingester, `03-delve/exercises/ex1-fanout-fanin` | `events`, `results`, `Stats` under a mutex | feeder, worker, Record, noteCritical, closer, collector | a non-reentrant mutex taken twice; channel closed by a third goroutine; unlocked reads at the end | every event counted and collected once; nobody touches Stats when main reads it |
| Build dispatcher, `03-delve/exercises/ex2-dispatcher` | `jobs`, `reports`, the job in each worker | dispatch loop, worker, gather loop | main fills both buffers and then sleeps in a send | every job reported exactly once; the program ends |
| Inventory, `03-delve/exercises/ex3-inventory` | stock and reservations under a mutex, the janitor's snapshot | Take, Reserve, snapshot, releaseExpired, reconciliation | a snapshot used after the mutex was let go; a grace period that replaces synchronisation | units are neither made nor lost |
| Agent exercise, `03-delve/exercises/ex4-agent` | none of its own | a document and an MCP configuration: the other programs debugged by an agent | - | - |
| Bank, `01-race-detector/exercises/ex3-banking` | accounts under an RWMutex, the VIP report's pointer | CreateAccount, Transfer, LargestAccount, TotalBalance, reporter, audit | updates under a read lock; a pointer followed after the unlock | transfers move money, never mint it; the public methods are atomic |
| TTL cache, `01-race-detector/exercises/ex4-testing` | entries with expiry times, three counters, `done` | Set, Get, Len, Stats, Close, janitor, sweep | counters under a read lock; the clock read before the lock | expired entries are never returned, live ones never swept, counts add up |
| Service cache and metrics, `01-race-detector/exercises/ex2-map` | two maps, a hit count in each cached result | GetFromCache, StoreInCache, InvalidateCacheEntry, GetCacheStats, RecordMetric, the workers | a count incremented outside any lock; miss, compute and store as separate steps | counts agree with the metrics; the verifier's keys stay |
| Worker statistics, `01-race-detector/exercises/ex1-counter` | counters and a map of workers | RecordWork, RegisterWorker, monitor | unsynchronised increments | no work goes uncounted |
| Counter demo, `01-race-detector/demo` | one counter | increment | a lost update | - |
| Lookup service, `02-execution-tracer/exercises/ex2-flightrecorder` | cache under an RWMutex, `latencies`, `stop` | handle, refresh, worker, reporter, main | shutdown: the reader of `latencies` may leave before its writers | main gets past `bg.Wait` |
| Record shipper, `02-execution-tracer/exercises/ex3-io` | `jobs`, `results`, the archive | worker, collector, main | the order of closes and waits | each record archived exactly once |
| Scheduling heartbeat, `02-execution-tracer/exercises/ex1-scheduling` | a one-slot channel, a ticker | heartbeat, batch workers | scheduler latency, a matter of real time | - |
| Channel demo, `02-execution-tracer/demo` | one channel | a sender and a receiver | - | - |
| Trace analyzer, `02-execution-tracer/exercises/ex4-traceagent/analyzer` | per goroutine: state, since, four buckets; blocking sites; scheduler waits | Analyze, observe, recordStateTime, recordBlocking, recordSchedWait, flush, summary | three recorders that share `since`; re-asserted states; what counts as the end of the trace | every moment of a known goroutine is charged to exactly one bucket |
| Renderer, command line and MCP server, `.../ex4-traceagent/cmd`, `render.go` | none | formatting and I/O | - | - |
| Setup, clean-up and slide scripts | files | shell | - | - |

Every hazard of this code that an ordinary test would hardly reach is listed, at
its line, under `hazards` in `PROJECT.json` with the properties that watch it.

## 2. The modules

| Module | What it is | Code |
|---|---|---|
| `Delivery` | abstract: a pool delivers each item once and announces completion only when none is missing | what `Dispatcher`, `FanOut` and `Shipper` promise |
| `Dispatcher` | detailed, implements `Delivery` | ex2-dispatcher, both builds |
| `FanOut` | detailed, implements `Delivery` | ex1-fanout-fanin, both builds |
| `Pipeline` | detailed | demo/pipeline.go |
| `Warehouse` | detailed | ex3-inventory, both builds |
| `AtomicBank` | abstract: transfers and VIP reports as single steps | what `Bank` promises its callers |
| `Bank` | detailed, its solution build implements `AtomicBank` | ex3-banking, both builds |
| `Shipper` | detailed, implements `Delivery` | ex3-io, both builds |
| `Lookup` | detailed | ex2-flightrecorder, both builds |
| `ExpiringMap` | abstract: a map that forgets a key TTL after it was set, without locks or sweeps | what `TTLCache` promises its callers |
| `TTLCache` | detailed, implements `ExpiringMap` | ex4-testing/ttlcache.go, both builds |
| `ServiceMaps` | detailed | ex2-map with `locks.diff`, `atomic.diff` and `syncmap.diff` |
| `Analyzer` | detailed, with the traced program as its environment | ex4-traceagent/analyzer with the recorders of `solution.diff` |
| `MC*` | the instances TLC checks | |
| `DispatcherProofs`, `FanOutProofs`, `PipelineTTLCacheProofs`, `WarehouseProofs`, `BankServiceMapsProofs`, `ShipperProofs`, `AnalyzerLookupProofs` | theorems on the modules each is named after | |
| `SumTheorems` | lemmas on the sum of a finite function and on putting a finite set in order, for the other proofs | |

Conventions that hold in all of them:

* **Builds.** The variable `build` is `"shipped"` or `"solution"` (in `ServiceMaps` it is
  `version`, one of three), chosen in `Init` and never changed. A definition that the diff touches is an `IF` on it; all
  else is common. A property either holds of both builds, or says which.
* **Inputs.** The batch, stream, order book or batch size is also chosen in `Init`
  and then constant, so one run covers several inputs. The inputs of the MC
  modules are stretches of what the program itself generates
  (`generateEvents`, `buildOrders`, the batch of `main`), not invented ones.
* **Steps.** An action is what the code does between two points where others can
  interfere: a channel operation, a critical section, or, where a lock does not
  protect the data (`Bank`), one access to shared memory.
* **Channels.** A buffered channel is a sequence no longer than its capacity. A send
  on an unbuffered one is a joint step of sender and receiver. A channel that is
  closed and drained is a flag and an empty sequence.
* **Mutexes.** A mutex is the set of goroutines that hold it; an RWMutex is two
  such sets. A goroutine that locks a mutex it holds waits, as in Go.
* **The end of the process.** In Go the process exits when `main` returns. Where a
  goroutine may be alive by then, its actions are guarded by `~complete`,
  `~finished` or `Running`.
* **Time.** `TTLCache` and `Analyzer` are about times and have a clock that an `Elapse`
  action advances. The other models are untimed: the length of a sleep is the gap between two
  actions. Where the code relies on a duration (shipper's 5 s and main's 10 s in
  the pipeline, the 900 ms grace period of the warehouse), a constant choice made
  in `Init` says whether the machine keeps to its times (`stalls`, `prompt`). If it does,
  the timer's guard says which states the clock can have been outwaited in;
  if not, the timer may go off at any moment. Both cases are always checked.
* **Ghosts.** What a property needs and the code does not keep is marked *ghost* where it
  is declared (`answered` and `inserted` in `TTLCache`, `actual`, `lasted` and `spent` in
  `Analyzer`, `promised` and `slow` in `Lookup`). No guard reads one but for a bound.
* **Names.** Where one proof module is about two components, the second one's
  specification has names of its own (`CacheSpec`, `ServiceSpec`, `LookupSpec` and so on).
* **Mutants.** Each module has a section of mistakes somebody could plausibly make in
  the code. For each checked property, replacing the definition `PROJECT.json` names by
  one of them makes TLC find that property violated.

### Dispatcher

`Dispatch` and `CloseJobs` are the send loop and the `close`; `Gather` and `Finish` the
receive loop and the return of `main`. In the shipped build `Gathering` demands that
`jobs` is closed: the loops run one after the other in `main`. In the solution build
the send loop has a goroutine of its own. `Take`, `Report` and `Return` are the worker.
`Wedged` is the state the debugger shows in the exercise.

### FanOut

`Feed` hands an event to a worker over the unbuffered channel, `Record` locks the mutex
and counts, `NoteCritical` adds the ID of a critical event (in the shipped build it
locks once more, which it can only do when nobody holds the mutex, itself included),
`Unlock` and `Send` follow. `CloseResults` is the goroutine that waits for the pool.
`Collect` and `Finish` are the loop in `main`. The severity of an event is computed as
`generateEvents` lays it out and `classify` reads it back. The progress monitor only
reads, and the debug server only serves profiles; neither is modelled.

### Pipeline

`recv`, `val` and `proc[p]` are the orders in the hands of the stages, `SendOrder`,
`ToValidator`, `ToProcessor` and `Ship` the four hand-overs, `Reject` the validator's
other branch, `ShipperLeaves` both ways out of shipper. `CloseIncoming` and the three
`...Returns` actions are the closing chain that `Wait` sets off, `Complete` and `Timeout` main's
select. After the timeout main sleeps for ever, as in the code.

### Warehouse

`Receive` and `Fulfill` are a picker's loop; `Take` and `Reserve` are whole critical sections,
so one action each. `Snapshot` and `Release` are the two critical sections of
`releaseExpired`; between them anything may happen. `Stop` is `close(stopJanitor)` after
the grace period, `Finish` the reconciliation. `sold` is a counter the code does not
have: it records what `Take` shipped so that the books can be compared at any moment.

### Bank

`Begin` locks; `Check`, `ReadFrom`, `ReadTo`, `Debit` and `Credit` each make one access (or, for
`Check`, one read and the decisions on it), `End` unlocks. The reporter's `Tick`,
`Scan`, `Scanned` and `PrintReport` are LargestAccount with its map iteration in any order and the
print that follows. `fraudCheck` only takes time and always agrees. `Audit` is the sum
in `main`, one step because nobody writes by then. `GetBalance` has no caller.

### Shipper

`Feed` and `CloseJobs` are the loop of `main`, `fetch`, `compress`, `Send` and `Return` a worker,
`Collect` the collector's body, `CloseResults` and `Finish` the rest of `main`. Where the record is
compressed is the only difference of the builds, so a record counts how often it has
been. `Fatal` is `log.Fatal` in a fetch or a write: the process is over, whatever the
others are doing. `mayFail` says whether it can happen at all.

### Lookup

A cache entry is the number of the refresh that wrote it. `Tick`, `Lock`, `Verify` and `Write`
are a refresh: the shipped build verifies with the lock held, the solution before it locks. A
refresher that waits for the lock keeps new readers out (`RLock`), as Go's RWMutex
does. `Check`, `RLock`, `handle` and `Send` are a worker's loop, `Report` and `ReporterLeaves` the
reporter, `CloseStop` and `Finish` `main`. `Finish` waits for the workers and the refresher only.
The initial load is `LookupInit`; nobody else is there yet.

### TTLCache

`Get` is RLock, lookup and `time.Now`; what follows, while the read lock is still held, is the
count: `Add` in the solution, `ReadCounter` and `WriteCounter` in the shipped build. `Set` and
`sweep` need the lock free of readers. The janitor takes a tick, reads the clock and
waits for the lock in three steps, so the time it sweeps by may be old. The ticker holds
one tick and drops others. A second `Close` panics and is left to the caller.

### ServiceMaps

A cached result is its hit count. `heap[k]` lists the results ever stored under a key, so that
one can still be counted on after it left the cache. `Lookup` is the locked part of
`GetFromCache`; the hit count is raised (`ReadHitCount` and `WriteHitCount`, or `AddHit`) and
the metric recorded (`RecordMetric`) in steps of their own. `StoreInCache` and
`InvalidateCacheEntry` wait for a monitor that scans, except with a `sync.Map`. `Compare` is
the verifier's look at the hit count. Values of results are left out: no key is
stored by two goroutines, which `NeverReplaced` checks.

### Analyzer

`Elapse` lets time pass in the traced program and adds it to the ghost `spent`, one unit at a
time. `Transition` is one round of Analyze's loop for a real transition, all three
recorders included, `Reassert` one for a re-asserted state, `ProcTransition` one for a
proc; an event of another kind changes nothing. `flush` is the end of the trace. The
tables of `summary()` are operators on the final state. `Edges` are the transitions
the trace reader delivers. A table is in `Descending` order, equal entries in any, since
`slices.SortFunc` is not stable; sums are `SumFunction` of the community modules.

## 3. The runs

| Run | Instance | What it shows |
|---|---|---|
| `dispatcher` | the pool and capacities of the code, batches of 4, 9, 10 and 12 | `Settles`: a batch of at most 9 = 4 + 2 + 3 always completes, 10 and 12 always freeze the shipped build, the solution build always completes. `WedgeShape`, `WedgeNeedsOversizedBatch`: the frozen state is one particular state. `SleepsOnlyWedged`: there is no other way to get stuck. `NoJobLost`. `Delivers`: it implements `Delivery` |
| `pipeline` | processors and limit of the code, five batches | `FrozenPosition` and `Settles`: where it freezes (order 18 for the batch of `main`) and which batches complete or time out. `SuccessMeansAll`: the success message is never wrong, not even when a stall makes a timer fire early. `Accounted` |
| `fanout` | three workers, three stretches of the stream | `CountsMatch` in every state; `QuietOnceClosed`: the unlocked reads of `main` and the close of `results` are safe; `Settles`: one critical event stops the shipped build for good, otherwise it finishes; `Delivers` |
| `warehouse` | two pickers, two stretches of the order book | `BooksBalance` of the solution build in every state, and never short in the shipped one; `DriftExplained`: drift appears only in a sweep, only for items that had a reservation, and by how much; `Reconciles`: the report of `main` is right provided the grace period is long enough; `Finishes` |
| `bank` | solution build, two tellers, two accounts, two transfers each | `BooksBalance`, `NoOverdraft`, `NoDataRace`, `AuditHappens`, and `Linearizable`: it implements `AtomicBank` |
| `bank_shipped` | the same in the shipped build | a violation of `AuditPasses`: "The books must balance: transfers move money, they never mint it" (`main.go:198`), and "safe for concurrent use" (`main.go:17`). Two transfers read one balance before either writes |
| `shipper` | both builds, three workers, four records, with and without failures | `ArchiveSound`: each ID fed is with one worker, in the collector's hand or in the archive; each line compressed once; `results` closed only when nobody is left to send. `Delivers`: it implements `Delivery`. `Finishes` |
| `lookup` | both builds, two workers, two entries, five rounds with a full one, a channel of one slot | `ServedWell`: no map access races a swap, no request sees an entry older than the last full refresh before it, only the shipped build makes requests wait for a verification. `Settles`: shutdown ends, or is `Jammed`; it does end if the channel has room for the requests under way |
| `lookup_shutdown` | the same | a violation of `WorkersStop` ("worker serves requests until stop is closed", `main.go:99`): the reporter leaves, the channel is full, a worker sleeps in its send and `bg.Wait` never returns |
| `ttlcache` | both builds, two keys, two clients, TTL 1 and a sweep every 2, two ticks | `Transparent`: it implements `ExpiringMap`. `Sweeps`: expired entries go at the next tick, the janitor leaves after `Close`. `CountsAddUp`: swept entries and those left are all that were inserted; the solution counts every Get; the shipped build may lose counts but never shows zero after a hit, which is why the test at `ttlcache_test.go:74` passes although the comment at `ttlcache.go:58` is wrong |
| `service_maps` | three builds, two workers with a key each, verifier, collector, monitor | `CountsAgree`: hits on all results and the metric agree but for goroutines in between, no store replaces a cached result, the verifier is satisfied, even with the unguarded `HitCount++` of `locks.diff`, because keys are disjoint. `MonitorSkew`: by how much the monitor's total may exceed the metric |
| `analyzer` | two goroutines, two sites, five events in four units of time | `BucketsTrue`: every bucket is the time really spent in that state. `SummaryTrue`: blocked time by site and by goroutine agree, the listed waits of a goroutine lie one after another and contain its longest, the report is consistent after truncation |

**What the comments say otherwise.** Besides the two violations: `analyzer.go:212` and `:233` speak of
the last event of the trace, but events that are no state transition are skipped
before `observe` (`:56`), so open intervals are charged, and `TraceDuration` counts, up to the last
transition only. `BucketsTrue` states what the code does. `HitCount++` in `locks.diff` loses
nothing, but the monitor reads it without synchronisation: the data race that
`atomic.diff` is for.

**Why these bounds are enough.** The dispatcher and the pipeline run with the
constants of the code; the batch sizes lie on both sides of each boundary. `fanout`
needs two workers that want the mutex and a third that still runs, a results
channel that can be full, and a critical event with ordinary ones before and after;
capacity and pool are equal as in the code. `warehouse` needs two orders for one item during a
sweep, one of each kind, an item never reserved, and a sweep that begins after a reservation; the
stretches around orders 15 and 59 have all of them. `bank` needs a read made stale by two writes of somebody
else, transfers in both directions, to oneself and beyond the funds; two tellers with
two transfers have them. `Initial = 10` and `InitialBalance = 3` replace 100 and 1000 since the
code computes nothing from the absolute values: 10 is never exhausted by a stretch, and 3
can be overdrawn. `shipper` has more records than workers, and workers that queue for the
collector. In `lookup` one slot is full as soon as 1024 may be, rounds reach the full
refresh and go on after it. `ttlcache` needs a key renewed between the janitor's reading of
the clock and its sweep, and two Gets that count at once; its clock stops at `MaxTime`, and
`Sweeps` speaks only of entries that expire while a tick is still to come. `service_maps` needs a
miss, a hit and an invalidation by one worker while others do the same. `analyzer`
needs waits below and above `minSchedWait`, two blocks at different sites and a
re-assertion within an interval. `MaxTime`, `MaxGets`, `MaxEvents` and `Rounds` are the bounds on what
would otherwise grow (`Rounds` has a value in the code, 6); `Requests`, `Records` and `More` are
smaller than in the code. Each property was seen to fail on a mutant within these bounds.

**Deadlock checking** is off in all runs: every program ends, and some freeze;
that is what `Settles`, `Finishes` and `AuditHappens` are about.

**Fairness.** Weak fairness of the next step of each goroutine: the Go scheduler
is preemptive and runs every goroutine that can run. Timers go off (weak fairness of
`Timeout`, `ShipperLeaves`, the janitor's tick). Strong fairness is used where the runtime gives more. A goroutine that keeps finding a mutex free gets it: Go's mutex
switches to starvation mode and hands itself to the waiter, and an RWMutex lets no new reader in
while a writer waits (`Record` of `FanOut`, `Begin` and `Audit` of `Bank`). A `select` with
several ready cases picks one at random, so a case that is ready again and again is
not overlooked for ever (`JanitorReturns`, `StopReporter`, `RefresherLeaves`, the janitor's `TakeTick`
and `JanitorLeaves`). Readers blocked on an RWMutex and senders blocked on a channel are queued
(`RLock` and `Send` of `Lookup`), and a waiting writer keeps new readers out (`sweep`).
The VIP reporter's tick has no fairness at all; nothing depends on it.

## 4. The proofs

All results hold for every value of the constants that satisfies the module's named
assumption, not just for the instances. Each proof states an inductive invariant: what the code relies on from one step to the next and no line of it says. Those that are
not obvious were checked by TLC on the instance of the run before they were proved.

| Module | Theorems | What they say |
|---|---|---|
| `DispatcherProofs` | `TypeCorrect`, `Conservation`, `WedgeBoundary`, `WedgeStands`, `ImplementsDelivery` | `TypeOK`, `NoJobLost`, `WedgeNeedsOversizedBatch`, `WedgeShape`, `Delivers` |
| | `OnlyWedgedSleeps`, `WedgedForGood` | there is no freeze but `Wedged`, and no way out of it |
| `FanOutProofs` | `TypeCorrect`, `MutualExclusion`, `CountsExact`, `QuietAtTheEnd`, `CriticalNeverFinishes`, `DeadlockIsForGood`, `ImplementsDelivery` | `TypeOK`, `CountsMatch`, `QuietOnceClosed`, `Delivers`; one goroutine at a time uses Stats; the shipped build with a critical event never finishes, and its deadlock has no way out |
| `PipelineTTLCacheProofs`, on `Pipeline` | `TypeCorrect`, `NoOrderLost`, `SuccessIsComplete`, `FreezesWhereTold`, `FrozenIsTheEnd` | `TypeOK`, `Accounted`, `SuccessMeansAll`, `FrozenPosition`; no step leaves the frozen state |
| the same, on `TTLCache` | `CountersSound`, `ImplementsExpiringMap` | `CountsAddUp`, `Transparent` |
| `WarehouseProofs` | `TypeCorrect`, `Balanced`, `DriftIsStaleStock`, `ReportIsRight` | `TypeOK`, `BooksBalance`, `DriftExplained`, `Reconciles` |
| `BankServiceMapsProofs`, on `Bank` | `TypeCorrect`, `BooksAlwaysBalance`, `NeverOverdrawn`, `RaceFree`, `ImplementsAtomicBank` | `TypeOK`, `BooksBalance`, `NoOverdraft`, `NoDataRace`, `Linearizable` |
| the same, on `ServiceMaps` | `ServiceCountsAgree`, `MonitorNearlyAgrees` | `CountsAgree`, `MonitorSkew` |
| `ShipperProofs` | `Sound`, `ImplementsDelivery` | `ArchiveSound`, `Delivers` |
| `AnalyzerLookupProofs`, on `Analyzer` | `BucketsAreTrue`, `WaitsAreTrue`, `SummaryIsTrue` | `BucketsTrue`, `SummaryTrue`; where the waits of a goroutine lie, and which are listed |
| the same, on `Lookup` | `WellServed`, `JammedForGood` | `ServedWell`; a jammed shutdown never ends |

**Dispatcher**, from `DispatcherAssumption` (a finite, non-empty pool, capacities of at least
one). The invariant has four parts besides the types. `NoJobLost` alone is inductive but
says nothing about *which* jobs, so `InOrder` adds that the buffer holds the jobs just
before `sent`, in order, and `GatherLast` that the shipped build gathers nothing while it
still dispatches. From `NoJobLost` and `GatherLast` the frozen state must have sent exactly
`JobsCap + ReportsCap + |Workers|` jobs (`WedgeBoundary`), and with `InOrder` the buffer's content
follows (`WedgeStands`). For the refinement (`ImplementsDelivery`) one needs in addition
that no job is in two places (`Once`); then `Gather` is `Deliver`, `Finish` is `Complete` and all
else stutters. `OnlyWedgedSleeps` is `SleepsOnlyWedged` with the guards of the actions written
out (`Ready`) in place of `ENABLED Next`; on the instance TLC finds the two equivalent. It
needs `Orderly`, that nobody leaves while there is work, and then counts: if nobody can
step and jobs remain to be sent, both buffers are full and all workers hold a report.

**FanOut**, from `FanOutAssumption`. Four parts, each proved inductive on the ones before:
`Types`; `Phases` (who is in `Record` has the mutex and nobody else, the channels are closed in
their order); `Conserved` (an event fed is in one place: with a worker, in `results`, collected);
`Tallied` (`CountsMatch`, and which critical IDs are noted so far). `Recorded` gains an
element exactly when `Record` counts it, so the step from one cardinality to the next is adding one
element, and no induction over sets is needed. `CriticalNeverFinishes` is the safety half of
what `Settles` claims of the shipped build, `DeadlockIsForGood` the action property behind it.

**Pipeline**, from `PipelineAssumption`. `Accounted` needs to know where in the chain an order may
be: `HeadOfChain` (unbuffered channels: receiver has the last order sent, validator the last or
the last but one) and `Validated`. `ClosedInOrder` gives `SuccessMeansAll`: main's select sees the
wait group at zero only when each stage has returned with empty hands. `ShipperPatient` says
when shipper leaves if the machine keeps to its times. From these the position of the
frozen program is arithmetic (`FreezesWhereTold`). `FrozenIsTheEnd` goes over all actions and finds
each of them disabled, `Timeout` included, because main sits in `SendOrder`.

**Warehouse**, from `WarehouseAssumption`. `BooksBalance` is not inductive: the step that ends a
sweep uses the snapshot. The strengthening is `SnapshotBounds`: while a sweep is under way no shelf is
fuller, and no reservation smaller, than the snapshot says. This is where "nobody but the
janitor puts anything back" enters. It gives `TypeCorrect` (reservations never become negative),
`Balanced`, and `DriftIsStaleStock`, the action property that explains each unit of drift in the
shipped build. `ReportIsRight` is about the end of main. It adds `Grace` (a sweep that began when the pickers
were done clears every reservation, and none comes back), `HandsApart` (the channel gives each
order to one picker) and `SoldCounts` (`sold` counts the orders worked off).

**Bank**, from `BankAssumption`; the claims are about the solution build, except for the types. `Locked`
is mutual exclusion, `Fresh` says that what a transfer has read still holds when it uses it; from both
follow `RaceFree` and `NeverOverdrawn`. For the balances the invariant is on `Settled`, the accounts
as they are once the transfer under way is through (`SettledAddsUp`), and `Leads` does for the
reporter's scan what it does for the tellers. In the refinement a transfer takes
effect when it debits, a report when its scan ends.

**ServiceMaps**, from `ServiceMapsAssumption`, for all three versions. The counts agree because
each worker's keys are its own (`Owned`), and so what a goroutine found in the cache is still there
when it counts on it, though it let the lock go in between (`Stands`): the result it is to
raise is the latest under its key, the count it read is still the count, and a key it is to
store has none. `Verified` says the same of the verifier's keys for its whole life. The four with
the types are `Steady`. `Rising` adds that the verifier's second look at a hit count comes after a hit
of its own. With these, each step changes the hits on all results, the metric and the set
of goroutines in between by amounts that cancel (`HitsAgree`, a sum of sums). The monitor's
total is at most the hits on the keys it has read so far (`TotalSound`), and hits only grow.

**Sums.** `Total` of the bank, the hits of the service and the tables of the analyzer are
folds over sets of any size. What is needed of them (one value changes, two do, one is added; two
sums compared or added up; by rows or by columns; parts of a whole) is in `SumTheorems`.
The library's induction theorems take an operator as a parameter and are of no
use here. Induction is done by the least counterexample instead: were a claim false for some
number of elements, there would be a least such number (`LeastNatural`, from
`WellFoundedInduction`), and the fold's own definition contradicts that. The set of numbers, or of
subsets, for which a claim holds takes the place of the operator (`EveryNatural`, `EverySubset`).

**Shipper**, from `ShipperAssumption` (`NumRecords` positive: with no records at all there is no
`Record`, and the type of `rec` is empty). `ArchiveSound` is inductive only with the order in
which channels are closed (`ClosedInOrder`) and with `Tracked`, that each ID is in one place and
the places add up to `fed`. A failure ends the program wherever it is, so `Fatal` breaks none of it.

**TTLCache**, from `TTLCacheAssumption`. The hard part is the shipped build's counters, where
a Get writes back a count that may be old. `ReadsSound` bounds what a Get has read: with the Gets that
are counting now it is no more than the answers given, so writing it back cannot make
the count too large. `SweepsThePast` (a sweep's time is never ahead of the clock) is all the refinement
needs: the sweep removes only what the abstract map has forgotten.

**Analyzer**, from `AnalyzerAssumption`, for any trace the environment can produce. `Timely` is what
the three recorders share: `since` is the moment of the goroutine's last real change of
state, within the trace, so `since + lasted = clock` while events are read. With `Unseen`
(nothing is charged before the first event) `BucketsTrue` is inductive, and `flush` needs `since <= end`.
`WaitsInOrder` and `LongestListed` are inductive on top of that. `SummaryIsTrue` rests on four
more. `BlockedAgrees` itself is inductive with `BlockedSomewhere`, that a waiting goroutine has a site:
the recorders of bucket and site add the same interval, and `flush` adds the open ones to the buckets
alone. `WaitsCharged`: the waits listed for a goroutine, added up, are part of its runnable time.
`WithinTrace`: its four buckets, added up, reach no further than its last change of state. The groups
are disjoint and have all goroutines, which gives the counts (`GroupsCounted`), and their times are
added up by goroutine instead of by bucket (`GroupsTimed`). That a finite set can be put
in order at all, which `Descending` presumes, is `InOrder`; from it follow `LongestShown` and
`TopShown`, for any length the report is cut to.

**Lookup**, from `LookupAssumption`. `Locked`: while the refresher holds the lock there are no readers,
in either build. `UpToDate`: an entry is at least as new as the last full refresh that has ended,
and no request was promised more than that. Both are inductive with the types and give
`WellServed`. `JammedForGood` needs `AllReturned`, that main gets past its wait only when every worker
has returned; a worker asleep in its send, with the reporter gone and the channel
full, is never woken.

**What stays with TLC.**

* Liveness: `Settles`, `Finishes`, `AuditHappens`, `Sweeps`. Their safety halves are proved where
  they have one (`WedgedForGood`, `CriticalNeverFinishes`, `FrozenIsTheEnd`, `JammedForGood`).
* `SleepsOnlyWedged`, which speaks of `ENABLED`; `OnlyWedgedSleeps` says it with the guards
  instead.
* The two violations, which are counterexamples.

## 5. Not modelled

* The unguarded maps of ex2-map as shipped: two goroutines in one Go map may end the
  process, corrupt it or do nothing, so no property of that build is worth stating.
* The racy counter demo and the worker statistics: lost updates of the kind `Bank` and
  `TTLCache` have, on smaller programs. The channel demo: a channel that never fills.
* The scheduling heartbeat, and durations everywhere: how long a goroutine waits for
  a processor is no matter of interleavings.
* The truncation of a 64-bit difference to `int` in the analyzer's comparators
  (`analyzer.go:291, 305, 311`), which is none on 64-bit
  platforms. Rendering, command line and MCP server.
* Shell scripts, and the agent exercise (a document).
* The flight recorder of ex2-flightrecorder: in the code it is a TODO.

## 6. State of the project

All modules of section 2 are written and checked; every invariant and action property of a passing
run, and every refinement, is proved, except `SleepsOnlyWedged`. What could be added: the worker
statistics, if their lost updates were of interest for themselves; a 32-bit `int` in the
analyzer's comparators; and the flight recorder, once the code has one.
