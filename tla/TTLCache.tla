------------------------------ MODULE TTLCache ------------------------------
(* The cache of 01-race-detector/exercises/ex4-testing/ttlcache.go, under    *)
(* any number of goroutines that call Set and Get, with its janitor and the  *)
(* ticker that wakes it.  Get counts hits and misses under the read lock: by *)
(* a read and a write in the shipped build, atomically in solution.diff.     *)
(* Under the read lock nothing but the clock and the counters can change, so *)
(* RLock, the lookup and time.Now of a Get are one step, the count that      *)
(* follows another; Set and sweep change the map in one step under the lock. *)
(* New is CacheInit; Len and Stats only read.                                *)
EXTENDS Naturals, FiniteSets, Functions

CONSTANTS
  Keys, Values,
  Clients,      \* the goroutines that call Get
  TTL,          \* ttl
  SweepEvery,   \* sweepEvery
  Miss,         \* what a Get returns that finds nothing
  MaxTime,      \* bound on the clock
  MaxGets       \* bound on the Gets of a behaviour

ASSUME TTLCacheAssumption ==
  /\ IsFiniteSet(Keys) /\ IsFiniteSet(Clients) /\ Miss \notin Values
  /\ TTL \in Nat /\ SweepEvery \in Nat \ {0} /\ MaxTime \in Nat /\ MaxGets \in Nat

VARIABLES
  build,      \* chosen in CacheInit, as is
  clock,
  entries,    \* a function on the keys in the map
  hits, misses, swept,
  pc,         \* per client: "idle", "count", "store" (has read the counter)
  answer,     \* per client: what its Get has found
  seen,       \* per client: the counter as it read it
  janitor,    \* "wait", "sweep", "lock", "gone"
  ticked,     \* the ticker's channel holds a tick
  now,        \* the time sweep has read (like seen, 0 when not in use)
  closed,     \* done is closed
  answered,   \* ghost: the Gets that have found something, and the others
  inserted    \* ghost: the Sets of a key that was not in the map

sweeping == <<janitor, ticked, now>>
cacheVars == <<build, clock, entries, hits, misses, swept, pc, answer, seen,
               sweeping, closed, answered, inserted>>

CacheInit ==
  /\ build \in {"shipped", "solution"}
  /\ clock = 0 /\ entries = <<>> /\ hits = 0 /\ misses = 0 /\ swept = 0
  /\ pc = [c \in Clients |-> "idle"] /\ answer = [c \in Clients |-> Miss]
  /\ seen = [c \in Clients |-> 0]
  /\ janitor = "wait" /\ ticked = FALSE /\ now = 0 /\ closed = FALSE
  /\ answered = [hit |-> 0, miss |-> 0] /\ inserted = 0

Readers == {c \in Clients : pc[c] # "idle"}
IsHit(c) == answer[c] # Miss
Counter(c) == IF IsHit(c) THEN hits ELSE misses
-----------------------------------------------------------------------------
(* Mutants.                                                                  *)
NotBefore(e, t) == t >= e.expiresAt
AtomicNowhere == FALSE
JanitorLeavesAtTick ==
  /\ janitor = "wait" /\ closed /\ ticked
  /\ janitor' = "gone"
  /\ UNCHANGED <<build, clock, entries, hits, misses, swept, pc, answer, seen, ticked, now,
                 closed, answered, inserted>>
-----------------------------------------------------------------------------
Set(k, v) ==
  /\ Readers = {}
  /\ entries' = [x \in DOMAIN entries \union {k} |->
                   IF x = k THEN [value |-> v, expiresAt |-> clock + TTL] ELSE entries[x]]
  /\ inserted' = IF k \in DOMAIN entries THEN inserted ELSE inserted + 1
  /\ UNCHANGED <<build, clock, hits, misses, swept, pc, answer, seen, sweeping, closed,
                 answered>>

Expired(k) == clock > entries[k].expiresAt

Get(c, k) ==
  /\ pc[c] = "idle" /\ answered.hit + answered.miss < MaxGets
  /\ LET found == k \in DOMAIN entries /\ ~Expired(k)
     IN /\ answer' = [answer EXCEPT ![c] = IF found THEN entries[k].value ELSE Miss]
        /\ answered' = IF found THEN [answered EXCEPT !.hit = @ + 1]
                                ELSE [answered EXCEPT !.miss = @ + 1]
  /\ pc' = [pc EXCEPT ![c] = "count"]
  /\ UNCHANGED <<build, clock, entries, hits, misses, swept, seen, sweeping, closed, inserted>>

CountsAtomically == build = "solution"

(* The count takes the counter to n; the Get then releases its lock.         *)
CountTo(c, n) ==
  /\ hits' = IF IsHit(c) THEN n ELSE hits
  /\ misses' = IF IsHit(c) THEN misses ELSE n
  /\ pc' = [pc EXCEPT ![c] = "idle"] /\ seen' = [seen EXCEPT ![c] = 0]
  /\ UNCHANGED <<build, clock, entries, swept, answer, sweeping, closed, answered, inserted>>

Add(c) == pc[c] = "count" /\ CountsAtomically /\ CountTo(c, Counter(c) + 1)

ReadCounter(c) ==
  /\ pc[c] = "count" /\ ~CountsAtomically
  /\ seen' = [seen EXCEPT ![c] = Counter(c)]
  /\ pc' = [pc EXCEPT ![c] = "store"]
  /\ UNCHANGED <<build, clock, entries, hits, misses, swept, answer, sweeping, closed,
                 answered, inserted>>

WriteCounter(c) == pc[c] = "store" /\ CountTo(c, seen[c] + 1)

Close ==
  /\ ~closed  \* a second Close panics
  /\ closed' = TRUE
  /\ UNCHANGED <<build, clock, entries, hits, misses, swept, pc, answer, seen, sweeping,
                 answered, inserted>>

(* Time passes.  The ticker drops a tick that nobody has taken.              *)
Elapse ==
  /\ clock < MaxTime
  /\ clock' = clock + 1
  /\ ticked' = (ticked \/ (clock + 1) % SweepEvery = 0)
  /\ UNCHANGED <<build, entries, hits, misses, swept, pc, answer, seen, janitor, now, closed,
                 answered, inserted>>

TakeTick ==
  /\ janitor = "wait" /\ ticked
  /\ janitor' = "sweep" /\ ticked' = FALSE
  /\ UNCHANGED <<build, clock, entries, hits, misses, swept, pc, answer, seen, now, closed,
                 answered, inserted>>

ReadClock ==
  /\ janitor = "sweep"
  /\ janitor' = "lock" /\ now' = clock
  /\ UNCHANGED <<build, clock, entries, hits, misses, swept, pc, answer, seen, ticked, closed,
                 answered, inserted>>

After(e, t) == t > e.expiresAt

sweep ==
  /\ janitor = "lock" /\ Readers = {}
  /\ LET dead == {k \in DOMAIN entries : After(entries[k], now)}
     IN /\ entries' = Restrict(entries, DOMAIN entries \ dead)
        /\ swept' = swept + Cardinality(dead)
  /\ janitor' = "wait" /\ now' = 0
  /\ UNCHANGED <<build, clock, hits, misses, pc, answer, seen, ticked, closed, answered,
                 inserted>>

JanitorLeaves ==
  /\ janitor = "wait" /\ closed
  /\ janitor' = "gone"
  /\ UNCHANGED <<build, clock, entries, hits, misses, swept, pc, answer, seen, ticked, now,
                 closed, answered, inserted>>

Count(c) == Add(c) \/ ReadCounter(c) \/ WriteCounter(c)
CacheNext ==
  \/ Elapse \/ Close \/ TakeTick \/ ReadClock \/ sweep \/ JanitorLeaves
  \/ \E c \in Clients : Count(c) \/ \E k \in Keys : Get(c, k)
  \/ \E k \in Keys, v \in Values : Set(k, v)

CacheSpec == CacheInit /\ [][CacheNext]_cacheVars

(* Time goes on, a Get under way ends, the janitor gets the lock it waits    *)
(* for (a waiting writer keeps new readers out), and its select, random      *)
(* among ready cases, does not overlook done for ever.                       *)
CacheFairSpec ==
  /\ CacheSpec
  /\ WF_cacheVars(Elapse) /\ \A c \in Clients : WF_cacheVars(Count(c))
  /\ SF_cacheVars(TakeTick) /\ WF_cacheVars(ReadClock)
  /\ SF_cacheVars(sweep) /\ SF_cacheVars(JanitorLeaves)
-----------------------------------------------------------------------------
Counting(hit) == Cardinality({c \in Readers : IsHit(c) = hit})

CacheTypeOK ==
  /\ build \in {"shipped", "solution"} /\ clock \in 0..MaxTime /\ now \in 0..MaxTime
  /\ DOMAIN entries \subseteq Keys
  /\ \A k \in DOMAIN entries : entries[k] \in [value : Values, expiresAt : 0..(MaxTime + TTL)]
  /\ hits \in 0..MaxGets /\ misses \in 0..MaxGets /\ swept \in Nat /\ inserted \in Nat
  /\ pc \in [Clients -> {"idle", "count", "store"}]
  /\ answer \in [Clients -> Values \union {Miss}] /\ seen \in [Clients -> 0..MaxGets]
  /\ janitor \in {"wait", "sweep", "lock", "gone"} /\ ticked \in BOOLEAN /\ closed \in BOOLEAN
  /\ answered \in [hit : 0..MaxGets, miss : 0..MaxGets]

(* Every entry that came into the map is still there or counted in swept.    *)
SweptAddsUp == swept + Cardinality(DOMAIN entries) = inserted

(* The solution build counts every Get; the shipped one may lose counts (the *)
(* comment at ttlcache.go:58 says otherwise), but never the last one: that   *)
(* is why the test's "hits == 0" (ttlcache_test.go:74) cannot notice.        *)
StatsAddUp ==
  /\ build = "solution" => /\ hits + Counting(TRUE) = answered.hit
                           /\ misses + Counting(FALSE) = answered.miss
  /\ hits + Counting(TRUE) <= answered.hit /\ misses + Counting(FALSE) <= answered.miss
  /\ answered.hit > 0 /\ Counting(TRUE) = 0 => hits > 0

CountsAddUp == CacheTypeOK /\ SweptAddsUp /\ StatsAddUp

(* A client sees a map that forgets each key TTL after it was last set; what *)
(* the janitor does, with the clock it read before it had the lock, and      *)
(* whether entries have been swept, makes no difference (ttlcache.go:51-52). *)
Map == INSTANCE ExpiringMap WITH
  map <- Restrict(entries, {k \in DOMAIN entries : ~Expired(k)})
Transparent == Map!Spec

(* An expired entry is swept at the next tick at the latest, unless it is    *)
(* set again or the cache closed; once it is closed the janitor leaves.      *)
Sweeps ==
  /\ \A k \in Keys :
       (k \in DOMAIN entries /\ Expired(k) /\ clock + SweepEvery <= MaxTime) ~>
         (closed \/ k \notin DOMAIN entries \/ ~Expired(k))
  /\ closed ~> (janitor = "gone")
=============================================================================
