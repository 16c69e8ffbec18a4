------------------------------- MODULE Lookup -------------------------------
(* The lookup service, 02-execution-tracer/exercises/ex2-flightrecorder:     *)
(* workers read a cache under an RWMutex, a refresher rewrites it, and a     *)
(* reporter takes the workers' latencies off a buffered channel until stop   *)
(* is closed.  Every fourth refresh rebuilds the whole cache and verifies it *)
(* for 250 ms: with the lock held in the shipped build, outside it in        *)
(* solution.diff.  An entry is modelled by the number of the refresh that    *)
(* wrote it (0 for the initial load), a latency by its place in the channel. *)
(* What the reporter prints changes nothing.                                 *)
EXTENDS Naturals, FiniteSets

CONSTANTS
  Workers,   \* the worker goroutines, 8 in the code
  Entries,   \* the keys of the cache, 50 000 in the code
  Cap,       \* the capacity of latencies, 1024 in the code
  Rounds     \* ticks of the refresher before stop: 12 s / 2 s = 6 in the code

ASSUME LookupAssumption ==
  IsFiniteSet(Workers) /\ Cap \in Nat \ {0} /\ Rounds \in Nat

VARIABLES
  build,         \* chosen in LookupInit
  cache,         \* the refresh that wrote each entry
  round,         \* n of refresher's loop
  verified,      \* the last full refresh that has ended
  refresher,     \* "wait", "verify", "lock" (waits for it), "write", "gone"
  holds,         \* the refresher has the write lock
  pc,            \* per worker: "check", "rlock", "handle", "send", "gone"
  promised,      \* per worker: verified when its request began
  slow,          \* workers whose request has waited for a verification
  latencies,     \* how many are in the channel
  stop, reporterGone, finished

refreshing == <<cache, round, verified, refresher, holds>>
serving == <<pc, promised>>
lookupVars == <<build, refreshing, serving, slow, latencies, stop, reporterGone, finished>>

LookupInit ==
  /\ build \in {"shipped", "solution"}
  /\ cache = [e \in Entries |-> 0] /\ round = 0 /\ verified = 0
  /\ refresher = "wait" /\ holds = FALSE
  /\ pc = [w \in Workers |-> "check"] /\ promised = [w \in Workers |-> 0]
  /\ slow = {} /\ latencies = 0
  /\ stop = FALSE /\ reporterGone = FALSE /\ finished = FALSE

Running == ~finished
IsFull(n) == n % 4 = 3
Readers == {w \in Workers : pc[w] = "handle"}
-----------------------------------------------------------------------------
(* Mutants.                                                                  *)
AlwaysVerifiesLocked == TRUE
WriteReturnsLocked ==
  /\ Running /\ refresher = "write"
  /\ cache' = [e \in Entries |-> round + 1]
  /\ verified' = IF IsFull(round) THEN round + 1 ELSE verified
  /\ round' = round + 1 /\ holds' = ~IsFull(round) /\ refresher' = "wait"
  /\ UNCHANGED <<build, serving, slow, latencies, stop, reporterGone, finished>>
-----------------------------------------------------------------------------
VerifiesLocked == build = "shipped"

(* The ticker fires and the refresher calls refresh.                         *)
Tick ==
  /\ Running /\ refresher = "wait" /\ round < Rounds
  /\ refresher' = IF IsFull(round) /\ ~VerifiesLocked THEN "verify" ELSE "lock"
  /\ UNCHANGED <<build, cache, round, verified, holds, serving, slow, latencies, stop,
                 reporterGone, finished>>

Lock ==
  /\ Running /\ refresher = "lock" /\ Readers = {}
  /\ holds' = TRUE
  /\ refresher' = IF IsFull(round) /\ VerifiesLocked THEN "verify" ELSE "write"
  /\ UNCHANGED <<build, cache, round, verified, serving, slow, latencies, stop,
                 reporterGone, finished>>

(* The 250 ms: who waits for the read lock meanwhile breaches slowThreshold. *)
Verify ==
  /\ Running /\ refresher = "verify"
  /\ slow' = IF holds THEN slow \union {w \in Workers : pc[w] = "rlock"} ELSE slow
  /\ refresher' = IF holds THEN "write" ELSE "lock"
  /\ UNCHANGED <<build, cache, round, verified, holds, serving, latencies, stop,
                 reporterGone, finished>>

(* A full refresh replaces every entry, an incremental one touches a few.    *)
Touched(n) == IF IsFull(n) THEN {Entries} ELSE SUBSET Entries \ {{}}

Write ==
  /\ Running /\ refresher = "write"
  /\ \E some \in Touched(round) :
       cache' = [e \in Entries |-> IF e \in some THEN round + 1 ELSE cache[e]]
  /\ verified' = IF IsFull(round) THEN round + 1 ELSE verified
  /\ round' = round + 1 /\ holds' = FALSE /\ refresher' = "wait"
  /\ UNCHANGED <<build, serving, slow, latencies, stop, reporterGone, finished>>

RefresherLeaves ==
  /\ Running /\ refresher = "wait" /\ stop
  /\ refresher' = "gone"
  /\ UNCHANGED <<build, cache, round, verified, holds, serving, slow, latencies, stop,
                 reporterGone, finished>>
-----------------------------------------------------------------------------
(* The select with a default: stop, if closed, is always taken.              *)
Check(w) ==
  /\ Running /\ pc[w] = "check"
  /\ pc' = [pc EXCEPT ![w] = IF stop THEN "gone" ELSE "rlock"]
  /\ promised' = [promised EXCEPT ![w] = verified]
  /\ UNCHANGED <<build, refreshing, slow, latencies, stop, reporterGone, finished>>

(* An RWMutex lets no new reader in while a writer has it or waits for it.   *)
RLock(w) ==
  /\ Running /\ pc[w] = "rlock" /\ ~holds /\ refresher # "lock"
  /\ pc' = [pc EXCEPT ![w] = "handle"]
  /\ UNCHANGED <<build, refreshing, promised, slow, latencies, stop, reporterGone, finished>>

handle(w) ==
  /\ Running /\ pc[w] = "handle"
  /\ pc' = [pc EXCEPT ![w] = "send"]
  /\ UNCHANGED <<build, refreshing, promised, slow, latencies, stop, reporterGone, finished>>

Send(w) ==
  /\ Running /\ pc[w] = "send" /\ latencies < Cap
  /\ latencies' = latencies + 1
  /\ pc' = [pc EXCEPT ![w] = "check"] /\ slow' = slow \ {w}
  /\ UNCHANGED <<build, refreshing, promised, stop, reporterGone, finished>>

Report ==
  /\ Running /\ ~reporterGone /\ latencies > 0
  /\ latencies' = latencies - 1
  /\ UNCHANGED <<build, refreshing, serving, slow, stop, reporterGone, finished>>

ReporterLeaves ==
  /\ Running /\ ~reporterGone /\ stop
  /\ reporterGone' = TRUE
  /\ UNCHANGED <<build, refreshing, serving, slow, latencies, stop, finished>>

CloseStop ==
  /\ ~stop
  /\ stop' = TRUE
  /\ UNCHANGED <<build, refreshing, serving, slow, latencies, reporterGone, finished>>

(* bg.Wait: for the workers and the refresher, not for the reporter.         *)
Finish ==
  /\ Running /\ stop /\ refresher = "gone" /\ \A w \in Workers : pc[w] = "gone"
  /\ finished' = TRUE
  /\ UNCHANGED <<build, refreshing, serving, slow, latencies, stop, reporterGone>>

refresh == Lock \/ Verify \/ Write
worker(w) == Check(w) \/ RLock(w) \/ handle(w) \/ Send(w)
LookupNext ==
  \/ Tick \/ refresh \/ RefresherLeaves \/ Report \/ ReporterLeaves
  \/ CloseStop \/ Finish \/ \E w \in Workers : worker(w)

LookupSpec == LookupInit /\ [][LookupNext]_lookupVars

(* Goroutines that can go on do.  A select with several ready cases picks    *)
(* one at random, so the refresher cannot overlook stop for ever; readers    *)
(* blocked on an RWMutex and senders blocked on a channel wait in a queue,   *)
(* so they are not passed over for ever.                                     *)
FairSpec ==
  /\ LookupSpec /\ WF_lookupVars(CloseStop) /\ WF_lookupVars(Finish)
  /\ WF_lookupVars(refresh) /\ SF_lookupVars(RefresherLeaves)
  /\ WF_lookupVars(Report) /\ WF_lookupVars(ReporterLeaves)
  /\ \A w \in Workers : /\ WF_lookupVars(Check(w)) /\ SF_lookupVars(RLock(w))
                        /\ WF_lookupVars(handle(w)) /\ SF_lookupVars(Send(w))
-----------------------------------------------------------------------------
LookupTypeOK ==
  /\ build \in {"shipped", "solution"}
  /\ cache \in [Entries -> 0..Rounds] /\ round \in 0..Rounds /\ verified \in 0..Rounds
  /\ refresher \in {"wait", "verify", "lock", "write", "gone"} /\ holds \in BOOLEAN
  /\ pc \in [Workers -> {"check", "rlock", "handle", "send", "gone"}]
  /\ promised \in [Workers -> 0..Rounds] /\ slow \subseteq Workers /\ latencies \in 0..Cap
  /\ stop \in BOOLEAN /\ reporterGone \in BOOLEAN /\ finished \in BOOLEAN

(* The map is never written while a request reads it (a fatal error of the   *)
(* Go runtime): holds for the swap of solution.diff as for the rest.         *)
NoMapRace == refresher = "write" => Readers = {}

(* Whatever entry a request looks up, it is no older than the last full      *)
(* refresh that ended before the request began.                              *)
FreshEnough == \A w \in Readers : \A e \in Entries : cache[e] >= promised[w]

(* Only the shipped build makes a request wait out a verification: what the  *)
(* exercise has one find, and solution.diff repairs.                         *)
SlowOnlyShipped == slow # {} => build = "shipped"

(* What a request may count on.                                              *)
ServedWell == LookupTypeOK /\ NoMapRace /\ FreshEnough /\ SlowOnlyShipped

(* Shutdown hangs in one way only: the reporter has left, latencies is full, *)
(* and a worker waits to send (main.go:119, 159-160, 167).                   *)
Jammed == stop /\ reporterGone /\ latencies = Cap /\ \E w \in Workers : pc[w] = "send"

(* Every worker past its check sends once more: the room that takes.         *)
RoomForLast ==
  latencies + Cardinality({w \in Workers : pc[w] \in {"rlock", "handle", "send"}}) <= Cap

(* The program ends or is jammed; it does end if the channel has room for    *)
(* the requests under way when stop is closed.                               *)
Settles ==
  /\ <>(finished \/ []Jammed)
  /\ (stop /\ RoomForLast) ~> finished

(* main.go:99-100: "worker serves requests until stop is closed".            *)
WorkersStop == stop ~> \A w \in Workers : pc[w] = "gone"
=============================================================================
