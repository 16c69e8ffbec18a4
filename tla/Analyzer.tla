------------------------------ MODULE Analyzer ------------------------------
(* The trace analyzer, 02-execution-tracer/exercises/ex4-traceagent/analyzer *)
(* with the three recorders of solution.diff: one pass over the events of an *)
(* execution trace, with a small state machine per goroutine.  The traced    *)
(* program and the reader of golang.org/x/exp/trace are the environment:     *)
(* they let time pass, move goroutines between states and deliver the events *)
(* of it in time order.  A frame is left out, a start function is a name, a  *)
(* blocking site with its reason is one key.                                 *)
EXTENDS Naturals, Sequences, FiniteSets, FiniteSetsExt, Functions

CONSTANTS
  Goroutines,
  StartFunc,      \* the function each was started with
  Sites,          \* the places and reasons goroutines block at
  minSchedWait,   \* 1 ms in the code
  maxReported,    \* 50 in the code
  MaxTime,        \* bound on the clock
  MaxEvents       \* bound on the events of the trace

ASSUME AnalyzerAssumption ==
  /\ IsFiniteSet(Goroutines) /\ IsFiniteSet(Sites)
  /\ minSchedWait \in Nat \ {0} /\ maxReported \in Nat
  /\ MaxTime \in Nat \ {0} /\ MaxEvents \in Nat

Buckets == {"running", "runnable", "waiting", "syscall"}
Outside == {"undetermined", "notexist"}
GoStates == Buckets \union Outside
NoSite == "none"
NoName == "(unknown)"

(* The transitions the tracer emits.                                         *)
Edges ==
  (Outside \X {"runnable", "syscall"}) \union ({"undetermined"} \X {"running", "waiting"})
    \union {<<"runnable", "running">>, <<"waiting", "runnable">>, <<"waiting", "running">>}
    \union ({"running"} \X {"runnable", "waiting", "syscall", "notexist"})
    \union ({"syscall"} \X {"running", "runnable", "notexist"})

VARIABLES
  clock, events,
  actual,        \* ghost: the state each goroutine really is in
  lasted,        \* ghost: how long it has been in it
  spent,         \* ghost: the time it spent in each state since first seen
  gs,            \* the goroutines the analysis has seen
  state, since, buckets, maxSchedWait, blockSite, startFunc,   \* its gInfo's
  blocks,        \* per site: count, total and max
  schedWaits,
  start, end,    \* of the trace, as observed; 0 before the first event
  outcome        \* of Analyze: "reading", "summary" or "error"

program == <<actual, lasted, spent>>
gInfo == <<state, since, buckets, maxSchedWait, blockSite, startFunc>>
analysis == <<gs, gInfo, blocks, schedWaits>>
observed == <<start, end>>
vars == <<clock, events, program, analysis, observed, outcome>>

NoTime == [b \in Buckets |-> 0]

Init ==
  /\ clock = 1 /\ events = 0
  /\ actual = [g \in Goroutines |-> "undetermined"]
  /\ lasted = [g \in Goroutines |-> 0] /\ spent = [g \in Goroutines |-> NoTime]
  /\ gs = {} /\ state = [g \in Goroutines |-> "undetermined"]
  /\ since = [g \in Goroutines |-> 0] /\ buckets = [g \in Goroutines |-> NoTime]
  /\ maxSchedWait = [g \in Goroutines |-> 0]
  /\ blockSite = [g \in Goroutines |-> NoSite]
  /\ startFunc = [g \in Goroutines |-> NoName]
  /\ blocks = [s \in Sites |-> [count |-> 0, total |-> 0, max |-> 0]]
  /\ schedWaits = <<>> /\ start = 0 /\ end = 0 /\ outcome = "reading"

Larger(x, y) == IF x > y THEN x ELSE y
Charged(g, from, upTo, began) ==
  IF from \in Buckets THEN [buckets[g] EXCEPT ![from] = @ + (upTo - began)] ELSE buckets[g]
-----------------------------------------------------------------------------
(* Mutants.                                                                  *)
SinceAdvanced(g) == clock
RestartedByReassertion(g) == clock
-----------------------------------------------------------------------------
(* Time passes in the traced program.                                        *)
Elapse ==
  /\ outcome = "reading" /\ clock < MaxTime
  /\ clock' = clock + 1
  /\ lasted' = [g \in Goroutines |-> lasted[g] + 1]
  /\ spent' = [g \in Goroutines |->
                 IF actual[g] \in Buckets THEN [spent[g] EXCEPT ![actual[g]] = @ + 1]
                                          ELSE spent[g]]
  /\ UNCHANGED <<events, actual, analysis, observed, outcome>>

observe ==
  /\ outcome = "reading" /\ events < MaxEvents
  /\ events' = events + 1
  /\ start' = IF start = 0 THEN clock ELSE start
  /\ end' = clock

(* The gInfo of g is made on first sight, with the time of that.             *)
SinceOf(g) == IF g \in gs THEN since[g] ELSE clock

(* Some events carry no stack.                                               *)
noteStack(g) ==
  startFunc' \in {[startFunc EXCEPT ![g] = n] :
                    n \in IF startFunc[g] = NoName THEN {NoName, StartFunc[g]}
                                                   ELSE {startFunc[g]}}

(* What the two recorders of an interval that just ended read.               *)
Began(g) == SinceOf(g)

recordSchedWait(g, from, to) ==
  LET wait == clock - Began(g)
      ends == from = "runnable" /\ to = "running"
  IN /\ maxSchedWait' = IF ends THEN [maxSchedWait EXCEPT ![g] = Larger(@, wait)]
                                ELSE maxSchedWait
     /\ schedWaits' = IF ends /\ wait >= minSchedWait
                        THEN Append(schedWaits, [g |-> g, at |-> Began(g), wait |-> wait])
                        ELSE schedWaits

recordBlocking(g, from, to, site) ==
  LET d == clock - Began(g)
      wakes == from = "waiting" /\ blockSite[g] # NoSite
  IN /\ blockSite' = CASE to = "waiting" -> [blockSite EXCEPT ![g] = site]
                       [] wakes -> [blockSite EXCEPT ![g] = NoSite]
                       [] OTHER -> blockSite
     /\ blocks' = IF wakes
          THEN [blocks EXCEPT ![blockSite[g]] =
                  [count |-> @.count + 1, total |-> @.total + d, max |-> Larger(@.max, d)]]
          ELSE blocks

recordStateTime(g, from) ==
  /\ buckets' = [buckets EXCEPT ![g] = Charged(g, from, clock, SinceOf(g))]
  /\ since' = [since EXCEPT ![g] = clock]

(* A goroutine changes its state: the whole body of Analyze's loop.  A new   *)
(* goroutine does not exist before; one that ran before the trace began is   *)
(* undetermined.  An ID is not used again.                                   *)
Transition(g, from, to, site) ==
  /\ observe
  /\ <<from, to>> \in Edges
  /\ IF g \in gs THEN from = actual[g] /\ from # "notexist" ELSE from \in Outside
  /\ site # NoSite <=> to = "waiting"
  /\ actual' = [actual EXCEPT ![g] = to] /\ lasted' = [lasted EXCEPT ![g] = 0]
  /\ gs' = gs \union {g} /\ noteStack(g)
  /\ recordSchedWait(g, from, to) /\ recordBlocking(g, from, to, site)
  /\ recordStateTime(g, from) /\ state' = [state EXCEPT ![g] = to]
  /\ UNCHANGED <<clock, spent, outcome>>

(* The tracer re-asserts a state at a generation boundary.                   *)
SinceAfterReassertion(g) == since[g]

Reassert(g) ==
  /\ observe
  /\ actual[g] \in Buckets
  /\ noteStack(g) /\ since' = [since EXCEPT ![g] = SinceAfterReassertion(g)]
  /\ UNCHANGED <<clock, program, gs, state, buckets, maxSchedWait, blockSite, blocks,
                 schedWaits, outcome>>

(* Events that are no transitions change nothing, those of a proc only this. *)
ProcTransition ==
  /\ observe
  /\ UNCHANGED <<clock, program, analysis, outcome>>

(* io.EOF: flush.  The intervals still open are charged.                     *)
flush ==
  /\ outcome = "reading"
  /\ buckets' = [g \in Goroutines |->
                   IF g \in gs THEN Charged(g, state[g], end, since[g]) ELSE buckets[g]]
  /\ since' = [g \in Goroutines |-> IF g \in gs THEN end ELSE since[g]]
  /\ outcome' = "summary"
  /\ UNCHANGED <<clock, events, program, gs, state, maxSchedWait, blockSite, startFunc, blocks,
                 schedWaits, observed>>

ReadFails ==
  /\ outcome = "reading"
  /\ outcome' = "error"
  /\ UNCHANGED <<clock, events, program, analysis, observed>>

Next ==
  \/ Elapse \/ ProcTransition \/ flush \/ ReadFails
  \/ \E g \in Goroutines :
       \/ Reassert(g)
       \/ \E e \in Edges, site \in Sites \union {NoSite} : Transition(g, e[1], e[2], site)

Spec == Init /\ [][Next]_vars
-----------------------------------------------------------------------------
(* summary(): the goroutines by start function, the sites that blocked most, *)
(* the longest waits.                                                        *)
GroupOf(n) ==
  LET members == {g \in gs : startFunc[g] = n}
  IN [startFunc |-> n, count |-> Cardinality(members),
      time |-> [b \in Buckets |-> SumFunction([g \in members |-> buckets[g][b]])],
      maxSchedWait |-> Max({maxSchedWait[g] : g \in members})]

Groups == {GroupOf(n) : n \in {startFunc[g] : g \in gs}}

(* slices.SortFunc by values, the largest first and equal ones in any order. *)
Descending(S, value) ==
  CHOOSE s \in Bijection(1..Cardinality(S), S) :
    \A i, j \in DOMAIN s : i < j => value[s[i]] >= value[s[j]]

truncate(s) == IF Len(s) > maxReported THEN SubSeq(s, 1, maxReported) ELSE s

TopBlocking ==
  LET used == {s \in Sites : blocks[s].count > 0}
  IN truncate(Descending(used, [s \in used |-> blocks[s].total]))

LongestSchedWaits ==
  LET all == DOMAIN schedWaits
      longest == truncate(Descending(all, [i \in all |-> schedWaits[i].wait]))
  IN [i \in DOMAIN longest |-> schedWaits[longest[i]]]
-----------------------------------------------------------------------------
TypeOK ==
  /\ clock \in 1..MaxTime /\ events \in 0..MaxEvents
  /\ actual \in [Goroutines -> GoStates] /\ lasted \in [Goroutines -> Nat]
  /\ spent \in [Goroutines -> [Buckets -> Nat]] /\ gs \subseteq Goroutines
  /\ state \in [Goroutines -> GoStates] /\ since \in [Goroutines -> 0..MaxTime]
  /\ buckets \in [Goroutines -> [Buckets -> Nat]] /\ maxSchedWait \in [Goroutines -> Nat]
  /\ blockSite \in [Goroutines -> Sites \union {NoSite}]
  /\ startFunc \in [Goroutines -> {StartFunc[g] : g \in Goroutines} \union {NoName}]
  /\ blocks \in [Sites -> [count : Nat, total : Nat, max : Nat]]
  /\ schedWaits \in Seq([g : gs, at : 1..MaxTime, wait : 1..MaxTime])
  /\ start \in 0..MaxTime /\ end \in 0..clock /\ outcome \in {"reading", "summary", "error"}

(* What is not charged to b yet: while reading, the interval under way; in   *)
(* the end, what came after the last transition of any goroutine or proc     *)
(* (the comment at analyzer.go:233 promises to charge up to the last event). *)
Uncharged(g, b) ==
  IF b # actual[g] THEN 0 ELSE IF outcome = "summary" THEN clock - end ELSE lasted[g]

(* The buckets of a goroutine hold the time it really spent in each state    *)
(* since it was first seen, however it got there and however often its state *)
(* was re-asserted.                                                          *)
BucketsTrue ==
  TypeOK /\ \A g \in gs : /\ state[g] = actual[g]
                          /\ \A b \in Buckets : buckets[g][b] + Uncharged(g, b) = spent[g][b]

(* Blocked time by site and by goroutine are the same time, but for waits    *)
(* that have not ended.                                                      *)
BlockedAgrees ==
  LET asleep == {g \in gs : outcome = "summary" /\ actual[g] = "waiting"}
  IN SumFunction([g \in gs |-> buckets[g]["waiting"]])
       = SumFunction([s \in Sites |-> blocks[s].total])
           + SumFunction([g \in asleep |-> end - (clock - lasted[g])])

Ended(i) == schedWaits[i].at + schedWaits[i].wait

(* The waits listed for one goroutine lie one after another within the       *)
(* trace, its longest is among them if it is long enough to be listed, and   *)
(* together they are no longer than its time in the runnable state.          *)
WaitsAgree ==
  \A g \in gs :
    LET own == {i \in DOMAIN schedWaits : schedWaits[i].g = g}
    IN /\ \A i \in own :
            /\ schedWaits[i].at >= start /\ Ended(i) <= end
            /\ \A j \in own : j < i => Ended(j) <= schedWaits[i].at
            /\ schedWaits[i].wait <= maxSchedWait[g]
       /\ maxSchedWait[g] >= minSchedWait =>
            \E i \in own : schedWaits[i].wait = maxSchedWait[g]
       /\ maxSchedWait[g] <= spent[g]["runnable"]
       /\ SumFunction([i \in own |-> schedWaits[i].wait]) <= spent[g]["runnable"]

(* The report agrees with itself: every goroutine is in one group, no group  *)
(* was there longer than its members' trace, the longest wait of all groups  *)
(* heads the list, and what is cut off is no worse than what is shown.       *)
ReportAgrees ==
  outcome = "summary" =>
    /\ SumFunction([r \in Groups |-> r.count]) = Cardinality(gs)
    /\ \A r \in Groups : SumFunction(r.time) <= r.count * (end - start)
    /\ \A r \in Groups : r.maxSchedWait >= minSchedWait /\ maxReported > 0 =>
         LongestSchedWaits[1].wait >= r.maxSchedWait
    /\ \A s \in Sites : blocks[s].count > 0 =>
         \/ \E i \in DOMAIN TopBlocking : TopBlocking[i] = s
         \/ \A i \in DOMAIN TopBlocking : blocks[TopBlocking[i]].total >= blocks[s].total

SummaryTrue == BlockedAgrees /\ WaitsAgree /\ ReportAgrees
=============================================================================
