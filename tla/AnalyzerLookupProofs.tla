------------------------ MODULE AnalyzerLookupProofs ------------------------
(* What holds of two programs of 02-execution-tracer: the trace analyzer,    *)
(* and after it the lookup service with its flight recorder.                 *)
(*                                                                           *)
(* The time the analyzer charges to the states of goroutines, for any number *)
(* of goroutines, any trace and any point at which it ends.  BucketsTrue is  *)
(* about what is charged; the inductive invariant adds where it is charged   *)
(* from: since is when the goroutine entered the state it is in, whoever of  *)
(* the three recorders reads it.  The summary of it follows from sums.       *)
EXTENDS Analyzer, Lookup, SumTheorems

(* since lies within the trace, and while events are read it is the moment   *)
(* of the last real change of state.                                         *)
Timely ==
  /\ start \in 0..end
  /\ \A g \in gs : /\ start \in 1..since[g] /\ since[g] <= end
                   /\ outcome # "summary" => since[g] + lasted[g] = clock

(* Nothing is known of a goroutine before its first event.                   *)
Unseen ==
  \A g \in Goroutines \ gs :
    actual[g] = "undetermined" /\ spent[g] = NoTime /\ buckets[g] = NoTime

(* The waits listed for one goroutine lie within the trace, one after        *)
(* another, up to its last change of state.                                  *)
WaitsInOrder ==
  \A i \in DOMAIN schedWaits :
    /\ schedWaits[i].at >= start /\ Ended(i) <= since[schedWaits[i].g]
    /\ \A j \in DOMAIN schedWaits :
         j < i /\ schedWaits[j].g = schedWaits[i].g => Ended(j) <= schedWaits[i].at

(* The longest wait of a goroutine bounds those listed, is among them if it  *)
(* is long enough, and is part of the time charged to the runnable state; a  *)
(* goroutine not seen yet has none.                                          *)
LongestListed ==
  /\ \A i \in DOMAIN schedWaits : schedWaits[i].wait <= maxSchedWait[schedWaits[i].g]
  /\ \A g \in gs :
       /\ maxSchedWait[g] <= buckets[g]["runnable"]
       /\ maxSchedWait[g] >= minSchedWait =>
            \E i \in DOMAIN schedWaits :
              schedWaits[i].g = g /\ schedWaits[i].wait = maxSchedWait[g]
  /\ \A g \in Goroutines \ gs : maxSchedWait[g] = 0

Inv == BucketsTrue /\ Timely /\ Unseen
WaitInv == Inv /\ WaitsInOrder /\ LongestListed

-----------------------------------------------------------------------------
(* The empty analysis.                                                       *)
LEMMA InvInit == Init => WaitInv
<1> SUFFICES ASSUME Init PROVE WaitInv
  OBVIOUS
<1>1. NoTime \in [Buckets -> Nat]
  BY DEF NoTime
<1>2. TypeOK
  <2>1. clock \in 1..MaxTime /\ events \in 0..MaxEvents /\ start \in 0..MaxTime /\ end \in 0..clock
    BY AnalyzerAssumption DEF Init
  <2>2. /\ actual \in [Goroutines -> GoStates] /\ state \in [Goroutines -> GoStates]
        /\ lasted \in [Goroutines -> Nat] /\ spent \in [Goroutines -> [Buckets -> Nat]]
        /\ buckets \in [Goroutines -> [Buckets -> Nat]] /\ gs \subseteq Goroutines
    BY <1>1 DEF Init, GoStates, Outside
  <2>3. /\ since \in [Goroutines -> 0..MaxTime] /\ maxSchedWait \in [Goroutines -> Nat]
        /\ blockSite \in [Goroutines -> Sites \union {NoSite}]
    BY AnalyzerAssumption DEF Init
  <2>4. startFunc \in [Goroutines -> {StartFunc[g] : g \in Goroutines} \union {NoName}]
    BY DEF Init
  <2>5. blocks \in [Sites -> [count : Nat, total : Nat, max : Nat]]
    BY DEF Init
  <2>6. schedWaits \in Seq([g : gs, at : 1..MaxTime, wait : 1..MaxTime])
    BY DEF Init
  <2>7. outcome \in {"reading", "summary", "error"}
    BY DEF Init
  <2> QED
    BY <2>1, <2>2, <2>3, <2>4, <2>5, <2>6, <2>7 DEF TypeOK
<1>3. BucketsTrue /\ Timely /\ Unseen
  BY <1>2 DEF Init, BucketsTrue, Timely, Unseen
<1>4. WaitsInOrder /\ LongestListed
  BY DEF Init, WaitsInOrder, LongestListed
<1> QED
  BY <1>3, <1>4 DEF WaitInv, Inv

(* What all recorders may rely on.                                           *)
LEMMA SinceWhen ==
  ASSUME Inv, NEW g \in Goroutines
  PROVE  SinceOf(g) \in 1..clock /\ SinceOf(g) \in 1..MaxTime /\ clock \in Nat
<1>1. clock \in 1..MaxTime /\ MaxTime \in Nat /\ since[g] \in 0..MaxTime /\ end \in 0..clock
  BY AnalyzerAssumption DEF Inv, BucketsTrue, TypeOK
<1>2. CASE g \in gs
  BY <1>1, <1>2 DEF Inv, Timely, SinceOf
<1>3. CASE g \notin gs
  BY <1>1, <1>3 DEF SinceOf
<1> QED
  BY <1>2, <1>3

LEMMA SeqOfMore ==
  ASSUME NEW S, NEW T, S \subseteq T, NEW s \in Seq(S)
  PROVE  s \in Seq(T) /\ \A x \in T : Append(s, x) \in Seq(T)
OBVIOUS

LEMMA SeqElement ==
  ASSUME NEW S, NEW s \in Seq(S), NEW i \in DOMAIN s
  PROVE  s[i] \in S
OBVIOUS

(* Charging keeps the buckets in their type, and touches one of them.        *)
LEMMA ChargedOne ==
  ASSUME buckets \in [Goroutines -> [Buckets -> Nat]], NEW g \in Goroutines,
         NEW from \in GoStates, NEW upTo \in Nat, NEW began \in Nat, began <= upTo
  PROVE  /\ Charged(g, from, upTo, began) \in [Buckets -> Nat]
         /\ \A b \in Buckets :
              Charged(g, from, upTo, began)[b] =
                buckets[g][b] + IF b = from THEN upTo - began ELSE 0
<1>1. buckets[g] \in [Buckets -> Nat] /\ upTo - began \in Nat
  OBVIOUS
<1>2. CASE from \in Buckets
  <2>1. Charged(g, from, upTo, began) = [buckets[g] EXCEPT ![from] = @ + (upTo - began)]
    BY <1>2 DEF Charged
  <2>2. buckets[g][from] + (upTo - began) \in Nat
    BY <1>1, <1>2
  <2> QED
    BY <1>1, <1>2, <2>1, <2>2
<1>3. CASE from \notin Buckets
  BY <1>1, <1>3 DEF Charged
<1> QED
  BY <1>2, <1>3

-----------------------------------------------------------------------------
(* A change of state closes one interval, charges it once, and opens         *)
(* another.                                                                  *)
LEMMA TransitionTypes ==
  ASSUME Inv, NEW g \in Goroutines, NEW e \in Edges, NEW site \in Sites \union {NoSite},
         Transition(g, e[1], e[2], site)
  PROVE  TypeOK'
<1> DEFINE from == e[1]
           to == e[2]
<1>1. from \in GoStates /\ to \in GoStates
  BY DEF Edges, GoStates, Buckets, Outside
<1>2. SinceOf(g) \in 1..clock /\ SinceOf(g) \in 1..MaxTime /\ clock \in Nat
  BY SinceWhen
<1>3. TypeOK /\ MaxTime \in Nat /\ minSchedWait \in Nat \ {0} /\ MaxEvents \in Nat
  BY AnalyzerAssumption DEF Inv, BucketsTrue
<1>4. /\ clock' \in 1..MaxTime /\ events' \in 0..MaxEvents /\ start' \in 0..MaxTime
      /\ end' \in 0..clock' /\ outcome' \in {"reading", "summary", "error"}
  BY <1>3 DEF TypeOK, Transition, observe
<1>5. /\ actual' \in [Goroutines -> GoStates] /\ state' \in [Goroutines -> GoStates]
      /\ lasted' \in [Goroutines -> Nat] /\ spent' \in [Goroutines -> [Buckets -> Nat]]
      /\ gs' \subseteq Goroutines
  BY <1>1, <1>3 DEF TypeOK, Transition
<1>6. since' \in [Goroutines -> 0..MaxTime]
  BY <1>3 DEF TypeOK, Transition, recordStateTime
<1>7. buckets' \in [Goroutines -> [Buckets -> Nat]]
  <2>1. Charged(g, from, clock, SinceOf(g)) \in [Buckets -> Nat]
    <3>1. buckets \in [Goroutines -> [Buckets -> Nat]]
      BY <1>3 DEF TypeOK
    <3>2. SinceOf(g) \in Nat /\ SinceOf(g) <= clock
      BY <1>2
    <3> HIDE DEF from
    <3> QED
      BY <1>1, <1>2, <3>1, <3>2, ChargedOne
  <2> QED
    BY <1>3, <2>1 DEF TypeOK, Transition, recordStateTime
<1>8. clock - Began(g) \in Nat /\ clock - Began(g) <= MaxTime
  BY <1>2, <1>3 DEF Began, TypeOK
<1>9. maxSchedWait' \in [Goroutines -> Nat]
  BY <1>3, <1>8 DEF TypeOK, Transition, recordSchedWait, Larger
<1>10. schedWaits' \in Seq([g : gs', at : 1..MaxTime, wait : 1..MaxTime])
  <2>1. gs \subseteq gs' /\ g \in gs'
    BY DEF Transition
  <2> DEFINE Listed == [g : gs, at : 1..MaxTime, wait : 1..MaxTime]
             wait == [g |-> g, at |-> Began(g), wait |-> clock - Began(g)]
  <2>2. schedWaits \in Seq(Listed) /\ Listed \subseteq Listed'
    BY <1>3, <2>1 DEF TypeOK
  <2>3. CASE clock - Began(g) >= minSchedWait
    <3>1. wait \in Listed'
      BY <1>2, <1>3, <1>8, <2>1, <2>3 DEF Began
    <3>2. schedWaits' = schedWaits \/ schedWaits' = Append(schedWaits, wait)
      BY DEF Transition, recordSchedWait
    <3> HIDE DEF Listed, wait
    <3>3. schedWaits \in Seq(Listed') /\ Append(schedWaits, wait) \in Seq(Listed')
      BY <2>2, <3>1, SeqOfMore
    <3>4. schedWaits' \in Seq(Listed')
      BY <3>2, <3>3
    <3> QED
      BY <3>4 DEF Listed
  <2>4. CASE ~(clock - Began(g) >= minSchedWait)
    <3>1. schedWaits' = schedWaits
      BY <2>4 DEF Transition, recordSchedWait
    <3> HIDE DEF Listed
    <3>2. schedWaits' \in Seq(Listed')
      BY <2>2, <3>1, SeqOfMore
    <3> QED
      BY <3>2 DEF Listed
  <2> QED
    BY <2>3, <2>4
<1>11. blockSite' \in [Goroutines -> Sites \union {NoSite}]
  BY <1>3 DEF TypeOK, Transition, recordBlocking
<1>12. blocks' \in [Sites -> [count : Nat, total : Nat, max : Nat]]
  <2>1. blockSite[g] \in Sites \union {NoSite} /\ blocks \in [Sites -> [count : Nat, total : Nat, max : Nat]]
    BY <1>3 DEF TypeOK
  <2>2. CASE from = "waiting" /\ blockSite[g] # NoSite
    <3> DEFINE was == blocks[blockSite[g]]
               is == [count |-> was.count + 1, total |-> was.total + (clock - Began(g)),
                      max |-> Larger(was.max, clock - Began(g))]
    <3>1. was \in [count : Nat, total : Nat, max : Nat]
      BY <2>1, <2>2
    <3>2. is \in [count : Nat, total : Nat, max : Nat]
      BY <1>8, <3>1 DEF Larger
    <3>3. blocks' = [blocks EXCEPT ![blockSite[g]] = is]
      BY <2>2 DEF Transition, recordBlocking
    <3> QED
      BY <2>1, <3>2, <3>3
  <2>3. CASE ~(from = "waiting" /\ blockSite[g] # NoSite)
    BY <2>1, <2>3 DEF Transition, recordBlocking
  <2> QED
    BY <2>2, <2>3
<1>13. startFunc' \in [Goroutines -> {StartFunc[h] : h \in Goroutines} \union {NoName}]
  BY <1>3 DEF TypeOK, Transition, noteStack
<1> QED
  BY <1>4, <1>5, <1>6, <1>7, <1>9, <1>10, <1>11, <1>12, <1>13 DEF TypeOK

LEMMA TransitionInv ==
  ASSUME Inv, NEW g \in Goroutines, NEW e \in Edges, NEW site \in Sites \union {NoSite},
         Transition(g, e[1], e[2], site)
  PROVE  Inv'
<1> DEFINE from == e[1]
           to == e[2]
<1>1. from \in GoStates /\ to \in GoStates
  BY DEF Edges, GoStates, Buckets, Outside
<1>2. SinceOf(g) \in 1..clock /\ SinceOf(g) \in 1..MaxTime /\ clock \in Nat
  BY SinceWhen
<1>3. TypeOK /\ TypeOK'
  BY TransitionTypes DEF Inv, BucketsTrue
<1>4. /\ actual' = [actual EXCEPT ![g] = to] /\ lasted' = [lasted EXCEPT ![g] = 0]
      /\ state' = [state EXCEPT ![g] = to] /\ since' = [since EXCEPT ![g] = clock]
      /\ buckets' = [buckets EXCEPT ![g] = Charged(g, from, clock, SinceOf(g))]
      /\ gs' = gs \union {g} /\ UNCHANGED <<clock, spent, outcome>>
      /\ outcome = "reading" /\ start' = (IF start = 0 THEN clock ELSE start) /\ end' = clock
  BY DEF Transition, recordStateTime, observe
<1>5. ASSUME NEW h \in Goroutines \ {g}
      PROVE  /\ actual'[h] = actual[h] /\ lasted'[h] = lasted[h] /\ state'[h] = state[h]
             /\ since'[h] = since[h] /\ buckets'[h] = buckets[h] /\ (h \in gs' <=> h \in gs)
  BY <1>3, <1>4 DEF TypeOK
<1>6. /\ actual'[g] = to /\ lasted'[g] = 0 /\ state'[g] = to /\ since'[g] = clock
      /\ buckets'[g] = Charged(g, from, clock, SinceOf(g))
  BY <1>3, <1>4 DEF TypeOK
<1>7. \A b \in Buckets : Charged(g, from, clock, SinceOf(g))[b] = spent[g][b]
  <2>0. \A b \in Buckets : Charged(g, from, clock, SinceOf(g))[b] =
                             buckets[g][b] + IF b = from THEN clock - SinceOf(g) ELSE 0
    <3>1. buckets \in [Goroutines -> [Buckets -> Nat]]
      BY <1>3 DEF TypeOK
    <3>2. SinceOf(g) \in Nat /\ SinceOf(g) <= clock /\ clock \in Nat /\ from \in GoStates
      BY <1>1, <1>2
    <3> HIDE DEF from
    <3> QED
      BY <3>1, <3>2, ChargedOne
  <2> SUFFICES ASSUME NEW b \in Buckets
               PROVE  buckets[g][b] + (IF b = from THEN clock - SinceOf(g) ELSE 0) = spent[g][b]
    BY <2>0
  <2>1. buckets[g][b] \in Nat /\ spent[g][b] \in Nat /\ lasted[g] \in Nat /\ since[g] \in Nat
    BY <1>3, AnalyzerAssumption DEF TypeOK
  <2>2. CASE g \in gs
    <3>1. from = actual[g]
      BY <2>2 DEF Transition
    <3>2. buckets[g][b] + Uncharged(g, b) = spent[g][b] /\ since[g] + lasted[g] = clock
      BY <1>4, <2>2 DEF Inv, BucketsTrue, Timely
    <3>3. Uncharged(g, b) = IF b = from THEN lasted[g] ELSE 0
      BY <1>4, <3>1 DEF Uncharged
    <3>4. SinceOf(g) = since[g]
      BY <2>2 DEF SinceOf
    <3> QED
      BY <1>2, <2>1, <3>2, <3>3, <3>4
  <2>3. CASE g \notin gs
    <3>1. b # from
      BY <2>3 DEF Transition, Buckets, Outside
    <3>2. buckets[g][b] = 0 /\ spent[g][b] = 0
      BY <2>3 DEF Inv, Unseen, NoTime
    <3> QED
      BY <3>1, <3>2
  <2> QED
    BY <2>2, <2>3
<1>8. BucketsTrue'
  <2>1. ASSUME NEW h \in gs'
        PROVE  /\ state'[h] = actual'[h]
               /\ \A b \in Buckets : buckets'[h][b] + Uncharged(h, b)' = spent'[h][b]
    <3>1. CASE h = g
      <4>1. \A b \in Buckets : Uncharged(h, b)' = 0
        BY <1>4, <1>6, <3>1 DEF Uncharged
      <4>2. \A b \in Buckets : buckets'[h][b] = spent'[h][b] /\ spent'[h][b] \in Nat
        BY <1>3, <1>4, <1>6, <1>7, <3>1 DEF TypeOK
      <4> QED
        BY <1>6, <3>1, <4>1, <4>2
    <3>2. CASE h # g
      <4>1. h \in Goroutines \ {g} /\ h \in gs
        BY <1>3, <1>4, <3>2 DEF TypeOK
      <4>2. \A b \in Buckets : Uncharged(h, b)' = Uncharged(h, b)
        BY <1>4, <1>5, <4>1 DEF Uncharged
      <4> QED
        BY <1>4, <1>5, <4>1, <4>2 DEF Inv, BucketsTrue
    <3> QED
      BY <3>1, <3>2
  <2> QED
    BY <1>3, <2>1 DEF BucketsTrue
<1>9. Timely'
  <2>1. start \in 0..end /\ end \in 0..clock /\ clock \in 1..MaxTime /\ MaxTime \in Nat
    BY <1>3, AnalyzerAssumption DEF TypeOK, Inv, Timely
  <2>2. start' \in 1..clock /\ start' \in 0..end'
    BY <1>4, <2>1
  <2>3. ASSUME NEW h \in gs'
        PROVE  /\ start' \in 1..since'[h] /\ since'[h] <= end'
               /\ since'[h] + lasted'[h] = clock'
    <3>1. CASE h = g
      BY <1>4, <1>6, <2>1, <2>2, <3>1
    <3>2. CASE h # g
      <4>1. h \in Goroutines \ {g} /\ h \in gs
        BY <1>3, <1>4, <3>2 DEF TypeOK
      <4>2. since[h] \in 0..MaxTime
        BY <1>3, <4>1 DEF TypeOK
      <4>3. start \in 1..since[h] /\ since[h] <= end /\ since[h] + lasted[h] = clock
        BY <1>4, <4>1 DEF Inv, Timely
      <4> QED
        BY <1>4, <1>5, <2>1, <4>1, <4>2, <4>3
    <3> QED
      BY <3>1, <3>2
  <2> QED
    BY <2>2, <2>3 DEF Timely
<1>10. Unseen'
  BY <1>4, <1>5 DEF Inv, Unseen
<1> QED
  BY <1>8, <1>9, <1>10 DEF Inv

(* The remaining steps.  A re-assertion is no change of state: it charges    *)
(* nothing and leaves since alone.                                           *)
LEMMA ReassertInv ==
  ASSUME Inv, NEW g \in Goroutines, Reassert(g)
  PROVE  Inv'
<1>1. /\ UNCHANGED <<clock, program, gs, state, buckets, maxSchedWait, blockSite, blocks,
                     schedWaits, outcome>>
      /\ since' = [since EXCEPT ![g] = since[g]] /\ noteStack(g) /\ observe
  BY DEF Reassert, SinceAfterReassertion
<1>2. TypeOK
  BY DEF Inv, BucketsTrue
<1>3. since' = since
  BY <1>1, <1>2 DEF TypeOK
<1>4. outcome = "reading" /\ start' = (IF start = 0 THEN clock ELSE start) /\ end' = clock
  BY <1>1 DEF observe
<1>5. /\ start \in 0..end /\ end \in 0..clock /\ clock \in 1..MaxTime
      /\ MaxTime \in Nat /\ MaxEvents \in Nat
  BY <1>2, AnalyzerAssumption DEF TypeOK, Inv, Timely
<1>6. TypeOK'
  <2>1. startFunc' \in [Goroutines -> {StartFunc[h] : h \in Goroutines} \union {NoName}]
    BY <1>1, <1>2 DEF TypeOK, noteStack
  <2>2. events' \in 0..MaxEvents
    BY <1>1, <1>2, <1>5 DEF TypeOK, observe
  <2>3. start' \in 0..MaxTime /\ end' \in 0..clock'
    BY <1>1, <1>4, <1>5
  <2> QED
    BY <1>1, <1>2, <1>3, <2>1, <2>2, <2>3 DEF TypeOK, program
<1>7. BucketsTrue'
  BY <1>1, <1>4, <1>6 DEF Inv, BucketsTrue, Uncharged, program
<1>8. Timely'
  <2>1. start' \in 0..end'
    BY <1>4, <1>5
  <2>2. ASSUME NEW h \in gs
        PROVE  start' \in 1..since[h] /\ since[h] <= end' /\ since[h] + lasted[h] = clock
    <3>1. start \in 1..since[h] /\ since[h] <= end /\ since[h] + lasted[h] = clock
      BY <1>4 DEF Inv, Timely
    <3>2. since[h] \in Nat
      BY <1>2, <1>5 DEF TypeOK
    <3> QED
      BY <1>4, <1>5, <3>1, <3>2
  <2> QED
    BY <1>1, <1>3, <2>1, <2>2 DEF Timely, program
<1>9. Unseen'
  BY <1>1 DEF Inv, Unseen, program
<1> QED
  BY <1>7, <1>8, <1>9 DEF Inv

LEMMA ProcTransitionInv == Inv /\ ProcTransition => Inv'
<1> SUFFICES ASSUME Inv, ProcTransition PROVE Inv'
  OBVIOUS
<1>1. UNCHANGED <<clock, program, analysis, outcome>> /\ observe
  BY DEF ProcTransition
<1>2. TypeOK
  BY DEF Inv, BucketsTrue
<1>3. outcome = "reading" /\ start' = (IF start = 0 THEN clock ELSE start) /\ end' = clock
  BY <1>1 DEF observe
<1>4. /\ start \in 0..end /\ end \in 0..clock /\ clock \in 1..MaxTime
      /\ MaxTime \in Nat /\ MaxEvents \in Nat
  BY <1>2, AnalyzerAssumption DEF TypeOK, Inv, Timely
<1>5. TypeOK'
  <2>1. events' \in 0..MaxEvents
    BY <1>1, <1>2, <1>4 DEF TypeOK, observe
  <2>2. start' \in 0..MaxTime /\ end' \in 0..clock'
    BY <1>1, <1>3, <1>4
  <2> QED
    BY <1>1, <1>2, <2>1, <2>2 DEF TypeOK, program, analysis, gInfo
<1>6. BucketsTrue'
  BY <1>1, <1>3, <1>5 DEF Inv, BucketsTrue, Uncharged, program, analysis, gInfo
<1>7. Timely'
  <2>1. start' \in 0..end'
    BY <1>3, <1>4
  <2>2. ASSUME NEW h \in gs
        PROVE  start' \in 1..since[h] /\ since[h] <= end' /\ since[h] + lasted[h] = clock
    <3>1. start \in 1..since[h] /\ since[h] <= end /\ since[h] + lasted[h] = clock
      BY <1>3 DEF Inv, Timely
    <3>2. since[h] \in Nat
      BY <1>2, <1>4 DEF TypeOK
    <3> QED
      BY <1>3, <1>4, <3>1, <3>2
  <2> QED
    BY <1>1, <2>1, <2>2 DEF Timely, program, analysis, gInfo
<1>8. Unseen'
  BY <1>1 DEF Inv, Unseen, program, analysis, gInfo
<1> QED
  BY <1>6, <1>7, <1>8 DEF Inv

(* Time that passes is spent in the state each goroutine is in, and not      *)
(* charged yet.                                                              *)
LEMMA ElapseInv == Inv /\ Elapse => Inv'
<1> SUFFICES ASSUME Inv, Elapse PROVE Inv'
  OBVIOUS
<1>1. /\ outcome = "reading" /\ clock' = clock + 1 /\ clock < MaxTime
      /\ UNCHANGED <<events, actual, analysis, observed, outcome>>
  BY DEF Elapse
<1>2. TypeOK /\ MaxTime \in Nat /\ clock \in 1..MaxTime /\ end \in 0..clock
  BY AnalyzerAssumption DEF Inv, BucketsTrue, TypeOK
<1>3. lasted' = [g \in Goroutines |-> lasted[g] + 1]
  BY DEF Elapse
<1>4. ASSUME NEW g \in Goroutines
      PROVE  /\ spent'[g] \in [Buckets -> Nat]
             /\ \A b \in Buckets : spent'[g][b] = spent[g][b] + IF b = actual[g] THEN 1 ELSE 0
  <2>1. spent[g] \in [Buckets -> Nat]
    BY <1>2 DEF TypeOK
  <2>2. spent'[g] = IF actual[g] \in Buckets THEN [spent[g] EXCEPT ![actual[g]] = @ + 1]
                                             ELSE spent[g]
    BY DEF Elapse
  <2>3. CASE actual[g] \in Buckets
    BY <2>1, <2>2, <2>3
  <2>4. CASE actual[g] \notin Buckets
    BY <2>1, <2>2, <2>4
  <2> QED
    BY <2>3, <2>4
<1>5. TypeOK'
  <2>1. lasted' \in [Goroutines -> Nat]
    BY <1>2, <1>3 DEF TypeOK
  <2>2. spent' \in [Goroutines -> [Buckets -> Nat]]
    <3>1. spent' = [g \in Goroutines |-> spent'[g]]
      BY DEF Elapse
    <3> QED
      BY <1>4, <3>1
  <2>3. clock' \in 1..MaxTime /\ end' \in 0..clock'
    BY <1>1, <1>2 DEF observed
  <2> QED
    BY <1>1, <1>2, <2>1, <2>2, <2>3 DEF TypeOK, analysis, gInfo, observed
<1>6. BucketsTrue'
  <2>1. ASSUME NEW g \in gs, NEW b \in Buckets
        PROVE  buckets[g][b] + Uncharged(g, b)' = spent'[g][b]
    <3>1. g \in Goroutines /\ lasted[g] \in Nat /\ buckets[g][b] \in Nat /\ spent[g][b] \in Nat
      BY <1>2 DEF TypeOK
    <3>2. buckets[g][b] + Uncharged(g, b) = spent[g][b]
      BY DEF Inv, BucketsTrue
    <3>3. spent'[g][b] = spent[g][b] + IF b = actual[g] THEN 1 ELSE 0
      BY <1>4, <3>1
    <3>4. Uncharged(g, b) = IF b = actual[g] THEN lasted[g] ELSE 0
      BY <1>1 DEF Uncharged
    <3>5. Uncharged(g, b)' = IF b = actual[g] THEN lasted[g] + 1 ELSE 0
      BY <1>1, <1>3, <3>1 DEF Uncharged
    <3> QED
      BY <3>1, <3>2, <3>3, <3>4, <3>5
  <2>2. UNCHANGED <<gs, state, actual, buckets>>
    BY <1>1 DEF analysis, gInfo
  <2> QED
    BY <1>5, <2>1, <2>2 DEF Inv, BucketsTrue
<1>7. Timely'
  <2>1. UNCHANGED <<gs, since, start, end, outcome>>
    BY <1>1 DEF analysis, gInfo, observed
  <2>2. ASSUME NEW g \in gs PROVE since[g] + lasted'[g] = clock'
    <3>1. g \in Goroutines /\ lasted[g] \in Nat /\ since[g] \in Nat
      BY <1>2 DEF TypeOK
    <3>2. since[g] + lasted[g] = clock
      BY <1>1 DEF Inv, Timely
    <3> QED
      BY <1>1, <1>2, <1>3, <3>1, <3>2
  <2> QED
    BY <2>1, <2>2 DEF Inv, Timely
<1>8. Unseen'
  <2>1. ASSUME NEW g \in Goroutines \ gs PROVE spent'[g] = spent[g]
    BY DEF Inv, Unseen, Elapse, Buckets
  <2> QED
    BY <1>1, <2>1 DEF Inv, Unseen, analysis, gInfo
<1> QED
  BY <1>6, <1>7, <1>8 DEF Inv

(* flush charges the intervals still open, up to the last event observed.    *)
LEMMA FlushInv == Inv /\ flush => Inv'
<1> SUFFICES ASSUME Inv, flush PROVE Inv'
  OBVIOUS
<1>1. /\ outcome = "reading" /\ outcome' = "summary"
      /\ UNCHANGED <<clock, events, program, gs, state, maxSchedWait, blockSite, startFunc,
                     blocks, schedWaits, observed>>
  BY DEF flush
<1>2. TypeOK /\ MaxTime \in Nat /\ clock \in 1..MaxTime /\ end \in 0..clock /\ start \in 0..end
  BY AnalyzerAssumption DEF Inv, BucketsTrue, TypeOK, Timely
<1>3. since' = [g \in Goroutines |-> IF g \in gs THEN end ELSE since[g]]
  BY DEF flush
<1>4. ASSUME NEW g \in gs
      PROVE  /\ g \in Goroutines /\ state[g] = actual[g] /\ state[g] \in GoStates
             /\ since[g] \in Nat /\ since[g] <= end /\ since[g] + lasted[g] = clock
             /\ start \in 1..since[g]
  BY <1>1, <1>2 DEF TypeOK, Inv, BucketsTrue, Timely
<1>5. ASSUME NEW g \in gs
      PROVE  /\ buckets'[g] \in [Buckets -> Nat]
             /\ \A b \in Buckets :
                  buckets'[g][b] = buckets[g][b] + IF b = actual[g] THEN end - since[g] ELSE 0
  <2>1. buckets'[g] = Charged(g, state[g], end, since[g])
    BY <1>4 DEF flush
  <2>2. end \in Nat /\ buckets \in [Goroutines -> [Buckets -> Nat]]
    BY <1>2 DEF TypeOK
  <2>3. /\ buckets'[g] = Charged(g, actual[g], end, since[g]) /\ actual[g] \in GoStates
        /\ since[g] \in Nat /\ since[g] <= end /\ g \in Goroutines
    BY <1>4, <2>1
  <2> DEFINE charged == Charged(g, actual[g], end, since[g])
  <2>4. /\ charged \in [Buckets -> Nat]
        /\ \A b \in Buckets :
             charged[b] = buckets[g][b] + IF b = actual[g] THEN end - since[g] ELSE 0
    BY <2>2, <2>3, ChargedOne
  <2> HIDE DEF charged
  <2>5. buckets'[g] = charged
    BY <2>3 DEF charged
  <2> QED
    BY <2>4, <2>5
<1>6. \A g \in Goroutines \ gs : buckets'[g] = buckets[g]
  BY DEF flush
<1>7. TypeOK'
  <2>1. buckets' \in [Goroutines -> [Buckets -> Nat]]
    <3>1. buckets' = [g \in Goroutines |-> buckets'[g]]
      BY DEF flush
    <3>2. \A g \in Goroutines : buckets'[g] \in [Buckets -> Nat]
      BY <1>2, <1>5, <1>6 DEF TypeOK
    <3> QED
      BY <3>1, <3>2
  <2>2. since' \in [Goroutines -> 0..MaxTime]
    BY <1>2, <1>3 DEF TypeOK
  <2> QED
    BY <1>1, <1>2, <2>1, <2>2 DEF TypeOK, program, observed
<1>8. BucketsTrue'
  <2>1. ASSUME NEW g \in gs, NEW b \in Buckets
        PROVE  buckets'[g][b] + Uncharged(g, b)' = spent[g][b]
    <3>1. lasted[g] \in Nat /\ buckets[g][b] \in Nat /\ spent[g][b] \in Nat
      BY <1>2, <1>4 DEF TypeOK
    <3>2. buckets[g][b] + (IF b = actual[g] THEN lasted[g] ELSE 0) = spent[g][b]
      BY <1>1 DEF Inv, BucketsTrue, Uncharged
    <3>3. Uncharged(g, b)' = IF b = actual[g] THEN clock - end ELSE 0
      BY <1>1 DEF Uncharged, program, observed
    <3>4. buckets'[g][b] = buckets[g][b] + IF b = actual[g] THEN end - since[g] ELSE 0
      BY <1>5
    <3> QED
      BY <1>2, <1>4, <3>1, <3>2, <3>3, <3>4
  <2> QED
    BY <1>1, <1>4, <1>7, <2>1 DEF BucketsTrue, program
<1>9. Timely'
  <2>1. \A g \in gs : since'[g] = end /\ start \in 1..end
    BY <1>2, <1>3, <1>4
  <2> QED
    BY <1>1, <1>2, <2>1 DEF Timely, observed
<1>10. Unseen'
  BY <1>1, <1>6 DEF Inv, Unseen, program
<1> QED
  BY <1>8, <1>9, <1>10 DEF Inv

LEMMA InvNext == Inv /\ [Next]_vars => Inv'
<1> SUFFICES ASSUME Inv, [Next]_vars PROVE Inv'
  OBVIOUS
<1>1. ASSUME UNCHANGED <<clock, events, program, analysis, observed>>,
             outcome' = outcome \/ (outcome = "reading" /\ outcome' = "error")
      PROVE  Inv'
  <2>1. TypeOK'
    BY <1>1 DEF Inv, BucketsTrue, TypeOK, program, analysis, gInfo, observed
  <2>2. \A g \in gs, b \in Buckets : Uncharged(g, b)' = Uncharged(g, b)
    BY <1>1 DEF Uncharged, program, observed
  <2>3. BucketsTrue'
    BY <1>1, <2>1, <2>2 DEF Inv, BucketsTrue, program, analysis, gInfo
  <2>4. Timely' /\ Unseen'
    BY <1>1 DEF Inv, Timely, Unseen, program, analysis, gInfo, observed
  <2> QED
    BY <2>3, <2>4 DEF Inv
<1>2. CASE ReadFails \/ UNCHANGED vars
  <2>1. UNCHANGED <<clock, events, program, analysis, observed>>
    BY <1>2 DEF ReadFails, vars
  <2>2. outcome' = outcome \/ (outcome = "reading" /\ outcome' = "error")
    <3>1. CASE ReadFails
      BY <3>1 DEF ReadFails
    <3>2. CASE UNCHANGED vars
      BY <3>2 DEF vars
    <3> QED
      BY <1>2, <3>1, <3>2
  <2> QED
    BY <1>1, <2>1, <2>2
<1>3. ASSUME NEW g \in Goroutines, NEW e \in Edges, NEW site \in Sites \union {NoSite},
             Transition(g, e[1], e[2], site)
      PROVE  Inv'
  BY <1>3, TransitionInv
<1>4. ASSUME NEW g \in Goroutines, Reassert(g) PROVE Inv'
  BY <1>4, ReassertInv
<1> QED
  BY <1>2, <1>3, <1>4, ProcTransitionInv, ElapseInv, FlushInv DEF Next

-----------------------------------------------------------------------------
LEMMA WaitOfSomebody ==
  ASSUME TypeOK, NEW i \in DOMAIN schedWaits
  PROVE  /\ schedWaits[i].g \in gs /\ schedWaits[i].g \in Goroutines
         /\ schedWaits[i].at \in Nat /\ schedWaits[i].wait \in Nat /\ Ended(i) \in Nat
<1> DEFINE Listed == [g : gs, at : 1..MaxTime, wait : 1..MaxTime]
<1>1. schedWaits[i] \in Listed
  <2>1. schedWaits \in Seq(Listed)
    BY DEF TypeOK
  <2> HIDE DEF Listed
  <2> QED
    BY <2>1, SeqElement
<1>2. schedWaits[i].g \in gs /\ schedWaits[i].at \in Nat /\ schedWaits[i].wait \in Nat
  BY <1>1, AnalyzerAssumption
<1>3. Ended(i) \in Nat
  BY <1>2 DEF Ended
<1>4. gs \subseteq Goroutines
  BY DEF TypeOK
<1> QED
  BY <1>2, <1>3, <1>4

(* Only a change of state touches the list of waits; flush moves since, but  *)
(* only later.                                                               *)
LEMMA WaitsStay ==
  ASSUME WaitInv, TypeOK', UNCHANGED <<gs, maxSchedWait, schedWaits>>,
         start' = start \/ start = 0,
         \A g \in gs : since[g] <= since'[g] /\ buckets[g]["runnable"] <= buckets'[g]["runnable"]
  PROVE  WaitsInOrder' /\ LongestListed'
<1>1. TypeOK /\ Timely /\ WaitsInOrder /\ LongestListed
  BY DEF WaitInv, Inv, BucketsTrue
<1>2. ASSUME NEW g \in gs
      PROVE  /\ start' = start /\ since[g] \in Nat /\ since'[g] \in Nat /\ maxSchedWait[g] \in Nat
             /\ buckets[g]["runnable"] \in Nat /\ buckets'[g]["runnable"] \in Nat
  BY <1>1, AnalyzerAssumption DEF TypeOK, Timely, Buckets
<1>3. WaitsInOrder'
  <2> SUFFICES ASSUME NEW i \in DOMAIN schedWaits
               PROVE  /\ schedWaits[i].at >= start' /\ Ended(i) <= since'[schedWaits[i].g]
                      /\ \A j \in DOMAIN schedWaits :
                           j < i /\ schedWaits[j].g = schedWaits[i].g => Ended(j) <= schedWaits[i].at
    BY DEF WaitsInOrder, Ended
  <2>1. schedWaits[i].g \in gs /\ Ended(i) \in Nat
    BY <1>1, WaitOfSomebody
  <2>2. Ended(i) <= since[schedWaits[i].g] /\ since[schedWaits[i].g] <= since'[schedWaits[i].g]
    BY <1>1, <2>1 DEF WaitsInOrder
  <2>3. start' = start /\ Ended(i) <= since'[schedWaits[i].g]
    BY <1>2, <2>1, <2>2
  <2> QED
    BY <1>1, <2>3 DEF WaitsInOrder
<1>4. LongestListed'
  <2>1. \A g \in gs : maxSchedWait[g] <= buckets'[g]["runnable"]
    BY <1>1, <1>2 DEF LongestListed
  <2> QED
    BY <1>1, <2>1 DEF LongestListed
<1> QED
  BY <1>3, <1>4

(* The wait that ends with a change of state begins where the last one of    *)
(* the goroutine had ended at the latest.                                    *)
LEMMA TransitionWaits ==
  ASSUME WaitInv, NEW g \in Goroutines, NEW e \in Edges, NEW site \in Sites \union {NoSite},
         Transition(g, e[1], e[2], site)
  PROVE  WaitsInOrder' /\ LongestListed'
<1> DEFINE from == e[1]
           ends == from = "runnable" /\ e[2] = "running"
           wait == clock - Began(g)
           entry == [g |-> g, at |-> Began(g), wait |-> wait]
           n == Len(schedWaits)
<1>1. Inv /\ TypeOK /\ TypeOK' /\ Timely /\ WaitsInOrder /\ LongestListed
  BY TransitionTypes DEF WaitInv, Inv, BucketsTrue
<1>2. /\ since' = [since EXCEPT ![g] = clock] /\ gs' = gs \union {g}
      /\ buckets' = [buckets EXCEPT ![g] = Charged(g, from, clock, SinceOf(g))]
      /\ start' = (IF start = 0 THEN clock ELSE start)
      /\ maxSchedWait' = IF ends THEN [maxSchedWait EXCEPT ![g] = Larger(@, wait)]
                                 ELSE maxSchedWait
      /\ schedWaits' = IF ends /\ wait >= minSchedWait THEN Append(schedWaits, entry)
                                                       ELSE schedWaits
  BY DEF Transition, recordStateTime, recordSchedWait, observe
<1>3. /\ SinceOf(g) \in 1..clock /\ clock \in Nat /\ Began(g) = SinceOf(g)
      /\ wait \in Nat /\ Began(g) + wait = clock /\ minSchedWait \in Nat \ {0}
  BY <1>1, SinceWhen, AnalyzerAssumption DEF Began
<1>4. ends => g \in gs /\ Began(g) = since[g]
  BY DEF Transition, Outside, Began, SinceOf
<1>5. ASSUME NEW h \in gs
      PROVE  /\ start' = start /\ start \in Nat /\ since[h] \in Nat /\ since'[h] \in Nat
             /\ since[h] <= since'[h] /\ maxSchedWait[h] \in Nat
             /\ maxSchedWait'[h] \in Nat /\ maxSchedWait[h] <= maxSchedWait'[h] /\ h \in gs'
  <2>1. start' = start /\ start \in Nat /\ since[h] \in Nat /\ since[h] <= clock /\ h \in Goroutines
    <3>1. h \in Goroutines /\ since[h] \in 0..MaxTime /\ end \in 0..clock /\ MaxTime \in Nat
      BY <1>1, AnalyzerAssumption DEF TypeOK
    <3>2. start \in 1..since[h] /\ since[h] <= end
      BY <1>1 DEF Timely
    <3> QED
      BY <1>2, <1>3, <3>1, <3>2
  <2>2. since'[h] = IF h = g THEN clock ELSE since[h]
    BY <1>1, <1>2, <2>1 DEF TypeOK
  <2>3. maxSchedWait[h] \in Nat /\ maxSchedWait'[h] \in Nat
    BY <1>1, <2>1 DEF TypeOK
  <2>4. maxSchedWait[h] <= maxSchedWait'[h]
    <3>1. maxSchedWait'[h] \in {maxSchedWait[h], Larger(maxSchedWait[h], wait)}
      <4>1. maxSchedWait \in [Goroutines -> Nat]
        BY <1>1 DEF TypeOK
      <4> HIDE DEF wait, ends
      <4> QED
        BY <1>2, <2>1, <4>1
    <3>2. maxSchedWait[h] <= Larger(maxSchedWait[h], wait)
      BY <1>3, <2>3 DEF Larger
    <3> QED
      BY <2>3, <3>1, <3>2
  <2> QED
    BY <1>2, <1>3, <2>1, <2>2, <2>3, <2>4
<1>6. ASSUME NEW i \in DOMAIN schedWaits
      PROVE  i \in DOMAIN schedWaits' /\ schedWaits'[i] = schedWaits[i] /\ i \in 1..n
  <2>1. schedWaits \in Seq([g : gs, at : 1..MaxTime, wait : 1..MaxTime])
    BY <1>1 DEF TypeOK
  <2> HIDE DEF entry
  <2> QED
    BY <1>2, <2>1
<1>7. ASSUME NEW i \in DOMAIN schedWaits'
      PROVE  \/ i \in DOMAIN schedWaits
             \/ i = n + 1 /\ ends /\ wait >= minSchedWait /\ schedWaits'[i] = entry
  <2>1. schedWaits \in Seq([g : gs, at : 1..MaxTime, wait : 1..MaxTime])
    BY <1>1 DEF TypeOK
  <2> HIDE DEF entry, ends, wait
  <2> QED
    BY <1>2, <2>1
<1>8. WaitsInOrder'
  <2> SUFFICES ASSUME NEW i \in DOMAIN schedWaits'
               PROVE  /\ schedWaits'[i].at >= start' /\ Ended(i)' <= since'[schedWaits'[i].g]
                      /\ \A j \in DOMAIN schedWaits' :
                           j < i /\ schedWaits'[j].g = schedWaits'[i].g
                             => Ended(j)' <= schedWaits'[i].at
    BY DEF WaitsInOrder
  <2>1. CASE i \in DOMAIN schedWaits
    <3>1. schedWaits'[i] = schedWaits[i] /\ Ended(i)' = Ended(i) /\ i \in 1..n
      BY <1>6, <2>1 DEF Ended
    <3>2. schedWaits[i].g \in gs /\ Ended(i) \in Nat
      BY <1>1, <2>1, WaitOfSomebody
    <3>3. /\ schedWaits[i].at >= start' /\ Ended(i) <= since[schedWaits[i].g]
          /\ since[schedWaits[i].g] <= since'[schedWaits[i].g]
      BY <1>1, <1>5, <2>1, <3>2 DEF WaitsInOrder
    <3>4. Ended(i) <= since'[schedWaits[i].g]
      BY <1>5, <3>2, <3>3
    <3>5. ASSUME NEW j \in DOMAIN schedWaits', j < i, schedWaits'[j].g = schedWaits'[i].g
          PROVE  Ended(j)' <= schedWaits'[i].at
      <4>1. j \in DOMAIN schedWaits
        BY <1>7, <3>1, <3>5
      <4>2. schedWaits'[j] = schedWaits[j] /\ Ended(j)' = Ended(j)
        BY <1>6, <4>1 DEF Ended
      <4> QED
        BY <1>1, <2>1, <3>1, <3>5, <4>1, <4>2 DEF WaitsInOrder
    <3> QED
      BY <3>1, <3>3, <3>4, <3>5
  <2>2. CASE i \notin DOMAIN schedWaits
    <3>1. i = n + 1 /\ ends /\ schedWaits'[i] = entry
      BY <1>7, <2>2
    <3>2. g \in gs /\ Began(g) = since[g]
      BY <1>4, <3>1
    <3>3. schedWaits'[i].g = g /\ schedWaits'[i].at = since[g] /\ Ended(i)' = clock
      BY <1>3, <3>1, <3>2 DEF Ended
    <3>4. since'[g] = clock /\ start' = start /\ start \in 1..since[g] /\ since[g] \in Nat
      BY <1>1, <1>2, <1>5, <3>2 DEF Timely, TypeOK
    <3>5. ASSUME NEW j \in DOMAIN schedWaits', j < i, schedWaits'[j].g = g
          PROVE  Ended(j)' <= since[g]
      <4>1. j \in DOMAIN schedWaits
        BY <1>7, <3>1, <3>5
      <4>2. schedWaits'[j] = schedWaits[j] /\ Ended(j)' = Ended(j)
        BY <1>6, <4>1 DEF Ended
      <4> QED
        BY <1>1, <3>5, <4>1, <4>2 DEF WaitsInOrder
    <3> QED
      BY <1>3, <3>3, <3>4, <3>5
  <2> QED
    BY <2>1, <2>2
<1>9. ASSUME NEW i \in DOMAIN schedWaits'
      PROVE  schedWaits'[i].wait <= maxSchedWait'[schedWaits'[i].g]
  <2>1. CASE i \in DOMAIN schedWaits
    <3>1. schedWaits'[i] = schedWaits[i]
      BY <1>6, <2>1
    <3>2. schedWaits[i].g \in gs /\ schedWaits[i].wait \in Nat
      BY <1>1, <2>1, WaitOfSomebody
    <3>3. schedWaits[i].wait <= maxSchedWait[schedWaits[i].g]
      BY <1>1, <2>1 DEF LongestListed
    <3> QED
      BY <1>5, <3>1, <3>2, <3>3
  <2>2. CASE i \notin DOMAIN schedWaits
    <3>1. ends /\ schedWaits'[i].g = g /\ schedWaits'[i].wait = wait
      BY <1>7, <2>2
    <3>2. maxSchedWait'[g] = Larger(maxSchedWait[g], wait) /\ maxSchedWait[g] \in Nat
      BY <1>1, <1>2, <3>1 DEF TypeOK
    <3> QED
      BY <1>3, <3>1, <3>2 DEF Larger
  <2> QED
    BY <2>1, <2>2
<1>10. ASSUME NEW h \in gs'
       PROVE  /\ maxSchedWait'[h] <= buckets'[h]["runnable"]
              /\ maxSchedWait'[h] >= minSchedWait =>
                   \E i \in DOMAIN schedWaits' :
                     schedWaits'[i].g = h /\ schedWaits'[i].wait = maxSchedWait'[h]
  <2>1. h \in Goroutines /\ maxSchedWait[h] \in Nat /\ buckets[h]["runnable"] \in Nat
    <3>1. h \in Goroutines
      BY <1>1, <1>2 DEF TypeOK
    <3> QED
      BY <1>1, <3>1 DEF TypeOK, Buckets
  <2>2. /\ h \in gs => maxSchedWait[h] <= buckets[h]["runnable"]
        /\ h \notin gs => maxSchedWait[h] = 0
    BY <1>1, <2>1 DEF LongestListed
  <2>3. ASSUME maxSchedWait'[h] = maxSchedWait[h], maxSchedWait[h] >= minSchedWait
        PROVE  \E i \in DOMAIN schedWaits' :
                 schedWaits'[i].g = h /\ schedWaits'[i].wait = maxSchedWait'[h]
    <3>1. h \in gs
      BY <1>3, <2>2, <2>3
    <3>2. PICK i \in DOMAIN schedWaits :
                 schedWaits[i].g = h /\ schedWaits[i].wait = maxSchedWait[h]
      BY <1>1, <2>3, <3>1 DEF LongestListed
    <3> QED
      BY <1>6, <2>3, <3>2
  <2>4. CASE h # g
    <3>1. maxSchedWait'[h] = maxSchedWait[h] /\ buckets'[h] = buckets[h] /\ h \in gs
      BY <1>1, <1>2, <2>1, <2>4 DEF TypeOK
    <3> QED
      BY <2>2, <2>3, <3>1
  <2>5. CASE h = g
    <3>1. buckets'[g]["runnable"] =
            buckets[g]["runnable"] + IF "runnable" = from THEN clock - SinceOf(g) ELSE 0
      <4>1. buckets \in [Goroutines -> [Buckets -> Nat]] /\ "runnable" \in Buckets
        BY <1>1 DEF TypeOK, Buckets
      <4>2. SinceOf(g) \in Nat /\ SinceOf(g) <= clock /\ from \in GoStates
        BY <1>3 DEF Edges, GoStates, Buckets, Outside
      <4>3. buckets'[g] = Charged(g, from, clock, SinceOf(g))
        BY <1>2, <4>1
      <4> HIDE DEF from, ends
      <4> QED
        BY <1>3, <4>1, <4>2, <4>3, ChargedOne
    <3>2. CASE ends
      <4>1. maxSchedWait'[g] = Larger(maxSchedWait[g], wait)
        BY <1>1, <1>2, <3>2 DEF TypeOK
      <4>2. buckets'[g]["runnable"] = buckets[g]["runnable"] + wait
        BY <1>3, <3>1, <3>2
      <4>3. g \in gs
        BY <1>4, <3>2
      <4>4. maxSchedWait'[g] <= buckets'[g]["runnable"]
        BY <1>3, <2>1, <2>2, <2>5, <4>1, <4>2, <4>3 DEF Larger
      <4>5. CASE maxSchedWait'[g] = maxSchedWait[g]
        BY <2>3, <2>5, <4>4, <4>5
      <4>6. CASE maxSchedWait'[g] = wait /\ wait >= minSchedWait
        <5>1. schedWaits' = Append(schedWaits, entry)
          BY <1>2, <3>2, <4>6
        <5>2. n + 1 \in DOMAIN schedWaits' /\ schedWaits'[n + 1] = entry
          <6>1. schedWaits \in Seq([g : gs, at : 1..MaxTime, wait : 1..MaxTime])
            BY <1>1 DEF TypeOK
          <6> HIDE DEF entry
          <6> QED
            BY <5>1, <6>1
        <5> QED
          BY <2>5, <4>4, <4>6, <5>2
      <4>7. maxSchedWait'[g] \in {maxSchedWait[g], wait}
        BY <4>1 DEF Larger
      <4> QED
        BY <2>5, <4>4, <4>5, <4>6, <4>7
    <3>3. CASE ~ends
      <4>1. maxSchedWait'[g] = maxSchedWait[g]
        BY <1>2, <3>3
      <4>2. buckets'[g]["runnable"] >= buckets[g]["runnable"]
        BY <1>3, <2>1, <2>5, <3>1
      <4>3. maxSchedWait[g] <= buckets[g]["runnable"]
        BY <2>1, <2>2, <2>5
      <4>4. buckets'[g]["runnable"] \in Nat
        BY <1>1 DEF TypeOK, Buckets
      <4>5. maxSchedWait'[h] <= buckets'[h]["runnable"]
        BY <2>1, <2>5, <4>1, <4>2, <4>3, <4>4
      <4> QED
        BY <2>3, <2>5, <4>1, <4>5
    <3> QED
      BY <3>2, <3>3
  <2> QED
    BY <2>4, <2>5
<1>11. \A h \in Goroutines \ gs' : maxSchedWait'[h] = 0
  <2>1. \A h \in Goroutines \ gs' : h # g /\ h \notin gs
    BY <1>2
  <2> QED
    BY <1>1, <1>2, <2>1 DEF TypeOK, LongestListed
<1>12. LongestListed'
  BY <1>9, <1>10, <1>11 DEF LongestListed
<1> QED
  BY <1>8, <1>12

LEMMA WaitNext == WaitInv /\ [Next]_vars => WaitInv'
<1> SUFFICES ASSUME WaitInv, [Next]_vars PROVE WaitsInOrder' /\ LongestListed'
  BY InvNext DEF WaitInv
<1>1. Inv /\ Inv' /\ TypeOK /\ TypeOK' /\ Timely
  BY InvNext DEF WaitInv, Inv, BucketsTrue
<1>2. ASSUME NEW g \in Goroutines, NEW e \in Edges, NEW site \in Sites \union {NoSite},
             Transition(g, e[1], e[2], site)
      PROVE  WaitsInOrder' /\ LongestListed'
  BY <1>2, TransitionWaits
<1>3. ASSUME NEW g \in gs
      PROVE  g \in Goroutines /\ since[g] \in Nat /\ buckets[g]["runnable"] \in Nat
  BY <1>1, AnalyzerAssumption DEF TypeOK, Buckets
<1>4. ASSUME UNCHANGED <<gs, maxSchedWait, schedWaits, since, buckets>>,
             start' = start \/ start = 0
      PROVE  WaitsInOrder' /\ LongestListed'
  BY <1>1, <1>3, <1>4, WaitsStay
<1>5. ASSUME NEW g \in Goroutines, Reassert(g) PROVE WaitsInOrder' /\ LongestListed'
  <2>1. since' = since
    BY <1>1, <1>5 DEF Reassert, SinceAfterReassertion, TypeOK
  <2> QED
    BY <1>4, <1>5, <2>1 DEF Reassert, observe
<1>6. CASE ProcTransition \/ Elapse \/ ReadFails \/ UNCHANGED vars
  <2>1. UNCHANGED <<gs, maxSchedWait, schedWaits, since, buckets>>
    BY <1>6 DEF ProcTransition, Elapse, ReadFails, vars, analysis, gInfo
  <2>2. start' = start \/ start = 0
    BY <1>6 DEF ProcTransition, Elapse, ReadFails, vars, observed, observe
  <2> QED
    BY <1>4, <2>1, <2>2
<1>7. CASE flush
  <2>1. UNCHANGED <<gs, maxSchedWait, schedWaits, start>>
    BY <1>7 DEF flush, observed
  <2>2. ASSUME NEW g \in gs
        PROVE  since[g] <= since'[g] /\ buckets[g]["runnable"] <= buckets'[g]["runnable"]
    <3>1. since'[g] = end /\ buckets'[g] = Charged(g, state[g], end, since[g])
      BY <1>3, <1>7 DEF flush
    <3>2. since[g] <= end /\ end \in Nat /\ state[g] \in GoStates
      BY <1>1, <1>3 DEF Timely, TypeOK
    <3>3. buckets \in [Goroutines -> [Buckets -> Nat]] /\ "runnable" \in Buckets
      BY <1>1 DEF TypeOK, Buckets
    <3>4. Charged(g, state[g], end, since[g])["runnable"] =
            buckets[g]["runnable"] + IF "runnable" = state[g] THEN end - since[g] ELSE 0
      BY <1>3, <3>2, <3>3, ChargedOne
    <3> QED
      BY <1>3, <3>1, <3>2, <3>4
  <2> QED
    BY <1>1, <2>1, <2>2, WaitsStay
<1> QED
  BY <1>2, <1>5, <1>6, <1>7 DEF Next

LEMMA Invariance == Spec => []WaitInv
  BY InvInit, WaitNext, PTL DEF Spec

-----------------------------------------------------------------------------
(* Every bucket of every goroutine holds the time it really spent in that    *)
(* state, whatever the trace, however often states were re-asserted and      *)
(* wherever the trace ends: no moment is charged twice or to the wrong       *)
(* state, though three recorders share since (analyzer.go:61-64).            *)
THEOREM BucketsAreTrue == Spec => []BucketsTrue
<1>1. WaitInv => BucketsTrue
  BY DEF WaitInv, Inv
<1> QED
  BY Invariance, <1>1, PTL

(* The scheduler waits listed for one goroutine lie within the trace, one    *)
(* after another; its maxSchedWait is the longest of them if it is long      *)
(* enough to be listed, and part of its time in the runnable state.          *)
THEOREM WaitsAreTrue == Spec => [](WaitsInOrder /\ LongestListed)
<1>1. WaitInv => WaitsInOrder /\ LongestListed
  BY DEF WaitInv
<1> QED
  BY Invariance, <1>1, PTL

-----------------------------------------------------------------------------
(* The summary.  A goroutine that waits does so at a site; the waits listed  *)
(* for a goroutine are part of its time in the runnable state; all its time  *)
(* together is no longer than from the first event to its last change of     *)
(* state.                                                                    *)
BlockedSomewhere == \A g \in gs : actual[g] = "waiting" => blockSite[g] \in Sites \ {NoSite}

Own(g) == {i \in DOMAIN schedWaits : schedWaits[i].g = g}
WaitsCharged ==
  \A g \in gs : SumFunction([i \in Own(g) |-> schedWaits[i].wait]) <= buckets[g]["runnable"]

WithinTrace == \A g \in gs : SumFunction(buckets[g]) <= since[g] - start

SumInv == WaitInv /\ BlockedSomewhere /\ BlockedAgrees /\ WaitsCharged /\ WithinTrace

LEMMA SummableInt ==
  ASSUME NEW D, IsFiniteSet(D), NEW b \in [D -> Int]
  PROVE  IsSummable(b) /\ DOMAIN b = D
BY DEF IsSummable

LEMMA BucketsFinite == IsFiniteSet(Buckets)
<1>1. Buckets = (({"running"} \union {"runnable"}) \union {"waiting"}) \union {"syscall"}
  BY DEF Buckets
<1> QED
  BY <1>1, FS_Singleton, FS_Union

(* What a goroutine's wait ends with is added once to it and once to the     *)
(* site it waited at.                                                        *)
LEMMA TransitionBlocked ==
  ASSUME WaitInv, BlockedSomewhere, BlockedAgrees,
         NEW g \in Goroutines, NEW e \in Edges, NEW site \in Sites \union {NoSite},
         Transition(g, e[1], e[2], site)
  PROVE  BlockedSomewhere' /\ BlockedAgrees'
<1> DEFINE from == e[1]
           to == e[2]
           d == clock - SinceOf(g)
           byG == [h \in gs |-> buckets[h]["waiting"]]
           byGNext == [h \in gs' |-> buckets'[h]["waiting"]]
           bySite == [s \in Sites |-> blocks[s].total]
           bySiteNext == [s \in Sites |-> blocks'[s].total]
<1>1. Inv /\ TypeOK /\ TypeOK' /\ Timely /\ Unseen /\ IsFiniteSet(Goroutines) /\ IsFiniteSet(Sites)
  BY TransitionTypes, AnalyzerAssumption DEF WaitInv, Inv, BucketsTrue
<1>2. /\ actual' = [actual EXCEPT ![g] = to] /\ gs' = gs \union {g}
      /\ buckets' = [buckets EXCEPT ![g] = Charged(g, from, clock, SinceOf(g))]
      /\ outcome = "reading" /\ outcome' = "reading" /\ (site # NoSite <=> to = "waiting")
      /\ IF g \in gs THEN from = actual[g] ELSE from \in Outside
  BY DEF Transition, recordStateTime, observe
<1>3. d \in Nat /\ SinceOf(g) \in Nat /\ SinceOf(g) <= clock /\ clock \in Nat
  BY <1>1, SinceWhen
<1>4. "waiting" \in Buckets /\ "waiting" \notin Outside /\ from \in GoStates
  BY DEF Edges, GoStates, Buckets, Outside
<1>5. buckets'[g]["waiting"] = buckets[g]["waiting"] + IF from = "waiting" THEN d ELSE 0
  <2>1. buckets \in [Goroutines -> [Buckets -> Nat]]
    BY <1>1 DEF TypeOK
  <2>2. buckets'[g] = Charged(g, from, clock, SinceOf(g))
    BY <1>2, <2>1
  <2>3. Charged(g, from, clock, SinceOf(g))["waiting"] =
          buckets[g]["waiting"] + IF "waiting" = from THEN clock - SinceOf(g) ELSE 0
    <3> HIDE DEF from
    <3> QED
      BY <1>3, <1>4, <2>1, ChargedOne
  <2> QED
    BY <2>2, <2>3
<1>6. ASSUME NEW h \in Goroutines \ {g}
      PROVE  actual'[h] = actual[h] /\ buckets'[h] = buckets[h]
  BY <1>1, <1>2 DEF TypeOK
<1>7. BlockedSomewhere'
  <2> SUFFICES ASSUME NEW h \in gs', actual'[h] = "waiting"
               PROVE  blockSite'[h] \in Sites \ {NoSite}
    BY DEF BlockedSomewhere
  <2>1. h \in Goroutines /\ blockSite \in [Goroutines -> Sites \union {NoSite}]
    BY <1>1, <1>2 DEF TypeOK
  <2>2. blockSite' = CASE to = "waiting" -> [blockSite EXCEPT ![g] = site]
                       [] from = "waiting" /\ blockSite[g] # NoSite ->
                            [blockSite EXCEPT ![g] = NoSite]
                       [] OTHER -> blockSite
    BY DEF Transition, recordBlocking
  <2>3. CASE h = g
    <3>1. to = "waiting"
      BY <1>1, <1>2, <2>3 DEF TypeOK
    <3>2. blockSite' = [blockSite EXCEPT ![g] = site]
      <4>1. from # "waiting"
        BY <3>1 DEF Edges, Outside
      <4> QED
        BY <2>2, <3>1, <4>1
    <3>3. site \in Sites \ {NoSite}
      BY <1>2, <3>1
    <3> QED
      BY <2>1, <2>3, <3>2, <3>3
  <2>4. CASE h # g
    <3>1. h \in gs /\ actual[h] = "waiting"
      BY <1>2, <1>6, <2>1, <2>4
    <3>2. blockSite'[h] = blockSite[h]
      <4>1. blockSite' \in {[blockSite EXCEPT ![g] = site], [blockSite EXCEPT ![g] = NoSite],
                            blockSite}
        BY <2>2
      <4> QED
        BY <2>1, <2>4, <4>1
    <3> QED
      BY <3>1, <3>2 DEF BlockedSomewhere
  <2> QED
    BY <2>3, <2>4
<1>8. SumFunction(byG) = SumFunction(bySite)
  <2> DEFINE asleep == {h \in gs : outcome = "summary" /\ actual[h] = "waiting"}
             open == [h \in asleep |-> end - (clock - lasted[h])]
  <2>1. SumFunction(byG) = SumFunction(bySite) + SumFunction(open)
    BY DEF BlockedAgrees
  <2>2. DOMAIN open = {}
    BY <1>2
  <2>3. IsSummable(bySite)
    BY <1>1 DEF TypeOK, IsSummable
  <2> HIDE DEF open, byG, bySite
  <2> QED
    BY <2>1, <2>2, <2>3, SumOfNone, SumType
<1>9. /\ IsSummable(byG) /\ IsSummable(byGNext) /\ DOMAIN byG = gs /\ DOMAIN byGNext = gs'
      /\ IsSummable(bySite) /\ IsSummable(bySiteNext)
      /\ DOMAIN bySite = Sites /\ DOMAIN bySiteNext = Sites
  <2>1. IsFiniteSet(gs) /\ IsFiniteSet(gs')
    BY <1>1, FS_Subset DEF TypeOK
  <2>2. byG \in [gs -> Int] /\ byGNext \in [gs' -> Int]
    <3>1. \A h \in Goroutines : buckets[h]["waiting"] \in Int /\ buckets'[h]["waiting"] \in Int
      BY <1>1, <1>4 DEF TypeOK
    <3>2. gs \subseteq Goroutines /\ gs' \subseteq Goroutines
      BY <1>1 DEF TypeOK
    <3> QED
      BY <3>1, <3>2
  <2>3. bySite \in [Sites -> Int] /\ bySiteNext \in [Sites -> Int]
    <3>0. /\ blocks \in [Sites -> [count : Nat, total : Nat, max : Nat]]
          /\ blocks' \in [Sites -> [count : Nat, total : Nat, max : Nat]]
      BY <1>1 DEF TypeOK
    <3>1. \A s \in Sites : blocks[s].total \in Int /\ blocks'[s].total \in Int
      BY <3>0
    <3> QED
      BY <3>1
  <2> HIDE DEF byG, byGNext, bySite, bySiteNext
  <2> QED
    BY <1>1, <2>1, <2>2, <2>3, SummableInt
<1>10. SumFunction(byGNext) = SumFunction(byG) + IF from = "waiting" THEN d ELSE 0
  <2>1. \A h \in gs \ {g} : byGNext[h] = byG[h] /\ h \in gs'
    <3>1. gs \subseteq Goroutines
      BY <1>1 DEF TypeOK
    <3> QED
      BY <1>2, <1>6, <3>1
  <2>2. buckets[g]["waiting"] \in Int
    BY <1>1, <1>4 DEF TypeOK
  <2>3. CASE g \in gs
    <3>1. gs' = gs
      BY <1>2, <2>3
    <3>2. byG[g] = buckets[g]["waiting"] /\ byGNext[g] = buckets'[g]["waiting"]
      BY <2>3, <3>1
    <3> HIDE DEF byG, byGNext
    <3>3. SumFunction(byG) \in Int /\ SumFunction(byGNext) = SumFunction(byG) + (byGNext[g] - byG[g])
      BY <1>9, <2>1, <2>3, <3>1, SumOfChange
    <3> HIDE DEF d, from
    <3> QED
      BY <1>3, <1>5, <2>2, <3>2, <3>3
  <2>4. CASE g \notin gs
    <3>1. byGNext[g] = 0 /\ from # "waiting"
      <4>1. buckets[g] = NoTime /\ from # "waiting"
        BY <1>1, <1>2, <1>4, <2>4 DEF Unseen
      <4>2. buckets'[g]["waiting"] = 0
        BY <1>4, <1>5, <4>1 DEF NoTime
      <4> QED
        BY <1>2, <4>1, <4>2
    <3>2. \A h \in gs : byGNext[h] = byG[h]
      BY <2>1, <2>4
    <3> HIDE DEF byG, byGNext
    <3>3. SumFunction(byG) \in Int /\ SumFunction(byGNext) = SumFunction(byG) + byGNext[g]
      BY <1>2, <1>9, <2>4, <3>2, SumOfMore
    <3> QED
      BY <3>1, <3>3
  <2> QED
    BY <2>3, <2>4
<1>11. SumFunction(bySiteNext) = SumFunction(bySite) + IF from = "waiting" THEN d ELSE 0
  <2>0. SumFunction(bySite) \in Int
    BY <1>9, SumType
  <2>1. CASE from = "waiting"
    <3> DEFINE s == blockSite[g]
    <3>1. s \in Sites \ {NoSite} /\ SinceOf(g) = Began(g)
      BY <1>2, <1>4, <2>1 DEF BlockedSomewhere, Began
    <3>2. blocks' = [blocks EXCEPT ![s] =
                       [count |-> @.count + 1, total |-> @.total + d, max |-> Larger(@.max, d)]]
      BY <2>1, <3>1 DEF Transition, recordBlocking
    <3>3. blocks \in [Sites -> [count : Nat, total : Nat, max : Nat]]
      BY <1>1 DEF TypeOK
    <3>4. \A t \in Sites \ {s} : blocks'[t] = blocks[t]
      BY <3>2, <3>3
    <3>5. blocks'[s].total = blocks[s].total + d
      <4> HIDE DEF d, s
      <4> QED
        BY <3>1, <3>2, <3>3
    <3>6. /\ \A t \in Sites \ {s} : bySiteNext[t] = bySite[t]
          /\ bySiteNext[s] = bySite[s] + d /\ bySite[s] \in Int
      BY <3>1, <3>3, <3>4, <3>5
    <3> HIDE DEF bySite, bySiteNext, s, d
    <3>7. SumFunction(bySiteNext) = SumFunction(bySite) + (bySiteNext[s] - bySite[s])
      BY <1>9, <3>1, <3>6, SumOfChange
    <3> QED
      BY <1>3, <2>0, <2>1, <3>6, <3>7
  <2>2. CASE from # "waiting"
    <3>1. blocks' = blocks
      BY <2>2 DEF Transition, recordBlocking
    <3>2. SumFunction(bySiteNext) = SumFunction(bySite)
      BY <3>1
    <3> HIDE DEF bySite, bySiteNext
    <3> QED
      BY <2>0, <2>2, <3>2
  <2> QED
    BY <2>1, <2>2
<1>12. BlockedAgrees'
  <2> DEFINE asleep == {h \in gs' : outcome' = "summary" /\ actual'[h] = "waiting"}
             open == [h \in asleep |-> end' - (clock' - lasted'[h])]
  <2>1. SumFunction(open) = 0
    <3>1. DOMAIN open = {}
      BY <1>2
    <3> HIDE DEF open
    <3> QED
      BY <3>1, SumOfNone
  <2>2. SumFunction(byGNext) = SumFunction(bySiteNext) + SumFunction(open)
    <3>1. SumFunction(bySiteNext) \in Int
      BY <1>9, SumType
    <3> HIDE DEF byG, byGNext, bySite, bySiteNext, open, d
    <3> QED
      BY <1>8, <1>10, <1>11, <2>1, <3>1
  <2> QED
    BY <2>2 DEF BlockedAgrees
<1> QED
  BY <1>7, <1>12

(* In the end the waits that have not ended are added to the goroutines      *)
(* alone.                                                                    *)
LEMMA FlushBlocked ==
  ASSUME WaitInv, BlockedSomewhere, BlockedAgrees, flush
  PROVE  BlockedSomewhere' /\ BlockedAgrees'
<1> DEFINE waiting == {g \in gs : actual[g] = "waiting"}
           byG == [g \in gs |-> buckets[g]["waiting"]]
           byGNext == [g \in gs |-> buckets'[g]["waiting"]]
           bySite == [s \in Sites |-> blocks[s].total]
           open == [g \in waiting |-> end - (clock - lasted[g])]
           charged == [g \in gs |-> IF g \in waiting THEN open[g] ELSE 0]
<1>1. Inv /\ TypeOK /\ Timely /\ BucketsTrue /\ IsFiniteSet(gs) /\ IsFiniteSet(Sites)
  BY FS_Subset, AnalyzerAssumption DEF WaitInv, Inv, BucketsTrue, TypeOK
<1>2. /\ outcome = "reading" /\ outcome' = "summary"
      /\ UNCHANGED <<clock, actual, lasted, gs, blockSite, blocks, end>>
  BY DEF flush, program, observed
<1>3. BlockedSomewhere'
  BY <1>2 DEF BlockedSomewhere
<1>4. ASSUME NEW g \in gs
      PROVE  /\ buckets[g]["waiting"] \in Int /\ buckets'[g]["waiting"] \in Int
             /\ end - (clock - lasted[g]) \in Int
             /\ buckets'[g]["waiting"] = buckets[g]["waiting"]
                  + IF actual[g] = "waiting" THEN end - (clock - lasted[g]) ELSE 0
  <2>1. /\ g \in Goroutines /\ buckets \in [Goroutines -> [Buckets -> Nat]] /\ "waiting" \in Buckets
        /\ end \in Nat /\ clock \in Nat /\ lasted[g] \in Nat /\ since[g] \in Nat
        /\ state[g] \in GoStates /\ state[g] = actual[g]
    BY <1>1, AnalyzerAssumption DEF TypeOK, Buckets, BucketsTrue
  <2>2. since[g] <= end /\ since[g] + lasted[g] = clock
    BY <1>1, <1>2 DEF Timely
  <2>3. buckets'[g] = Charged(g, state[g], end, since[g])
    BY <2>1 DEF flush
  <2>4. Charged(g, state[g], end, since[g])["waiting"] =
          buckets[g]["waiting"] + IF "waiting" = state[g] THEN end - since[g] ELSE 0
    BY <2>1, <2>2, ChargedOne
  <2>5. end - (clock - lasted[g]) = end - since[g] /\ buckets[g]["waiting"] \in Nat
    BY <2>1, <2>2
  <2> QED
    BY <2>1, <2>3, <2>4, <2>5
<1>5. /\ IsSummable(byG) /\ IsSummable(byGNext) /\ IsSummable(charged) /\ IsSummable(open)
      /\ DOMAIN byG = gs /\ DOMAIN byGNext = gs /\ DOMAIN charged = gs /\ DOMAIN open = waiting
  <2>1. IsFiniteSet(waiting)
    BY <1>1, FS_Subset
  <2>2. /\ byG \in [gs -> Int] /\ byGNext \in [gs -> Int] /\ charged \in [gs -> Int]
        /\ open \in [waiting -> Int]
    BY <1>4
  <2> HIDE DEF byG, byGNext, charged, open, waiting
  <2> QED
    BY <1>1, <2>1, <2>2, SummableInt
<1>6. SumFunction(byGNext) = SumFunction(byG) + SumFunction(charged)
  <2>1. \A g \in gs : byGNext[g] = byG[g] + charged[g]
    BY <1>4
  <2> HIDE DEF byG, byGNext, charged
  <2> QED
    BY <1>5, <2>1, SumOfSums
<1>7. SumFunction(charged) = SumFunction(open)
  <2>1. waiting \subseteq gs /\ \A g \in gs : charged[g] = IF g \in waiting THEN open[g] ELSE 0
    OBVIOUS
  <2> HIDE DEF charged, open, waiting
  <2> QED
    BY <1>5, <2>1, SumOfPart
<1>8. SumFunction(byG) = SumFunction(bySite)
  <2> DEFINE asleep == {g \in gs : outcome = "summary" /\ actual[g] = "waiting"}
             early == [g \in asleep |-> end - (clock - lasted[g])]
  <2>1. SumFunction(byG) = SumFunction(bySite) + SumFunction(early)
    BY DEF BlockedAgrees
  <2>2. DOMAIN early = {}
    BY <1>2
  <2>3. IsSummable(bySite)
    BY <1>1 DEF TypeOK, IsSummable
  <2> HIDE DEF early, byG, bySite
  <2> QED
    BY <2>1, <2>2, <2>3, SumOfNone, SumType
<1>9. SumFunction(byGNext) = SumFunction(bySite) + SumFunction(open)
  <2> HIDE DEF byG, byGNext, bySite, open, charged
  <2> QED
    BY <1>6, <1>7, <1>8
<1>10. BlockedAgrees'
  <2>1. waiting = {g \in gs' : outcome' = "summary" /\ actual'[g] = "waiting"}
    BY <1>2
  <2>2. open = [g \in waiting |-> end' - (clock' - lasted'[g])]
    BY <1>2
  <2>3. bySite = [s \in Sites |-> blocks'[s].total] /\ gs' = gs
    BY <1>2
  <2> QED
    BY <1>9, <2>1, <2>2, <2>3 DEF BlockedAgrees
<1> QED
  BY <1>3, <1>10

LEMMA BlockedNext ==
  ASSUME WaitInv, BlockedSomewhere, BlockedAgrees, [Next]_vars
  PROVE  BlockedSomewhere' /\ BlockedAgrees'
<1>1. ASSUME UNCHANGED <<actual, gs, buckets, blockSite, blocks>>,
             outcome = "reading" /\ outcome' # "summary"
      PROVE  BlockedSomewhere' /\ BlockedAgrees'
  <2>1. BlockedSomewhere'
    BY <1>1 DEF BlockedSomewhere
  <2> DEFINE early == {g \in gs : outcome = "summary" /\ actual[g] = "waiting"}
             late == {g \in gs' : outcome' = "summary" /\ actual'[g] = "waiting"}
             before == [g \in early |-> end - (clock - lasted[g])]
             after == [g \in late |-> end' - (clock' - lasted'[g])]
  <2>2. before = after
    <3>1. early = {} /\ late = {}
      BY <1>1
    <3> HIDE DEF early, late
    <3> QED
      BY <3>1
  <2>3. SumFunction([g \in gs |-> buckets[g]["waiting"]])
          = SumFunction([s \in Sites |-> blocks[s].total]) + SumFunction(before)
    BY DEF BlockedAgrees
  <2>4. SumFunction([g \in gs' |-> buckets'[g]["waiting"]])
          = SumFunction([s \in Sites |-> blocks'[s].total]) + SumFunction(after)
    BY <1>1, <2>2, <2>3
  <2> QED
    BY <2>1, <2>4 DEF BlockedAgrees
<1>2. ASSUME NEW g \in Goroutines, NEW e \in Edges, NEW site \in Sites \union {NoSite},
             Transition(g, e[1], e[2], site)
      PROVE  BlockedSomewhere' /\ BlockedAgrees'
  BY <1>2, TransitionBlocked
<1>3. ASSUME NEW g \in Goroutines, Reassert(g) PROVE BlockedSomewhere' /\ BlockedAgrees'
  BY <1>1, <1>3 DEF Reassert, observe, program
<1>4. CASE ProcTransition
  BY <1>1, <1>4 DEF ProcTransition, observe, program, analysis, gInfo
<1>5. CASE Elapse
  BY <1>1, <1>5 DEF Elapse, analysis, gInfo
<1>6. CASE ReadFails
  BY <1>1, <1>6 DEF ReadFails, program, analysis, gInfo
<1>7. CASE UNCHANGED vars
  <2>1. UNCHANGED <<actual, gs, buckets, blockSite, blocks, outcome, end, clock, lasted>>
    BY <1>7 DEF vars, program, analysis, gInfo, observed
  <2> QED
    BY <2>1 DEF BlockedSomewhere, BlockedAgrees
<1> QED
  BY <1>2, <1>3, <1>4, <1>5, <1>6, <1>7, FlushBlocked DEF Next

(* The waits listed for a goroutine, as a sum of numbers.                    *)
LEMMA OwnWaits ==
  ASSUME TypeOK, NEW g \in Goroutines
  PROVE  /\ IsFiniteSet(Own(g)) /\ (g \notin gs => Own(g) = {})
         /\ IsSummable([i \in Own(g) |-> schedWaits[i].wait])
<1>1. \A i \in Own(g) : i \in DOMAIN schedWaits /\ schedWaits[i].g = g
  BY DEF Own
<1>2. \A i \in Own(g) : schedWaits[i].wait \in Int /\ g \in gs
  BY <1>1, WaitOfSomebody
<1>3. IsFiniteSet(Own(g))
  <2>1. DOMAIN schedWaits = 1..Len(schedWaits) /\ Len(schedWaits) \in Nat
    BY DEF TypeOK
  <2>2. IsFiniteSet(1..Len(schedWaits))
    BY <2>1, FS_Interval
  <2>3. Own(g) \in SUBSET (1..Len(schedWaits))
    BY <1>1, <2>1
  <2> QED
    BY <2>2, <2>3, FS_Subset
<1> QED
  BY <1>2, <1>3 DEF IsSummable

(* A wait is listed when it is charged, and no wait twice.                   *)
LEMMA TransitionCharged ==
  ASSUME WaitInv, WaitsCharged,
         NEW g \in Goroutines, NEW e \in Edges, NEW site \in Sites \union {NoSite},
         Transition(g, e[1], e[2], site)
  PROVE  WaitsCharged'
<1> DEFINE from == e[1]
           ends == from = "runnable" /\ e[2] = "running"
           wait == clock - Began(g)
           entry == [g |-> g, at |-> Began(g), wait |-> wait]
           n == Len(schedWaits)
           Times(h) == [i \in Own(h) |-> schedWaits[i].wait]
           own(h) == {i \in DOMAIN schedWaits' : schedWaits'[i].g = h}
           TimesNext(h) == [i \in own(h) |-> schedWaits'[i].wait]
<1>1. /\ Inv /\ TypeOK /\ TypeOK' /\ Unseen /\ Began(g) = SinceOf(g)
      /\ SinceOf(g) \in Nat /\ SinceOf(g) <= clock /\ clock \in Nat /\ wait \in Nat
  BY TransitionTypes, SinceWhen DEF WaitInv, Inv, BucketsTrue, Began
<1>2. /\ gs' = gs \union {g}
      /\ buckets' = [buckets EXCEPT ![g] = Charged(g, from, clock, SinceOf(g))]
      /\ schedWaits' = IF ends /\ wait >= minSchedWait THEN Append(schedWaits, entry)
                                                       ELSE schedWaits
      /\ (ends => g \in gs)
  BY DEF Transition, recordStateTime, recordSchedWait, Outside
<1>3. ASSUME NEW h \in Goroutines
      PROVE  /\ buckets[h]["runnable"] \in Nat /\ buckets'[h]["runnable"] \in Nat
             /\ h # g => buckets'[h] = buckets[h]
  <2>1. buckets \in [Goroutines -> [Buckets -> Nat]] /\ buckets' \in [Goroutines -> [Buckets -> Nat]]
    BY <1>1 DEF TypeOK
  <2>2. "runnable" \in Buckets
    BY DEF Buckets
  <2>3. h # g => buckets'[h] = buckets[h]
    BY <1>2, <2>1
  <2> QED
    BY <2>1, <2>2, <2>3
<1>4. buckets'[g]["runnable"] = buckets[g]["runnable"] + IF from = "runnable" THEN wait ELSE 0
  <2>1. buckets \in [Goroutines -> [Buckets -> Nat]] /\ "runnable" \in Buckets
    BY <1>1 DEF TypeOK, Buckets
  <2>2. buckets'[g] = Charged(g, from, clock, SinceOf(g)) /\ from \in GoStates
    BY <1>2, <2>1 DEF Edges, GoStates, Buckets, Outside
  <2>3. Charged(g, from, clock, SinceOf(g))["runnable"] =
          buckets[g]["runnable"] + IF "runnable" = from THEN clock - SinceOf(g) ELSE 0
    <3> HIDE DEF from
    <3> QED
      BY <1>1, <2>1, <2>2, ChargedOne
  <2> QED
    BY <1>1, <2>2, <2>3
<1>5. ASSUME NEW h \in gs PROVE SumFunction(Times(h)) <= buckets[h]["runnable"]
  BY DEF WaitsCharged
<1>6. ASSUME NEW h \in Goroutines \ gs PROVE SumFunction(Times(h)) = 0
  <2>1. DOMAIN Times(h) = {}
    BY <1>1, OwnWaits
  <2> HIDE DEF Times
  <2> QED
    BY <2>1, SumOfNone
<1>7. ASSUME NEW h \in Goroutines
      PROVE  IsSummable(Times(h)) /\ SumFunction(Times(h)) \in Int
  <2>1. IsSummable(Times(h))
    BY <1>1, OwnWaits
  <2> HIDE DEF Times
  <2> QED
    BY <2>1, SumType
<1>8. ASSUME NEW h \in gs', TimesNext(h) = Times(h)
      PROVE  SumFunction(TimesNext(h)) <= buckets'[h]["runnable"]
  <2>1. h \in Goroutines
    BY <1>1 DEF TypeOK
  <2>2. SumFunction(Times(h)) <= buckets[h]["runnable"]
    <3>1. CASE h \in gs
      BY <1>5, <3>1
    <3>2. CASE h \notin gs
      <4>1. SumFunction(Times(h)) = 0 /\ buckets[h]["runnable"] \in Nat
        BY <1>3, <1>6, <2>1, <3>2
      <4> HIDE DEF Times
      <4> QED
        BY <4>1
    <3> QED
      BY <3>1, <3>2
  <2>3. buckets[h]["runnable"] <= buckets'[h]["runnable"]
    <3> HIDE DEF wait, from
    <3> QED
      BY <1>1, <1>3, <1>4, <2>1
  <2>4. SumFunction(Times(h)) \in Int /\ buckets[h]["runnable"] \in Int /\ buckets'[h]["runnable"] \in Int
    BY <1>3, <1>7, <2>1
  <2>5. SumFunction(TimesNext(h)) = SumFunction(Times(h))
    BY <1>8
  <2> HIDE DEF Times, TimesNext
  <2> QED
    BY <2>2, <2>3, <2>4, <2>5
<1>9. schedWaits \in Seq([g : gs, at : 1..MaxTime, wait : 1..MaxTime]) /\ n \in Nat
  BY <1>1 DEF TypeOK
<1>10. ASSUME NEW h \in gs'
       PROVE  SumFunction(TimesNext(h)) <= buckets'[h]["runnable"]
  <2>1. CASE ~ (ends /\ wait >= minSchedWait)
    <3>1. schedWaits' = schedWaits
      BY <1>2, <2>1
    <3>2. TimesNext(h) = Times(h)
      BY <3>1 DEF Own
    <3> HIDE DEF Times, TimesNext
    <3> QED
      BY <1>8, <3>2
  <2>2. CASE ends /\ wait >= minSchedWait
    <3>1. /\ DOMAIN schedWaits' = DOMAIN schedWaits \union {n + 1} /\ n + 1 \notin DOMAIN schedWaits
          /\ schedWaits'[n + 1] = entry /\ \A i \in DOMAIN schedWaits : schedWaits'[i] = schedWaits[i]
      <4>1. schedWaits' = Append(schedWaits, entry)
        BY <1>2, <2>2
      <4> HIDE DEF entry
      <4> QED
        BY <1>9, <4>1
    <3>2. entry.g = g /\ entry.wait = wait
      OBVIOUS
    <3> HIDE DEF entry, n
    <3>3. CASE h # g
      <4>1. own(h) = Own(h) /\ \A i \in Own(h) : schedWaits'[i] = schedWaits[i]
        BY <3>1, <3>2, <3>3 DEF Own
      <4>2. TimesNext(h) = Times(h)
        <5> HIDE DEF own
        <5> QED
          BY <4>1
      <4> HIDE DEF Times, TimesNext
      <4> QED
        BY <1>8, <4>2
    <3>4. CASE h = g
      <4>1. own(g) = Own(g) \union {n + 1} /\ n + 1 \notin Own(g)
        BY <3>1, <3>2 DEF Own
      <4>2. \A i \in Own(g) : schedWaits'[i] = schedWaits[i]
        BY <3>1 DEF Own
      <4>3. /\ DOMAIN Times(g) = Own(g) /\ DOMAIN TimesNext(g) = Own(g) \union {n + 1}
            /\ TimesNext(g)[n + 1] = wait /\ \A i \in Own(g) : TimesNext(g)[i] = Times(g)[i]
        <5> HIDE DEF own, wait
        <5> QED
          BY <3>1, <3>2, <4>1, <4>2
      <4>4. IsFiniteSet(Own(g)) /\ IsSummable(Times(g))
        BY <1>1, <1>7, OwnWaits
      <4>5. IsSummable(TimesNext(g))
        <5>1. IsFiniteSet(Own(g) \union {n + 1})
          BY <4>4, FS_AddElement
        <5> HIDE DEF Times, TimesNext, wait
        <5> QED
          BY <1>1, <4>3, <4>4, <5>1 DEF IsSummable
      <4>6. SumFunction(TimesNext(g)) = SumFunction(Times(g)) + wait
        <5> HIDE DEF Times, TimesNext, wait
        <5> QED
          BY <4>1, <4>3, <4>4, <4>5, SumOfMore
      <4>7. SumFunction(Times(g)) <= buckets[g]["runnable"]
        BY <1>2, <1>5, <2>2
      <4>8. buckets'[g]["runnable"] = buckets[g]["runnable"] + wait
        BY <1>4, <2>2
      <4>9. SumFunction(Times(g)) \in Int /\ buckets[g]["runnable"] \in Int
        BY <1>3, <1>7
      <4> HIDE DEF Times, TimesNext, wait
      <4> QED
        BY <1>1, <3>4, <4>6, <4>7, <4>8, <4>9
    <3> QED
      BY <3>3, <3>4
  <2> QED
    BY <2>1, <2>2
<1> QED
  BY <1>10 DEF WaitsCharged, Own

(* All the time charged to a goroutine fits between the first event of the   *)
(* trace and its last change of state.                                       *)
LEMMA ChargedSum ==
  ASSUME TypeOK, NEW g \in Goroutines, NEW from \in GoStates,
         NEW upTo \in Nat, NEW began \in Nat, began <= upTo
  PROVE  /\ SumFunction(buckets[g]) \in Int
         /\ SumFunction(Charged(g, from, upTo, began)) <= SumFunction(buckets[g]) + (upTo - began)
<1> DEFINE b == buckets[g]
           c == Charged(g, from, upTo, began)
<1>1. buckets \in [Goroutines -> [Buckets -> Nat]]
  BY DEF TypeOK
<1>2. /\ c \in [Buckets -> Nat] /\ b \in [Buckets -> Nat]
      /\ \A x \in Buckets : c[x] = b[x] + IF x = from THEN upTo - began ELSE 0
  BY <1>1, ChargedOne
<1>3. IsSummable(b) /\ IsSummable(c) /\ DOMAIN b = Buckets /\ DOMAIN c = Buckets
  <2> HIDE DEF b, c
  <2>1. b \in [Buckets -> Int] /\ c \in [Buckets -> Int]
    BY <1>2
  <2> QED
    BY <2>1, BucketsFinite, SummableInt
<1>4. SumFunction(b) \in Int
  <2> HIDE DEF b
  <2> QED
    BY <1>3, SumType
<1>5. CASE from \in Buckets
  <2> HIDE DEF b, c
  <2>1. \A x \in Buckets \ {from} : c[x] = b[x]
    BY <1>2
  <2>2. SumFunction(c) = SumFunction(b) + (c[from] - b[from])
    BY <1>3, <1>5, <2>1, SumOfChange
  <2>3. c[from] - b[from] = upTo - began
    BY <1>2, <1>5
  <2> QED
    BY <1>4, <2>2, <2>3 DEF b, c
<1>6. CASE from \notin Buckets
  <2>1. c = b
    BY <1>6 DEF Charged
  <2> QED
    BY <1>4, <2>1
<1> QED
  BY <1>5, <1>6

LEMMA TransitionWithin ==
  ASSUME WaitInv, WithinTrace,
         NEW g \in Goroutines, NEW e \in Edges, NEW site \in Sites \union {NoSite},
         Transition(g, e[1], e[2], site)
  PROVE  WithinTrace'
<1>1. /\ Inv /\ TypeOK /\ TypeOK' /\ Timely /\ Unseen /\ Timely'
      /\ SinceOf(g) \in Nat /\ SinceOf(g) <= clock /\ clock \in Nat
  <2>1. Inv /\ Inv'
    BY TransitionInv DEF WaitInv
  <2> QED
    BY <2>1, SinceWhen DEF Inv, BucketsTrue
<1>2. /\ gs' = gs \union {g} /\ since' = [since EXCEPT ![g] = clock]
      /\ buckets' = [buckets EXCEPT ![g] = Charged(g, e[1], clock, SinceOf(g))]
      /\ start' = (IF start = 0 THEN clock ELSE start) /\ end' = clock
      /\ IF g \in gs THEN TRUE ELSE e[1] \in Outside
  BY DEF Transition, recordStateTime, observe
<1>3. /\ buckets \in [Goroutines -> [Buckets -> Nat]] /\ since \in [Goroutines -> 0..MaxTime]
      /\ start \in Nat /\ start' \in Nat /\ start' <= clock /\ gs \subseteq Goroutines
      /\ MaxTime \in Nat
  <2>1. start' \in 0..end' /\ end' = clock
    BY <1>1, <1>2 DEF Timely
  <2>2. start' \in Nat /\ start' <= clock
    BY <1>1, <2>1
  <2>3. start \in Nat /\ MaxTime \in Nat
    BY <1>1, AnalyzerAssumption DEF TypeOK
  <2> QED
    BY <1>1, <2>2, <2>3 DEF TypeOK
<1>4. ASSUME NEW h \in gs'
      PROVE  SumFunction(buckets'[h]) <= since'[h] - start'
  <2>1. h \in Goroutines /\ since[h] \in Nat /\ SumFunction(buckets[h]) \in Int
    <3>1. h \in Goroutines /\ since[h] \in Nat /\ buckets[h] \in [Buckets -> Int]
      BY <1>1, <1>2, <1>3
    <3> QED
      BY <3>1, BucketsFinite, SummableInt, SumType
  <2>2. h \in gs => start' = start /\ SumFunction(buckets[h]) <= since[h] - start
    BY <1>1, <1>2, <2>1 DEF WithinTrace, Timely
  <2>3. CASE h # g
    <3>1. buckets'[h] = buckets[h] /\ since'[h] = since[h] /\ h \in gs
      BY <1>2, <1>3, <2>1, <2>3
    <3> QED
      BY <2>2, <3>1
  <2>4. CASE h = g
    <3>1. since'[g] = clock /\ buckets'[g] = Charged(g, e[1], clock, SinceOf(g))
      BY <1>2, <1>3
    <3>2. CASE g \in gs
      <4>1. e[1] \in GoStates
        BY DEF Edges, GoStates, Buckets, Outside
      <4>2. SumFunction(Charged(g, e[1], clock, SinceOf(g)))
              <= SumFunction(buckets[g]) + (clock - SinceOf(g))
        BY <1>1, <4>1, ChargedSum
      <4>3. /\ SumFunction(buckets'[g]) <= SumFunction(buckets[g]) + (clock - since[g])
            /\ SumFunction(buckets[g]) <= since[g] - start /\ start' = start
        BY <2>2, <2>4, <3>1, <3>2, <4>2 DEF SinceOf
      <4>4. SumFunction(buckets'[g]) \in Int
        <5>1. buckets'[g] \in [Buckets -> Int]
          <6>1. buckets' \in [Goroutines -> [Buckets -> Nat]]
            BY <1>1 DEF TypeOK
          <6> QED
            BY <6>1
        <5> QED
          BY <5>1, BucketsFinite, SummableInt, SumType
      <4> QED
        BY <1>1, <1>3, <2>1, <2>4, <3>1, <4>3, <4>4
    <3>3. CASE g \notin gs
      <4>1. buckets'[g] = NoTime
        BY <1>1, <1>2, <3>1, <3>3 DEF Charged, Unseen, Outside, Buckets
      <4>2. SumFunction(NoTime) = 0
        <5>1. /\ NoTime \in [Buckets -> Int] /\ \A b \in Buckets : NoTime[b] = 0
              /\ Cardinality(Buckets) \in Nat
          BY BucketsFinite, FS_CardinalityType DEF NoTime
        <5>2. SumFunction(NoTime) = Cardinality(Buckets) * 0
          BY <5>1, BucketsFinite, SummableInt, SumOfEqual
        <5> QED
          BY <5>1, <5>2
      <4> QED
        BY <1>1, <1>3, <2>4, <3>1, <4>1, <4>2
    <3> QED
      BY <3>2, <3>3
  <2> QED
    BY <2>3, <2>4
<1> QED
  BY <1>4 DEF WithinTrace

(* The remaining steps: only flush charges, and it moves since as far.       *)
LEMMA ListedNext ==
  ASSUME WaitInv, WaitsCharged, WithinTrace, [Next]_vars
  PROVE  WaitsCharged' /\ WithinTrace'
<1>1. Inv /\ TypeOK /\ TypeOK' /\ Timely
  BY InvNext DEF WaitInv, Inv, BucketsTrue
<1>2. ASSUME UNCHANGED <<gs, schedWaits, buckets, since>>, start' = start \/ start = 0
      PROVE  WaitsCharged' /\ WithinTrace'
  <2>1. WaitsCharged'
    BY <1>2 DEF WaitsCharged, Own
  <2>2. gs # {} => start' = start
    BY <1>1, <1>2 DEF Timely
  <2>3. WithinTrace'
    BY <1>2, <2>2 DEF WithinTrace
  <2> QED
    BY <2>1, <2>3
<1>3. ASSUME NEW g \in Goroutines, NEW e \in Edges, NEW site \in Sites \union {NoSite},
             Transition(g, e[1], e[2], site)
      PROVE  WaitsCharged' /\ WithinTrace'
  BY <1>3, TransitionCharged, TransitionWithin
<1>4. ASSUME NEW g \in Goroutines, Reassert(g) PROVE WaitsCharged' /\ WithinTrace'
  <2>1. since' = since
    BY <1>1, <1>4 DEF Reassert, SinceAfterReassertion, TypeOK
  <2> QED
    BY <1>2, <1>4, <2>1 DEF Reassert, observe
<1>5. CASE ProcTransition \/ Elapse \/ ReadFails \/ UNCHANGED vars
  <2>1. UNCHANGED <<gs, schedWaits, since, buckets>>
    BY <1>5 DEF ProcTransition, Elapse, ReadFails, vars, analysis, gInfo
  <2>2. start' = start \/ start = 0
    BY <1>5 DEF ProcTransition, Elapse, ReadFails, vars, observed, observe
  <2> QED
    BY <1>2, <2>1, <2>2
<1>6. CASE flush
  <2>0. UNCHANGED <<gs, schedWaits, start>>
    BY <1>6 DEF flush, observed
  <2>1. ASSUME NEW g \in gs
        PROVE  /\ g \in Goroutines /\ since[g] \in Nat /\ end \in Nat /\ since[g] <= end
               /\ state[g] \in GoStates /\ start \in Nat /\ since'[g] = end
               /\ buckets'[g] = Charged(g, state[g], end, since[g])
    <3>1. g \in Goroutines /\ MaxTime \in Nat
      BY <1>1, AnalyzerAssumption DEF TypeOK
    <3> QED
      BY <1>1, <1>6, <3>1 DEF TypeOK, Timely, flush
  <2>2. ASSUME NEW g \in gs
        PROVE  SumFunction([i \in Own(g) |-> schedWaits[i].wait]) <= buckets'[g]["runnable"]
    <3> DEFINE sum == SumFunction([i \in Own(g) |-> schedWaits[i].wait])
    <3>1. sum <= buckets[g]["runnable"]
      BY DEF WaitsCharged
    <3>2. sum \in Int
      BY <1>1, <2>1, OwnWaits, SumType
    <3>3. buckets \in [Goroutines -> [Buckets -> Nat]] /\ "runnable" \in Buckets
      BY <1>1 DEF TypeOK, Buckets
    <3>4. Charged(g, state[g], end, since[g])["runnable"] =
            buckets[g]["runnable"] + IF "runnable" = state[g] THEN end - since[g] ELSE 0
      BY <2>1, <3>3, ChargedOne
    <3>5. buckets[g]["runnable"] \in Nat
      BY <2>1, <3>3
    <3> HIDE DEF sum
    <3>6. sum <= buckets'[g]["runnable"]
      BY <2>1, <3>1, <3>2, <3>4, <3>5
    <3> QED
      BY <3>6 DEF sum
  <2>3. ASSUME NEW g \in gs PROVE SumFunction(buckets'[g]) <= since'[g] - start'
    <3>1. SumFunction(buckets[g]) <= since[g] - start
      BY DEF WithinTrace
    <3>2. /\ SumFunction(buckets[g]) \in Int
          /\ SumFunction(buckets'[g]) <= SumFunction(buckets[g]) + (end - since[g])
      BY <1>1, <2>1, ChargedSum
    <3>3. SumFunction(buckets'[g]) \in Int
      <4>1. buckets'[g] \in [Buckets -> Int]
        <5>1. buckets' \in [Goroutines -> [Buckets -> Nat]]
          BY <1>1 DEF TypeOK
        <5> QED
          BY <2>1, <5>1
      <4> QED
        BY <4>1, BucketsFinite, SummableInt, SumType
    <3> QED
      BY <2>0, <2>1, <3>1, <3>2, <3>3
  <2> QED
    BY <2>0, <2>2, <2>3 DEF WaitsCharged, WithinTrace, Own
<1> QED
  BY <1>3, <1>4, <1>5, <1>6 DEF Next

LEMMA SumInvariance == Spec => []SumInv
<1>1. ASSUME Init PROVE SumInv
  <2>1. WaitInv /\ gs = {} /\ IsFiniteSet(Sites)
    BY <1>1, InvInit, AnalyzerAssumption DEF Init
  <2>2. BlockedSomewhere /\ WaitsCharged /\ WithinTrace
    BY <2>1 DEF BlockedSomewhere, WaitsCharged, WithinTrace
  <2> DEFINE asleep == {g \in gs : outcome = "summary" /\ actual[g] = "waiting"}
             byG == [g \in gs |-> buckets[g]["waiting"]]
             bySite == [s \in Sites |-> blocks[s].total]
             open == [g \in asleep |-> end - (clock - lasted[g])]
  <2>3. SumFunction(byG) = 0 /\ SumFunction(open) = 0
    <3>1. DOMAIN byG = {} /\ DOMAIN open = {}
      BY <2>1
    <3> HIDE DEF byG, open
    <3> QED
      BY <3>1, SumOfNone
  <2>4. SumFunction(bySite) = 0
    <3>1. bySite \in [Sites -> Int] /\ \A s \in Sites : bySite[s] = 0
      BY <1>1 DEF Init
    <3> HIDE DEF bySite
    <3>2. IsSummable(bySite) /\ DOMAIN bySite = Sites /\ Cardinality(Sites) \in Nat
      BY <2>1, <3>1, SummableInt, FS_CardinalityType
    <3>3. SumFunction(bySite) = Cardinality(Sites) * 0
      BY <3>1, <3>2, SumOfEqual
    <3> QED
      BY <3>2, <3>3
  <2>5. SumFunction(byG) = SumFunction(bySite) + SumFunction(open)
    <3> HIDE DEF byG, bySite, open
    <3> QED
      BY <2>3, <2>4
  <2>6. BlockedAgrees
    BY <2>5 DEF BlockedAgrees
  <2> QED
    BY <2>1, <2>2, <2>6 DEF SumInv
<1>2. SumInv /\ [Next]_vars => SumInv'
  BY WaitNext, BlockedNext, ListedNext DEF SumInv
<1> QED
  BY <1>1, <1>2, PTL DEF Spec

-----------------------------------------------------------------------------
(* What summary() makes of it.                                               *)
LEMMA WaitsSummed == ASSUME SumInv PROVE WaitsAgree
<1>1. /\ WaitInv /\ Inv /\ TypeOK /\ Timely /\ BucketsTrue /\ WaitsInOrder /\ LongestListed
      /\ WaitsCharged
  BY DEF SumInv, WaitInv, Inv, BucketsTrue
<1> SUFFICES ASSUME NEW g \in gs
    PROVE  /\ \A i \in Own(g) :
                /\ schedWaits[i].at >= start /\ Ended(i) <= end
                /\ \A j \in Own(g) : j < i => Ended(j) <= schedWaits[i].at
                /\ schedWaits[i].wait <= maxSchedWait[g]
           /\ maxSchedWait[g] >= minSchedWait =>
                \E i \in Own(g) : schedWaits[i].wait = maxSchedWait[g]
           /\ maxSchedWait[g] <= spent[g]["runnable"]
           /\ SumFunction([i \in Own(g) |-> schedWaits[i].wait]) <= spent[g]["runnable"]
  BY DEF WaitsAgree, Own
<1> DEFINE sum == SumFunction([i \in Own(g) |-> schedWaits[i].wait])
<1>2. /\ g \in Goroutines /\ maxSchedWait[g] \in Nat /\ since[g] \in Nat /\ since[g] <= end
      /\ end \in Nat /\ clock \in Nat /\ end <= clock /\ lasted[g] \in Nat
  <2>1. g \in Goroutines /\ MaxTime \in Nat
    BY <1>1, AnalyzerAssumption DEF TypeOK
  <2> QED
    BY <1>1, <2>1 DEF TypeOK, Timely
<1>3. buckets[g]["runnable"] \in Nat /\ spent[g]["runnable"] \in Nat /\ "runnable" \in Buckets
  BY <1>1, <1>2 DEF TypeOK, Buckets
<1>4. buckets[g]["runnable"] <= spent[g]["runnable"]
  <2>1. buckets[g]["runnable"] + Uncharged(g, "runnable") = spent[g]["runnable"]
    BY <1>1, <1>3 DEF BucketsTrue
  <2>2. Uncharged(g, "runnable") \in Nat
    BY <1>2 DEF Uncharged
  <2> QED
    BY <1>3, <2>1, <2>2
<1>5. ASSUME NEW i \in Own(g)
      PROVE  /\ schedWaits[i].at >= start /\ Ended(i) <= end
             /\ \A j \in Own(g) : j < i => Ended(j) <= schedWaits[i].at
             /\ schedWaits[i].wait <= maxSchedWait[g]
  <2>1. i \in DOMAIN schedWaits /\ schedWaits[i].g = g
    BY DEF Own
  <2>2. Ended(i) \in Nat /\ Ended(i) <= since[g] /\ schedWaits[i].at >= start
    BY <1>1, <2>1, WaitOfSomebody DEF WaitsInOrder
  <2>3. \A j \in Own(g) : j < i => Ended(j) <= schedWaits[i].at
    BY <1>1, <2>1 DEF WaitsInOrder, Own
  <2>4. schedWaits[i].wait <= maxSchedWait[g]
    BY <1>1, <2>1 DEF LongestListed
  <2> QED
    BY <1>2, <2>2, <2>3, <2>4
<1>6. maxSchedWait[g] >= minSchedWait => \E i \in Own(g) : schedWaits[i].wait = maxSchedWait[g]
  BY <1>1 DEF LongestListed, Own
<1>7. maxSchedWait[g] <= spent[g]["runnable"]
  <2>1. maxSchedWait[g] <= buckets[g]["runnable"]
    BY <1>1 DEF LongestListed
  <2> QED
    BY <1>2, <1>3, <1>4, <2>1
<1>8. sum <= spent[g]["runnable"]
  <2>1. sum <= buckets[g]["runnable"]
    BY <1>1 DEF WaitsCharged
  <2>2. sum \in Int
    BY <1>1, <1>2, OwnWaits, SumType
  <2> HIDE DEF sum
  <2> QED
    BY <1>3, <1>4, <2>1, <2>2
<1> QED
  BY <1>5, <1>6, <1>7, <1>8

(* One group per start function.                                             *)
LEMMA GroupIs ==
  ASSUME NEW r \in Groups
  PROVE  /\ r.startFunc \in {startFunc[g] : g \in gs} /\ r = GroupOf(r.startFunc)
         /\ r.count = Cardinality({g \in gs : startFunc[g] = r.startFunc})
         /\ r.time = [b \in Buckets |->
              SumFunction([g \in {h \in gs : startFunc[h] = r.startFunc} |-> buckets[g][b]])]
         /\ r.maxSchedWait =
              Max({maxSchedWait[g] : g \in {h \in gs : startFunc[h] = r.startFunc}})
<1>1. PICK n \in {startFunc[g] : g \in gs} : r = GroupOf(n)
  BY DEF Groups
<1>2. r.startFunc = n
  BY <1>1 DEF GroupOf
<1> QED
  BY <1>1, <1>2 DEF GroupOf

LEMMA GroupsCounted ==
  ASSUME TypeOK PROVE SumFunction([r \in Groups |-> r.count]) = Cardinality(gs)
<1> DEFINE part == [r \in Groups |-> {g \in gs : startFunc[g] = r.startFunc}]
           counts == [r \in Groups |-> r.count]
           groupOf == [g \in gs |-> GroupOf(startFunc[g])]
<1>1. IsFiniteSet(gs)
  BY FS_Subset, AnalyzerAssumption DEF TypeOK
<1>2. IsFiniteSet(Groups)
  <2>1. groupOf \in [gs -> Groups] /\ \A r \in Groups : \E g \in gs : groupOf[g] = r
    BY DEF Groups
  <2>2. groupOf \in Surjection(gs, Groups)
    <3> HIDE DEF groupOf
    <3> QED
      BY <2>1 DEF Surjection
  <2> HIDE DEF groupOf
  <2> QED
    BY <1>1, <2>2, FS_Surjection
<1>3. \A r \in Groups : part[r] \subseteq gs /\ counts[r] = Cardinality(part[r])
  BY GroupIs
<1>4. ASSUME NEW r \in Groups, NEW q \in Groups, r # q PROVE part[r] \intersect part[q] = {}
  <2>1. r.startFunc # q.startFunc
    BY <1>4, GroupIs
  <2> QED
    BY <2>1
<1>5. ASSUME NEW g \in gs PROVE \E r \in Groups : g \in part[r]
  <2>1. GroupOf(startFunc[g]) \in Groups /\ GroupOf(startFunc[g]).startFunc = startFunc[g]
    BY DEF Groups, GroupOf
  <2> QED
    BY <2>1
<1>6. DOMAIN counts = Groups
  OBVIOUS
<1> HIDE DEF part, counts
<1>7. SumFunction(counts) = Cardinality(gs)
  BY <1>1, <1>2, <1>3, <1>4, <1>5, <1>6, SumOfParts
<1> QED
  BY <1>7 DEF counts

(* No group was there longer than its members' trace.                        *)
LEMMA GroupsTimed ==
  ASSUME TypeOK, Timely, WithinTrace, NEW r \in Groups
  PROVE  SumFunction(r.time) <= r.count * (end - start)
<1> DEFINE members == {g \in gs : startFunc[g] = r.startFunc}
           rows == [g \in members |-> SumFunction(buckets[g])]
<1>1. /\ r.count = Cardinality(members)
      /\ r.time = [b \in Buckets |-> SumFunction([g \in members |-> buckets[g][b]])]
  BY GroupIs
<1>2. IsFiniteSet(members) /\ members \subseteq gs /\ gs \subseteq Goroutines
  BY FS_Subset, AnalyzerAssumption DEF TypeOK
<1>3. \A g \in members : buckets[g] \in [Buckets -> Int]
  BY <1>2 DEF TypeOK
<1>4. SumFunction(r.time) = SumFunction(rows)
  <2> DEFINE table == [b \in Buckets |-> SumFunction([g \in members |-> buckets[g][b]])]
  <2>1. SumFunction(table) = SumFunction(rows)
    <3> DEFINE col == [b \in Buckets |-> [g \in members |-> buckets[g][b]]]
    <3>1. \A b \in Buckets :
            col[b] \in [members -> Int] /\ \A g \in members : col[b][g] = buckets[g][b]
      BY <1>3
    <3>2. \A b \in Buckets : IsSummable(col[b]) /\ SumFunction(col[b]) \in Int
      <4> HIDE DEF col
      <4> QED
        BY <1>2, <3>1, SummableInt, SumType
    <3>3. table \in [Buckets -> Int] /\ \A b \in Buckets : table[b] = SumFunction(col[b])
      <4>1. \A b \in Buckets : table[b] = SumFunction(col[b])
        OBVIOUS
      <4>2. DOMAIN table = Buckets /\ table = [b \in Buckets |-> table[b]]
        OBVIOUS
      <4> HIDE DEF table, col
      <4> QED
        BY <3>2, <4>1, <4>2
    <3>4. rows \in [members -> Int] /\ \A g \in members : rows[g] = SumFunction(buckets[g])
      BY <1>3, BucketsFinite, SummableInt, SumType
    <3>5. IsFiniteSet(members) /\ \A g \in members : buckets[g] \in [Buckets -> Int]
      BY <1>2, <1>3
    <3> HIDE DEF members, col, table, rows
    <3>6. IsTable(members, Buckets, buckets, col, rows, table)
      BY <3>1, <3>3, <3>4, <3>5, BucketsFinite DEF IsTable
    <3> QED
      BY <3>6, SumExchanged
  <2>2. r.time = table
    BY <1>1
  <2> HIDE DEF table, rows
  <2> QED
    BY <2>1, <2>2
<1>5. ASSUME NEW g \in members
      PROVE  SumFunction(buckets[g]) \in Int /\ SumFunction(buckets[g]) <= end - start
  <2>1. SumFunction(buckets[g]) \in Int
    BY <1>3, BucketsFinite, SummableInt, SumType
  <2>2. SumFunction(buckets[g]) <= since[g] - start /\ since[g] <= end
    BY <1>2 DEF WithinTrace, Timely
  <2>3. since[g] \in Nat /\ end \in Nat /\ start \in Nat
    BY <1>2, AnalyzerAssumption DEF TypeOK
  <2> QED
    BY <2>1, <2>2, <2>3
<1>6. /\ IsSummable(rows) /\ DOMAIN rows = members /\ \A g \in members : rows[g] <= end - start
      /\ end - start \in Int
  <2>1. end \in Int /\ start \in Int
    BY AnalyzerAssumption DEF TypeOK
  <2> HIDE DEF members
  <2> QED
    BY <1>2, <1>5, <2>1 DEF IsSummable
<1> HIDE DEF rows, members
<1>7. SumFunction(rows) <= Cardinality(members) * (end - start)
  BY <1>6, SumBounded
<1> QED
  BY <1>1, <1>4, <1>7

(* The order of a report, and what it shows of it.                           *)
LEMMA DescendingOrders ==
  ASSUME NEW S, IsFiniteSet(S), NEW value, \A x \in S : value[x] \in Nat
  PROVE  LET s == Descending(S, value)
         IN /\ s \in Seq(S) /\ \A x \in S : \E i \in DOMAIN s : s[i] = x
            /\ \A i, j \in DOMAIN s : i < j => value[s[i]] >= value[s[j]]
<1> DEFINE s == Descending(S, value)
<1>1. \E t \in Bijection(1..Cardinality(S), S) :
        \A i, j \in DOMAIN t : i < j => value[t[i]] >= value[t[j]]
  BY InOrder
<1>2. /\ s \in Bijection(1..Cardinality(S), S)
      /\ \A i, j \in DOMAIN s : i < j => value[s[i]] >= value[s[j]]
  BY <1>1 DEF Descending
<1>3. Cardinality(S) \in Nat
  BY FS_CardinalityType
<1> HIDE DEF s
<1>4. s \in [1..Cardinality(S) -> S] /\ \A x \in S : \E i \in 1..Cardinality(S) : s[i] = x
  BY <1>2 DEF Bijection, Surjection, Injection
<1>5. s \in Seq(S) /\ DOMAIN s = 1..Cardinality(S)
  BY <1>3, <1>4
<1> QED
  BY <1>2, <1>4, <1>5 DEF s

LEMMA Truncated ==
  ASSUME NEW S, NEW s \in Seq(S)
  PROVE  LET t == truncate(s)
         IN /\ \A i \in DOMAIN t : i \in DOMAIN s /\ t[i] = s[i]
            /\ \A k \in DOMAIN s \ DOMAIN t, i \in DOMAIN t : i < k
            /\ DOMAIN s # {} /\ maxReported > 0 => 1 \in DOMAIN t
<1>1. maxReported \in Nat /\ Len(s) \in Nat /\ DOMAIN s = 1..Len(s)
  BY AnalyzerAssumption
<1>2. CASE Len(s) > maxReported
  <2>1. truncate(s) = SubSeq(s, 1, maxReported)
    BY <1>2 DEF truncate
  <2>2. /\ DOMAIN SubSeq(s, 1, maxReported) = 1..maxReported
        /\ \A i \in 1..maxReported : SubSeq(s, 1, maxReported)[i] = s[i]
    BY <1>1, <1>2
  <2> QED
    BY <1>1, <1>2, <2>1, <2>2
<1>3. CASE ~ (Len(s) > maxReported)
  <2>1. truncate(s) = s
    BY <1>3 DEF truncate
  <2> QED
    BY <1>1, <2>1
<1> QED
  BY <1>2, <1>3

(* What is cut off blocked no longer than what is shown.                     *)
LEMMA TopShown ==
  ASSUME TypeOK, NEW s \in Sites, blocks[s].count > 0
  PROVE  \/ \E i \in DOMAIN TopBlocking : TopBlocking[i] = s
         \/ \A i \in DOMAIN TopBlocking : blocks[TopBlocking[i]].total >= blocks[s].total
<1> DEFINE used == {t \in Sites : blocks[t].count > 0}
           value == [t \in used |-> blocks[t].total]
           all == Descending(used, value)
<1>1. IsFiniteSet(used) /\ \A t \in used : value[t] \in Nat /\ value[t] = blocks[t].total
  <2>1. blocks \in [Sites -> [count : Nat, total : Nat, max : Nat]]
    BY DEF TypeOK
  <2> QED
    BY <2>1, FS_Subset, AnalyzerAssumption
<1>2. TopBlocking = truncate(all)
  BY DEF TopBlocking
<1>3. s \in used
  OBVIOUS
<1> HIDE DEF used, value
<1>4. /\ all \in Seq(used) /\ \A x \in used : \E i \in DOMAIN all : all[i] = x
      /\ \A i, j \in DOMAIN all : i < j => value[all[i]] >= value[all[j]]
  BY <1>1, DescendingOrders
<1> HIDE DEF all
<1>5. /\ \A i \in DOMAIN TopBlocking : i \in DOMAIN all /\ TopBlocking[i] = all[i]
      /\ \A k \in DOMAIN all \ DOMAIN TopBlocking, i \in DOMAIN TopBlocking : i < k
  BY <1>2, <1>4, Truncated
<1>6. PICK k \in DOMAIN all : all[k] = s
  BY <1>3, <1>4
<1>7. CASE k \in DOMAIN TopBlocking
  BY <1>5, <1>6, <1>7
<1>8. CASE k \notin DOMAIN TopBlocking
  <2>1. ASSUME NEW i \in DOMAIN TopBlocking
        PROVE  blocks[TopBlocking[i]].total >= blocks[s].total
    <3>1. i \in DOMAIN all /\ i < k /\ TopBlocking[i] = all[i]
      BY <1>5, <1>6, <1>8
    <3>2. value[all[i]] >= value[s] /\ all[i] \in used
      BY <1>4, <1>6, <3>1, SeqElement
    <3> QED
      BY <1>1, <1>3, <3>1, <3>2
  <2> QED
    BY <2>1
<1> QED
  BY <1>7, <1>8

(* The longest wait of all groups heads the list.                            *)
LEMMA LongestShown ==
  ASSUME TypeOK, LongestListed, NEW r \in Groups,
         r.maxSchedWait >= minSchedWait, maxReported > 0
  PROVE  LongestSchedWaits[1].wait >= r.maxSchedWait
<1> DEFINE members == {g \in gs : startFunc[g] = r.startFunc}
           waits == {maxSchedWait[g] : g \in members}
           all == DOMAIN schedWaits
           value == [i \in all |-> schedWaits[i].wait]
           ordered == Descending(all, value)
           longest == truncate(ordered)
<1>1. PICK g \in gs : r.maxSchedWait = maxSchedWait[g]
  <2>1. IsFiniteSet(members) /\ members \subseteq gs /\ \A g \in members : maxSchedWait[g] \in Nat
    BY FS_Subset, AnalyzerAssumption DEF TypeOK
  <2>2. members # {} /\ r.maxSchedWait = Max(waits)
    BY GroupIs
  <2> DEFINE sorted == Descending(members, maxSchedWait)
  <2>3. \E g \in members : \A h \in members : maxSchedWait[g] >= maxSchedWait[h]
    <3> HIDE DEF members
    <3>1. /\ sorted \in Seq(members) /\ \A x \in members : \E i \in DOMAIN sorted : sorted[i] = x
          /\ \A i, j \in DOMAIN sorted : i < j => maxSchedWait[sorted[i]] >= maxSchedWait[sorted[j]]
      BY <2>1, DescendingOrders
    <3> HIDE DEF sorted
    <3>2. 1 \in DOMAIN sorted /\ \A i \in DOMAIN sorted : i = 1 \/ 1 < i
      BY <2>2, <3>1
    <3>3. sorted[1] \in members
      BY <3>1, <3>2
    <3>4. ASSUME NEW h \in members PROVE maxSchedWait[sorted[1]] >= maxSchedWait[h]
      <4>1. PICK i \in DOMAIN sorted : sorted[i] = h
        BY <3>1
      <4>2. CASE i = 1
        BY <2>1, <4>1, <4>2
      <4>3. CASE 1 < i
        BY <3>1, <3>2, <4>1, <4>3
      <4> QED
        BY <3>2, <4>2, <4>3
    <3> QED
      BY <3>3, <3>4
  <2>4. Max(waits) \in waits
    BY <2>3 DEF Max
  <2> QED
    BY <2>2, <2>4
<1>2. PICK k \in all : schedWaits[k].wait = r.maxSchedWait
  BY <1>1 DEF LongestListed
<1>3. IsFiniteSet(all) /\ \A i \in all : value[i] \in Nat /\ value[i] = schedWaits[i].wait
  <2>1. DOMAIN schedWaits = 1..Len(schedWaits) /\ Len(schedWaits) \in Nat
    BY DEF TypeOK
  <2> QED
    BY <2>1, FS_Interval, WaitOfSomebody
<1>4. LongestSchedWaits = [i \in DOMAIN longest |-> schedWaits[longest[i]]]
  BY DEF LongestSchedWaits
<1> HIDE DEF all, value
<1>5. /\ ordered \in Seq(all) /\ \A x \in all : \E i \in DOMAIN ordered : ordered[i] = x
      /\ \A i, j \in DOMAIN ordered : i < j => value[ordered[i]] >= value[ordered[j]]
  BY <1>3, DescendingOrders
<1> HIDE DEF ordered
<1>6. /\ \A i \in DOMAIN longest : i \in DOMAIN ordered /\ longest[i] = ordered[i]
      /\ DOMAIN ordered # {} => 1 \in DOMAIN longest
  BY <1>5, Truncated
<1>7. PICK j \in DOMAIN ordered : ordered[j] = k
  BY <1>2, <1>5
<1>8. 1 \in DOMAIN longest /\ 1 \in DOMAIN ordered /\ longest[1] = ordered[1]
  BY <1>6, <1>7
<1> HIDE DEF longest
<1>9. LongestSchedWaits[1].wait = value[ordered[1]]
  <2>1. ordered[1] \in all
    BY <1>5, <1>8, SeqElement
  <2> QED
    BY <1>3, <1>4, <1>8, <2>1
<1>10. value[ordered[1]] >= value[k]
  <2>1. j = 1 \/ 1 < j
    BY <1>5, <1>7
  <2>2. value[k] \in Nat
    BY <1>2, <1>3
  <2> QED
    BY <1>5, <1>7, <1>8, <2>1, <2>2
<1> QED
  BY <1>2, <1>3, <1>9, <1>10

(* What the analyzer reports agrees with itself and with the program it      *)
(* watched (analyzer.go: summary, and the recorders of solution.diff), for   *)
(* any number of goroutines and sites, any trace and any length of the       *)
(* report: blocked time by site is that by goroutine, the waits listed are   *)
(* those that were, groups add up, and what is cut off is no worse than what *)
(* is shown.                                                                 *)
THEOREM SummaryIsTrue == Spec => []SummaryTrue
<1>1. ASSUME SumInv PROVE SummaryTrue
  <2>1. TypeOK /\ Timely /\ LongestListed /\ WithinTrace /\ BlockedAgrees
    BY <1>1 DEF SumInv, WaitInv, Inv, BucketsTrue
  <2>2. WaitsAgree
    BY <1>1, WaitsSummed
  <2>3. ReportAgrees
    BY <2>1, GroupsCounted, GroupsTimed, LongestShown, TopShown DEF ReportAgrees
  <2> QED
    BY <2>1, <2>2, <2>3 DEF SummaryTrue
<1> QED
  BY <1>1, SumInvariance, PTL

-----------------------------------------------------------------------------
(* The lookup service.  Who is inside the lock: the refresher from Lock to   *)
(* Write, in the shipped build with the verification in between, and then no *)
(* reader.                                                                   *)
Locked ==
  /\ holds <=> (refresher = "write" \/ (refresher = "verify" /\ build = "shipped"))
  /\ holds => Readers = {}
  /\ refresher \in {"verify", "lock", "write"} => round < Rounds

(* Every entry is as new as the last full refresh that has ended, and no     *)
(* request under way began after a later one.                                *)
UpToDate ==
  /\ verified <= round
  /\ \A e \in Entries : cache[e] >= verified
  /\ \A w \in Workers : promised[w] <= verified

Served == LookupTypeOK /\ SlowOnlyShipped /\ Locked /\ UpToDate

LEMMA ServedInit == ASSUME LookupInit PROVE Served
<1>1. Rounds \in Nat /\ Cap \in Nat /\ 0 \in 0..Rounds /\ 0 \in 0..Cap
  BY LookupAssumption
<1>2. LookupTypeOK
  BY <1>1 DEF LookupInit, LookupTypeOK
<1>3. SlowOnlyShipped /\ Locked /\ UpToDate
  BY <1>1 DEF LookupInit, SlowOnlyShipped, Readers, Locked, UpToDate
<1> QED
  BY <1>2, <1>3 DEF Served

LEMMA ServedTyped ==
  ASSUME LookupTypeOK, Locked, [LookupNext]_lookupVars
  PROVE  LookupTypeOK'
<1>0. /\ Rounds \in Nat /\ Cap \in Nat /\ round \in 0..Rounds /\ verified \in 0..Rounds
      /\ latencies \in 0..Cap
  BY LookupAssumption DEF LookupTypeOK
<1> USE DEF LookupTypeOK, refreshing, serving
<1>1. CASE Tick
  BY <1>1 DEF Tick
<1>2. CASE Lock
  BY <1>2 DEF Lock
<1>3. CASE Verify
  BY <1>3 DEF Verify
<1>4. CASE Write
  <2>1. /\ round + 1 \in 0..Rounds /\ verified' \in 0..Rounds /\ round' = round + 1
        /\ cache \in [Entries -> 0..Rounds]
    BY <1>0, <1>4 DEF Write, Locked
  <2>2. PICK some \in Touched(round) :
          cache' = [e \in Entries |-> IF e \in some THEN round + 1 ELSE cache[e]]
    BY <1>4 DEF Write
  <2>3. cache' \in [Entries -> 0..Rounds]
    BY <2>1, <2>2, SMT
  <2> QED
    BY <1>4, <2>1, <2>3 DEF Write
<1>5. CASE RefresherLeaves
  BY <1>5 DEF RefresherLeaves
<1>6. CASE Report
  BY <1>0, <1>6 DEF Report
<1>7. CASE ReporterLeaves \/ CloseStop \/ Finish
  BY <1>7 DEF ReporterLeaves, CloseStop, Finish
<1>8. ASSUME NEW w \in Workers, Check(w) \/ RLock(w) \/ handle(w)
      PROVE  LookupTypeOK'
  BY <1>8 DEF Check, RLock, handle
<1>9. ASSUME NEW w \in Workers, Send(w) PROVE LookupTypeOK'
  BY <1>0, <1>9 DEF Send
<1>10. CASE UNCHANGED lookupVars
  BY <1>10 DEF lookupVars
<1> QED
  BY <1>1, <1>2, <1>3, <1>4, <1>5, <1>6, <1>7, <1>8, <1>9, <1>10
     DEF LookupNext, refresh, worker

LEMMA LockedStays ==
  ASSUME LookupTypeOK, Locked, [LookupNext]_lookupVars
  PROVE  Locked'
<1>0. /\ Rounds \in Nat /\ round \in 0..Rounds
      /\ build \in {"shipped", "solution"} /\ holds \in BOOLEAN
      /\ pc \in [Workers -> {"check", "rlock", "handle", "send", "gone"}]
  BY LookupAssumption DEF LookupTypeOK
<1> USE DEF Locked, refreshing, serving, Readers
<1>1. CASE Tick
  BY <1>0, <1>1 DEF Tick, VerifiesLocked
<1>2. CASE Lock
  BY <1>0, <1>2 DEF Lock, VerifiesLocked
<1>3. CASE Verify
  BY <1>3 DEF Verify
<1>4. CASE Write
  BY <1>4 DEF Write
<1>5. CASE RefresherLeaves
  BY <1>5 DEF RefresherLeaves
<1>6. CASE Report \/ ReporterLeaves \/ CloseStop \/ Finish
  BY <1>6 DEF Report, ReporterLeaves, CloseStop, Finish
<1>7. ASSUME NEW w \in Workers, Check(w) \/ handle(w) \/ Send(w)
      PROVE  Locked'
  <2>1. Readers' \subseteq Readers
    BY <1>0, <1>7 DEF Check, handle, Send
  <2>2. UNCHANGED <<build, holds, refresher, round>>
    BY <1>7 DEF Check, handle, Send
  <2> QED
    BY <2>1, <2>2
<1>8. ASSUME NEW w \in Workers, RLock(w) PROVE Locked'
  BY <1>0, <1>8 DEF RLock
<1>9. CASE UNCHANGED lookupVars
  BY <1>9 DEF lookupVars
<1> QED
  BY <1>1, <1>2, <1>3, <1>4, <1>5, <1>6, <1>7, <1>8, <1>9
     DEF LookupNext, refresh, worker

LEMMA UpToDateStays ==
  ASSUME LookupTypeOK, UpToDate, [LookupNext]_lookupVars
  PROVE  UpToDate'
<1>0. /\ Rounds \in Nat /\ round \in Nat /\ verified \in Nat
      /\ \A e \in Entries : cache[e] \in Nat
      /\ \A w \in Workers : promised[w] \in Nat
  BY LookupAssumption DEF LookupTypeOK
<1> USE DEF refreshing, serving
<1>1. CASE Write
  <2>1. PICK some \in Touched(round) :
          cache' = [e \in Entries |-> IF e \in some THEN round + 1 ELSE cache[e]]
    BY <1>1 DEF Write
  <2>2. round' = round + 1 /\ promised' = promised
    BY <1>1 DEF Write
  <2>3. CASE IsFull(round)
    <3>1. verified' = round + 1 /\ some = Entries
      BY <1>1, <2>1, <2>3 DEF Write, Touched
    <3> QED
      BY <1>0, <2>1, <2>2, <3>1 DEF UpToDate
  <2>4. CASE ~IsFull(round)
    <3>1. verified' = verified
      BY <1>1, <2>4 DEF Write
    <3> QED
      BY <1>0, <2>1, <2>2, <3>1 DEF UpToDate
  <2> QED
    BY <2>3, <2>4
<1>2. ASSUME NEW w \in Workers, Check(w) PROVE UpToDate'
  <2>1. \A v \in Workers : promised'[v] = promised[v] \/ promised'[v] = verified
    BY <1>2 DEF Check, LookupTypeOK
  <2> QED
    BY <1>0, <1>2, <2>1 DEF Check, UpToDate
<1>3. CASE UNCHANGED <<cache, round, verified, promised>>
  BY <1>3 DEF UpToDate
<1>4. CASE \/ Tick \/ Lock \/ Verify \/ RefresherLeaves \/ Report
           \/ ReporterLeaves \/ CloseStop \/ Finish \/ UNCHANGED lookupVars
  BY <1>3, <1>4 DEF Tick, Lock, Verify, RefresherLeaves, Report,
                    ReporterLeaves, CloseStop, Finish, lookupVars
<1>5. ASSUME NEW w \in Workers, RLock(w) \/ handle(w) \/ Send(w)
      PROVE  UpToDate'
  BY <1>3, <1>5 DEF RLock, handle, Send
<1> QED
  BY <1>1, <1>2, <1>4, <1>5 DEF LookupNext, refresh, worker

LEMMA SlowStays ==
  ASSUME Locked, SlowOnlyShipped, [LookupNext]_lookupVars
  PROVE  SlowOnlyShipped'
<1> USE DEF SlowOnlyShipped, refreshing, serving
<1>1. CASE Verify
  BY <1>1 DEF Verify, Locked
<1>2. CASE \/ Tick \/ Lock \/ Write \/ RefresherLeaves \/ Report
           \/ ReporterLeaves \/ CloseStop \/ Finish \/ UNCHANGED lookupVars
  BY <1>2 DEF Tick, Lock, Write, RefresherLeaves, Report,
              ReporterLeaves, CloseStop, Finish, lookupVars
<1>3. ASSUME NEW w \in Workers, worker(w) PROVE SlowOnlyShipped'
  BY <1>3 DEF worker, Check, RLock, handle, Send
<1> QED
  BY <1>1, <1>2, <1>3 DEF LookupNext, refresh

LEMMA ServedNext ==
  ASSUME Served, [LookupNext]_lookupVars PROVE Served'
  BY ServedTyped, LockedStays, UpToDateStays, SlowStays DEF Served

(* For any number of workers, keys and refreshes, and any capacity of the    *)
(* channel, in both builds: the map is never written while a request reads   *)
(* it, no request gets an entry older than the last full refresh that ended  *)
(* before it began, and with solution.diff no request waits out a            *)
(* verification (main.go:40-53, 127-151).                                    *)
THEOREM WellServed == LookupSpec => []ServedWell
<1>1. ASSUME Served PROVE ServedWell
  <2>1. NoMapRace
    BY <1>1 DEF Served, Locked, NoMapRace
  <2>2. FreshEnough
    <3> SUFFICES ASSUME NEW w \in Workers, NEW e \in Entries PROVE cache[e] >= promised[w]
      BY DEF FreshEnough, Readers
    <3>1. cache[e] \in Nat /\ promised[w] \in Nat /\ verified \in Nat
      BY <1>1, LookupAssumption DEF Served, LookupTypeOK
    <3> QED
      BY <1>1, <3>1 DEF Served, UpToDate
  <2> QED
    BY <1>1, <2>1, <2>2 DEF Served, ServedWell
<1> QED
  BY <1>1, ServedInit, ServedNext, PTL DEF LookupSpec

-----------------------------------------------------------------------------
(* main is past bg.Wait only when every worker has returned.                 *)
AllReturned == finished => \A w \in Workers : pc[w] = "gone"

LEMMA AllReturnedStays == ASSUME AllReturned, [LookupNext]_lookupVars PROVE AllReturned'
<1> USE DEF AllReturned, refreshing, serving
<1>1. CASE Finish
  BY <1>1 DEF Finish
<1>2. CASE \/ Tick \/ refresh \/ RefresherLeaves \/ Report
           \/ ReporterLeaves \/ CloseStop \/ UNCHANGED lookupVars
  BY <1>2 DEF Tick, refresh, Lock, Verify, Write,
              RefresherLeaves, Report, ReporterLeaves, CloseStop,
              lookupVars
<1>3. ASSUME NEW w \in Workers, worker(w) PROVE AllReturned'
  BY <1>3 DEF worker, Check, RLock, handle, Send, Running
<1> QED
  BY <1>1, <1>2, <1>3 DEF LookupNext

(* A full channel that nobody empties stays full, and its sender waiting.    *)
LEMMA JamStays ==
  ASSUME LookupTypeOK, Jammed, [LookupNext]_lookupVars
  PROVE  Jammed'
<1>0. Cap \in Nat /\ pc \in [Workers -> {"check", "rlock", "handle", "send", "gone"}]
  BY LookupAssumption DEF LookupTypeOK
<1>1. PICK w \in Workers : pc[w] = "send"
  BY DEF Jammed
<1>2. stop /\ reporterGone /\ latencies = Cap
  BY DEF Jammed
<1> USE DEF refreshing, serving
<1> DEFINE Waits == pc[w] = "send" /\ stop /\ reporterGone /\ latencies = Cap
<1>3. CASE \/ Tick \/ refresh \/ RefresherLeaves \/ Report
           \/ ReporterLeaves \/ CloseStop \/ Finish \/ UNCHANGED lookupVars
  <2>1. Waits'
    BY <1>1, <1>2, <1>3
       DEF Tick, refresh, Lock, Verify, Write, Report,
           RefresherLeaves, ReporterLeaves, CloseStop, Finish, lookupVars
  <2> QED
    BY <2>1 DEF Jammed
<1>4. ASSUME NEW v \in Workers, Check(v) \/ RLock(v) \/ handle(v)
      PROVE  Jammed'
  <2>1. Waits'
    BY <1>0, <1>1, <1>2, <1>4 DEF Check, RLock, handle
  <2> QED
    BY <2>1 DEF Jammed
<1>5. ASSUME NEW v \in Workers, Send(v) PROVE FALSE
  BY <1>0, <1>2, <1>5 DEF Send
<1> QED
  BY <1>3, <1>4, <1>5 DEF LookupNext, worker

(* The hang at shutdown is for good, whatever the capacity: once the         *)
(* reporter has left, latencies is full and a worker waits to send, no step  *)
(* changes that, and bg.Wait never returns (main.go:119, 153-167).           *)
THEOREM JammedForGood == LookupSpec => [](Jammed => [](Jammed /\ ~finished))
<1>1. LookupInit => AllReturned
  BY DEF LookupInit, AllReturned
<1>2. ASSUME AllReturned, Jammed PROVE ~finished
  BY <1>2 DEF AllReturned, Jammed
<1>3. ASSUME Served PROVE LookupTypeOK
  BY <1>3 DEF Served
<1> QED
  BY <1>1, <1>2, <1>3, ServedInit, ServedNext, AllReturnedStays, JamStays, PTL DEF LookupSpec
=============================================================================
