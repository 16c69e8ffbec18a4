---------------------------- MODULE FanOutProofs ----------------------------
(* What holds of the log ingester for every pool, capacity, stream and build.*)
EXTENDS FanOut, TLAPS, FiniteSetTheorems, SequenceTheorems

LEMMA AppendFacts ==
  ASSUME NEW S, NEW s \in Seq(S), NEW e \in S
  PROVE  /\ Append(s, e) \in Seq(S)
         /\ Len(Append(s, e)) = Len(s) + 1
         /\ \A i \in 1..Len(s) : Append(s, e)[i] = s[i]
         /\ Append(s, e)[Len(s) + 1] = e
  OBVIOUS

LEMMA IntervalSize ==
  ASSUME NEW n \in Nat PROVE IsFiniteSet(1..n) /\ Cardinality(1..n) = n
<1>1. Cardinality(1..n) = IF 1 <= n THEN n - 1 + 1 ELSE 0
  BY FS_Interval
<1> QED
  BY <1>1, FS_Interval

LEMMA StreamFacts ==
  ASSUME stream \in Streams
  PROVE  /\ Len(stream) \in Nat
         /\ \A e \in 1..Len(stream) : stream[e] \in Severity
<1>1. stream \in Seq(Severity)
  BY FanOutAssumption
<1> QED
  BY <1>1, LenProperties, ElementOfSeq

-----------------------------------------------------------------------------
(* The workers that have an event.                                           *)
Busy == {w \in Workers : pc[w] \in {"record", "note", "unlock", "send"}}

(* TypeOK is not inductive: that the counts stay within the stream follows   *)
(* only from what they count.  Types leaves these bounds out, and adds that  *)
(* a busy worker does have an event.                                         *)
Types ==
  /\ build \in Builds /\ stream \in Streams
  /\ fed \in 0..Len(stream) /\ eventsClosed \in BOOLEAN
  /\ pc \in [Workers -> {"receive", "record", "note", "unlock", "send", "returned"}]
  /\ ev \in [Workers -> 0..Len(stream)] /\ mu \subseteq Workers
  /\ bySeverity \in [Severity -> Nat] /\ critical \subseteq 1..Len(stream)
  /\ results \in Seq(1..Len(stream)) /\ Len(results) <= ResultsCap
  /\ resultsClosed \in BOOLEAN /\ finished \in BOOLEAN
  /\ collected \in Nat /\ seen \subseteq 1..Len(stream)
  /\ \A w \in Busy : ev[w] \in 1..fed

(* Who is in Record has the mutex, and nobody else; the channels are closed  *)
(* in their order, each when there is nobody left to send on it.             *)
Exclusive ==
  /\ mu = {w \in Workers : InRecord(w)}
  /\ \A w, v \in mu : w = v
ClosedInOrder ==
  /\ eventsClosed => fed = Len(stream)
  /\ \A w \in Workers : pc[w] = "returned" => eventsClosed
  /\ resultsClosed => \A w \in Workers : pc[w] = "returned"
  /\ finished => resultsClosed /\ results = <<>>
NotesCritical == \A w \in Workers : pc[w] = "note" => stream[ev[w]] = "FATAL"

(* Each event fed is in one place: with one worker, in one slot of results,  *)
(* or collected.                                                             *)
Once ==
  /\ \A w, v \in Busy : ev[w] = ev[v] => w = v
  /\ \A i, j \in 1..Len(results) : results[i] = results[j] => i = j
  /\ \A w \in Busy, i \in 1..Len(results) : ev[w] # results[i]
  /\ \A w \in Busy : ev[w] \notin seen
  /\ \A i \in 1..Len(results) : results[i] \notin seen
Somewhere ==
  /\ \A i \in 1..Len(results) : results[i] \in 1..fed
  /\ seen \subseteq 1..fed
  /\ \A e \in 1..fed : \/ e \in seen
                       \/ \E w \in Busy : ev[w] = e
                       \/ \E i \in 1..Len(results) : results[i] = e
Collected == IsFiniteSet(seen) /\ Cardinality(seen) = collected

(* Stats as it must be.                                                      *)
CriticalNoted ==
  critical = {e \in Recorded : /\ stream[e] = "FATAL"
                               /\ \A w \in Workers : pc[w] = "note" => ev[w] # e}
-----------------------------------------------------------------------------
LEMMA TypesInit == Init => Types
<1> SUFFICES ASSUME Init PROVE Types
  OBVIOUS
<1>1. Len(stream) \in Nat
  BY StreamFacts DEF Init
<1>2. <<>> \in Seq(1..Len(stream)) /\ Len(<<>>) = 0 /\ 0 <= ResultsCap
  BY EmptySeq, FanOutAssumption
<1>3. Busy = {}
  BY DEF Init, Busy
<1>4. pc \in [Workers -> {"receive", "record", "note", "unlock", "send", "returned"}]
  BY DEF Init
<1>5. ev \in [Workers -> 0..Len(stream)] /\ bySeverity \in [Severity -> Nat]
  BY <1>1 DEF Init
<1>6. fed \in 0..Len(stream) /\ results \in Seq(1..Len(stream)) /\ Len(results) <= ResultsCap
  BY <1>1, <1>2 DEF Init
<1> QED
  BY <1>3, <1>4, <1>5, <1>6 DEF Init, Types

LEMMA TypesNext == Types /\ [Next]_vars => Types'
<1> SUFFICES ASSUME Types, [Next]_vars PROVE Types'
  OBVIOUS
<1> USE DEF Types, stats, feeder, main
<1>0. /\ Len(stream) \in Nat /\ Len(results) \in Nat
      /\ \A e \in 1..Len(stream) : stream[e] \in Severity
      /\ \A e \in 1..fed : e \in 1..Len(stream)
  BY StreamFacts, LenProperties
<1>1. ASSUME NEW w \in Workers, Feed(w) PROVE Types'
  <2>1. fed + 1 \in 1..Len(stream)
    BY <1>0, <1>1 DEF Feed
  <2>2. \A v \in Busy' : ev'[v] \in 1..(fed + 1)
    BY <1>0, <1>1, <2>1 DEF Feed, Busy
  <2> QED
    BY <1>1, <2>1, <2>2 DEF Feed
<1>2. CASE CloseEvents
  BY <1>2 DEF CloseEvents, Busy
<1>3. ASSUME NEW w \in Workers, Record(w) PROVE Types'
  <2>1. ev[w] \in 1..Len(stream)
    BY <1>0, <1>3 DEF Record, Busy
  <2>2. \A s \in Severity : bySeverity[s] + 1 \in Nat
    OBVIOUS
  <2>3. bySeverity' \in [Severity -> Nat]
    BY <1>0, <1>3, <2>1, <2>2 DEF Record, Counts
  <2> QED
    BY <1>3, <2>3 DEF Record, Busy
<1>4. ASSUME NEW w \in Workers, NoteCritical(w) PROVE Types'
  <2>1. ev[w] \in 1..Len(stream)
    BY <1>0, <1>4 DEF NoteCritical, Busy
  <2> QED
    BY <1>4, <2>1 DEF NoteCritical, Busy
<1>5. ASSUME NEW w \in Workers, Unlock(w) PROVE Types'
  BY <1>5 DEF Unlock, Busy
<1>6. ASSUME NEW w \in Workers, Send(w) PROVE Types'
  <2>1. ev[w] \in 1..Len(stream)
    BY <1>0, <1>6 DEF Send, Busy
  <2>2. results' \in Seq(1..Len(stream)) /\ Len(results') = Len(results) + 1
    BY <1>6, <2>1, AppendFacts DEF Send
  <2>3. Len(results') <= ResultsCap
    BY <1>0, <1>6, <2>2, FanOutAssumption DEF Send
  <2>4. ev' \in [Workers -> 0..Len(stream)] /\ \A v \in Busy' : ev'[v] \in 1..fed
    BY <1>0, <1>6 DEF Send, Busy
  <2> QED
    BY <1>6, <2>2, <2>3, <2>4 DEF Send
<1>7. ASSUME NEW w \in Workers, Return(w) PROVE Types'
  BY <1>7 DEF Return, Busy
<1>8. CASE CloseResults
  BY <1>8 DEF CloseResults, Busy
<1>9. CASE Collect
  <2>1. /\ Head(results) \in 1..Len(stream) /\ results' \in Seq(1..Len(stream))
        /\ Len(results') = Len(results) - 1
    BY <1>9, HeadTailProperties DEF Collect
  <2>2. Len(results') <= ResultsCap
    BY <1>0, <2>1, FanOutAssumption
  <2>3. collected' \in Nat
    BY <1>9 DEF Collect
  <2>4. seen' \subseteq 1..Len(stream)
    BY <1>9, <2>1 DEF Collect
  <2> QED
    BY <1>9, <2>1, <2>2, <2>3, <2>4 DEF Collect, Busy
<1>10. CASE Finish
  BY <1>10 DEF Finish, Busy
<1>11. CASE UNCHANGED vars
  BY <1>11 DEF vars, Busy
<1> QED
  BY <1>1, <1>2, <1>3, <1>4, <1>5, <1>6, <1>7, <1>8, <1>9, <1>10, <1>11
     DEF Next, Feeder, Worker
-----------------------------------------------------------------------------
Phases == Exclusive /\ ClosedInOrder /\ NotesCritical

LEMMA PhasesInit == Init => Phases
  BY DEF Init, Phases, Exclusive, ClosedInOrder, NotesCritical, InRecord

LEMMA PhasesNext == Types /\ Phases /\ [Next]_vars => Phases'
<1> SUFFICES ASSUME Types, Phases, [Next]_vars PROVE Phases'
  OBVIOUS
<1> USE DEF Types, Phases, Exclusive, ClosedInOrder, NotesCritical, InRecord,
            stats, feeder, main
<1>0. Len(stream) \in Nat
  BY StreamFacts
<1>1. ASSUME NEW w \in Workers, Feed(w) PROVE Phases'
  BY <1>0, <1>1 DEF Feed
<1>2. CASE CloseEvents
  BY <1>2 DEF CloseEvents
<1>3. ASSUME NEW w \in Workers, Record(w) PROVE Phases'
  BY <1>3 DEF Record
<1>4. ASSUME NEW w \in Workers, NoteCritical(w) PROVE Phases'
  BY <1>4 DEF NoteCritical
<1>5. ASSUME NEW w \in Workers, Unlock(w) PROVE Phases'
  BY <1>5 DEF Unlock
<1>6. ASSUME NEW w \in Workers, Send(w) PROVE Phases'
  BY <1>6 DEF Send
<1>7. ASSUME NEW w \in Workers, Return(w) PROVE Phases'
  BY <1>7 DEF Return
<1>8. CASE CloseResults
  BY <1>8 DEF CloseResults, WaitGroupDone
<1>9. CASE Collect
  BY <1>9 DEF Collect
<1>10. CASE Finish
  BY <1>10 DEF Finish
<1>11. CASE UNCHANGED vars
  BY <1>11 DEF vars
<1> QED
  BY <1>1, <1>2, <1>3, <1>4, <1>5, <1>6, <1>7, <1>8, <1>9, <1>10, <1>11
     DEF Next, Feeder, Worker

(* Stats has one user at a time (main.go:55-71): the worker in Record or in  *)
(* noteCritical is the only one that holds the mutex, in both builds.        *)
THEOREM MutualExclusion == Spec => []Exclusive
<1>1. Phases => Exclusive
  BY DEF Phases
<1> QED
  BY <1>1, TypesInit, TypesNext, PhasesInit, PhasesNext, PTL DEF Spec

-----------------------------------------------------------------------------
Conserved == Once /\ Somewhere /\ Collected

LEMMA ConservedInit == Init => Conserved
<1> SUFFICES ASSUME Init PROVE Conserved
  OBVIOUS
<1>1. Busy = {} /\ Len(results) = 0 /\ seen = {} /\ fed = 0 /\ collected = 0
  BY EmptySeq DEF Init, Busy
<1> QED
  BY <1>1, FS_EmptySet DEF Conserved, Once, Somewhere, Collected

(* The steps that move no event.                                             *)
LEMMA ConservedStays ==
  ASSUME Conserved, UNCHANGED <<fed, ev, results, seen, collected>>, Busy' = Busy
  PROVE  Conserved'
  BY DEF Conserved, Once, Somewhere, Collected

LEMMA ConservedNext == Types /\ Phases /\ Conserved /\ [Next]_vars => Conserved'
<1> SUFFICES ASSUME Types, Phases, Conserved, [Next]_vars PROVE Conserved'
  OBVIOUS
<1> USE DEF stats, feeder, main
<1>0. /\ Len(stream) \in Nat /\ Len(results) \in Nat /\ fed \in Nat
      /\ \A w \in Busy : w \in Workers /\ ev[w] \in 1..fed
  BY StreamFacts, LenProperties DEF Types, Busy
<1>1. ASSUME NEW w \in Workers, Feed(w) PROVE Conserved'
  <2>1. /\ Busy' = Busy \union {w} /\ w \notin Busy /\ ev'[w] = fed + 1
        /\ \A v \in Busy : ev'[v] = ev[v]
        /\ UNCHANGED <<results, seen, collected>> /\ fed' = fed + 1
    BY <1>1 DEF Feed, Busy, Types
  <2>2. fed + 1 \notin 1..fed /\ \A e \in 1..(fed + 1) : e \in 1..fed \/ e = fed + 1
    BY <1>0
  <2>3. Once'
    BY <1>0, <2>1, <2>2 DEF Conserved, Once, Somewhere
  <2>4. /\ \A i \in 1..Len(results) : results[i] \in 1..(fed + 1)
        /\ seen \subseteq 1..(fed + 1)
    BY <1>0 DEF Conserved, Somewhere
  <2>5. \A e \in 1..(fed + 1) : \/ e \in seen
                                \/ \E v \in Busy' : ev'[v] = e
                                \/ \E i \in 1..Len(results) : results[i] = e
    BY <2>1, <2>2 DEF Conserved, Somewhere
  <2> QED
    BY <2>1, <2>3, <2>4, <2>5 DEF Conserved, Somewhere, Collected
<1>2. CASE CloseEvents \/ CloseResults \/ Finish \/ UNCHANGED vars
  BY <1>2, ConservedStays DEF CloseEvents, CloseResults, Finish, vars, Busy
<1>3. ASSUME NEW w \in Workers, Record(w) \/ NoteCritical(w) \/ Unlock(w) \/ Return(w)
      PROVE Conserved'
  BY <1>3, ConservedStays DEF Record, NoteCritical, Unlock, Return, Busy, Types
<1>4. ASSUME NEW w \in Workers, Send(w) PROVE Conserved'
  <2>1. w \in Busy /\ ev[w] \in 1..Len(stream)
    BY <1>0, <1>4 DEF Send, Busy, Types
  <2>2. /\ Len(results') = Len(results) + 1
        /\ \A i \in 1..Len(results) : results'[i] = results[i]
        /\ results'[Len(results) + 1] = ev[w]
    BY <1>4, <2>1, AppendFacts DEF Send, Types
  <2>3. /\ Busy' = Busy \ {w} /\ \A v \in Busy' : ev'[v] = ev[v]
        /\ UNCHANGED <<fed, seen, collected>>
    BY <1>4 DEF Send, Busy, Types
  <2>4. /\ \A i \in 1..Len(results') : i \in 1..Len(results) \/ i = Len(results) + 1
        /\ \A i \in 1..Len(results) : i \in 1..Len(results')
        /\ Len(results) + 1 \in 1..Len(results')
    BY <1>0, <2>2
  <2>5. Once'
    BY <2>1, <2>2, <2>3, <2>4 DEF Conserved, Once
  <2>6. Somewhere'
    BY <1>0, <2>1, <2>2, <2>3, <2>4 DEF Conserved, Somewhere
  <2> QED
    BY <2>3, <2>5, <2>6 DEF Conserved, Collected
<1>5. CASE Collect
  <2>1. /\ Len(results') = Len(results) - 1 /\ Head(results) = results[1]
        /\ \A i \in 1..Len(results') : results'[i] = results[i + 1]
    BY <1>5, HeadTailProperties DEF Collect, Types
  <2>2. 1 \in 1..Len(results)
    BY <1>0, <1>5, EmptySeq DEF Collect, Types
  <2>3. /\ Busy' = Busy /\ UNCHANGED <<ev, fed>>
        /\ seen' = seen \union {results[1]} /\ collected' = collected + 1
    BY <1>5, <2>1 DEF Collect, Busy
  <2>4. \A i \in 1..Len(results') : i + 1 \in 1..Len(results) /\ i + 1 # 1
    BY <1>0, <2>1
  <2>5. \A i, j \in 1..Len(results') : results'[i] = results'[j] => i = j
    <3> SUFFICES ASSUME NEW i \in 1..Len(results'), NEW j \in 1..Len(results'),
                        results'[i] = results'[j]
                 PROVE  i = j
      OBVIOUS
    <3>1. i + 1 = j + 1
      BY <2>1, <2>4 DEF Conserved, Once
    <3> QED
      BY <3>1, <2>1, <1>0
  <2>6. Once'
    BY <2>1, <2>2, <2>3, <2>4, <2>5 DEF Conserved, Once
  <2>7. \A i \in 1..Len(results) : i = 1 \/ (i - 1 \in 1..Len(results') /\ results'[i - 1] = results[i])
    BY <1>0, <2>1
  <2>8. \A e \in 1..fed : \/ e \in seen'
                          \/ \E v \in Busy : ev[v] = e
                          \/ \E i \in 1..Len(results') : results'[i] = e
    BY <2>3, <2>7 DEF Conserved, Somewhere
  <2>9. Somewhere'
    BY <2>1, <2>2, <2>3, <2>4, <2>8 DEF Conserved, Somewhere
  <2>10. Collected'
    BY <2>2, <2>3, FS_AddElement DEF Conserved, Once, Collected
  <2> QED
    BY <2>6, <2>9, <2>10 DEF Conserved
<1> QED
  BY <1>1, <1>2, <1>3, <1>4, <1>5 DEF Next, Feeder, Worker
-----------------------------------------------------------------------------
Tallied == CountsMatch /\ CriticalNoted

LEMMA RecordedMembers ==
  \A e : e \in Recorded <=>
    \/ e \in seen
    \/ \E i \in 1..Len(results) : results[i] = e
    \/ \E w \in Workers : pc[w] \in {"note", "unlock", "send"} /\ ev[w] = e
  BY DEF Recorded, InRecord

(* A step of which results and seen know nothing.                            *)
LEMMA RecordedStays ==
  ASSUME UNCHANGED <<seen, results>>,
         \A w \in Workers : pc'[w] \in {"note", "unlock", "send"}
                             <=> pc[w] \in {"note", "unlock", "send"},
         \A w \in Workers : pc[w] \in {"note", "unlock", "send"} => ev'[w] = ev[w]
  PROVE  Recorded' = Recorded
<1>1. \A e : e \in Recorded' => e \in Recorded
  BY DEF Recorded, InRecord
<1>2. \A e : e \in Recorded => e \in Recorded'
  BY DEF Recorded, InRecord
<1> QED
  BY <1>1, <1>2

Of(s) == {e \in Recorded : stream[e] = s}

LEMMA RecordedFacts ==
  ASSUME Types, Conserved
  PROVE  /\ Recorded \subseteq 1..fed
         /\ \A s : /\ IsFiniteSet(Of(s)) /\ Cardinality(Of(s)) \in Nat
                  /\ Cardinality(Of(s)) <= Len(stream)
<1>0. Len(stream) \in Nat /\ Len(results) \in Nat
  BY StreamFacts, LenProperties DEF Types
<1>1. Recorded \subseteq 1..fed
  <2>1. \A w \in Workers : pc[w] \in {"note", "unlock", "send"} => ev[w] \in 1..fed
    BY DEF Types, Busy
  <2> QED
    BY <2>1, RecordedMembers DEF Conserved, Somewhere
<1>2. 1..fed \subseteq 1..Len(stream)
  BY <1>0 DEF Types
<1>3. IsFiniteSet(1..Len(stream)) /\ Cardinality(1..Len(stream)) = Len(stream)
  BY <1>0, IntervalSize
<1>4. ASSUME NEW s
      PROVE  /\ IsFiniteSet(Of(s)) /\ Cardinality(Of(s)) \in Nat
             /\ Cardinality(Of(s)) <= Len(stream)
  <2>1. Of(s) \in SUBSET (1..Len(stream))
    BY <1>1, <1>2 DEF Of
  <2> QED
    BY <1>3, <2>1, FS_Subset, FS_CardinalityType
<1> QED
  BY <1>1, <1>4

LEMMA TalliedInit == Init => Tallied
<1> SUFFICES ASSUME Init PROVE Tallied
  OBVIOUS
<1>1. Recorded = {}
  BY EmptySeq DEF Init, Recorded, InRecord
<1>2. \A s : {e \in Recorded : stream[e] = s} = {}
  BY <1>1
<1> QED
  BY <1>1, <1>2, FS_EmptySet DEF Init, Tallied, CountsMatch, CriticalNoted

(* The steps that take no event through Record.                              *)
LEMMA TalliedStays ==
  ASSUME Tallied, Recorded' = Recorded, UNCHANGED <<stream, stats>>,
         \A w \in Workers : pc'[w] = "note" <=> pc[w] = "note",
         \A w \in Workers : pc[w] = "note" => ev'[w] = ev[w]
  PROVE  Tallied'
  BY DEF Tallied, CountsMatch, CriticalNoted, stats

LEMMA TalliedNext == Types /\ Phases /\ Conserved /\ Tallied /\ [Next]_vars => Tallied'
<1> SUFFICES ASSUME Types, Phases, Conserved, Tallied, [Next]_vars PROVE Tallied'
  OBVIOUS
<1> USE DEF stats, feeder, main
<1>0. Len(results) \in Nat
  BY LenProperties DEF Types
<1>1. \A e : e \in Recorded' <=>
         \/ e \in seen'
         \/ \E i \in 1..Len(results') : results'[i] = e
         \/ \E w \in Workers : pc'[w] \in {"note", "unlock", "send"} /\ ev'[w] = e
  BY DEF Recorded, InRecord
<1>2. ASSUME NEW w \in Workers, Feed(w) \/ Unlock(w) \/ Return(w) PROVE Tallied'
  <2>1. Recorded' = Recorded
    BY <1>2, RecordedStays DEF Feed, Unlock, Return, Types
  <2> QED
    BY <1>2, <2>1, TalliedStays DEF Feed, Unlock, Return, Types
<1>3. CASE CloseEvents \/ CloseResults \/ Finish \/ UNCHANGED vars
  <2>1. Recorded' = Recorded
    BY <1>1, <1>3, RecordedMembers DEF CloseEvents, CloseResults, Finish, vars
  <2> QED
    BY <1>3, <2>1, TalliedStays DEF CloseEvents, CloseResults, Finish, vars
<1>4. ASSUME NEW w \in Workers, Record(w) PROVE Tallied'
  <2>1. /\ w \in Busy /\ ev[w] \in 1..Len(stream) /\ stream[ev[w]] \in Severity
        /\ UNCHANGED <<seen, results, ev, stream, critical>>
        /\ \A v \in Workers : v # w => pc'[v] = pc[v] /\ pc[v] # "note"
        /\ pc'[w] = IF stream[ev[w]] = "FATAL" THEN "note" ELSE "unlock"
        /\ pc[w] # "note"
    BY <1>4, StreamFacts DEF Record, Busy, Types, Phases, Exclusive, InRecord
  <2>2. ev[w] \notin Recorded
    BY <2>1, <1>4, RecordedMembers DEF Record, Busy, Conserved, Once
  <2>3. Recorded' = Recorded \union {ev[w]}
    <3>1. \A e : e \in Recorded' => e \in Recorded \union {ev[w]}
      BY <1>1, <2>1, RecordedMembers
    <3>2. \A e : e \in Recorded => e \in Recorded'
      BY <1>1, <1>4, <2>1, RecordedMembers DEF Record
    <3>3. ev[w] \in Recorded'
      BY <1>1, <2>1
    <3> QED
      BY <3>1, <3>2, <3>3
  <2>4. CountsMatch'
    <3> SUFFICES ASSUME NEW s \in Severity
                 PROVE  bySeverity'[s] = Cardinality(Of(s)')
      BY DEF CountsMatch, Of
    <3>1. bySeverity[s] = Cardinality(Of(s))
      BY DEF Tallied, CountsMatch, Of
    <3>2. CASE stream[ev[w]] = s
      <4>0. ev[w] \notin Of(s)
        BY <2>2 DEF Of
      <4>1. Of(s)' = Of(s) \union {ev[w]}
        BY <2>1, <2>3, <3>2 DEF Of
      <4>2. Cardinality(Of(s)') = Cardinality(Of(s)) + 1
        BY <2>2, <4>0, <4>1, RecordedFacts, FS_AddElement
      <4>3. bySeverity'[s] = bySeverity[s] + 1
        BY <1>4, <3>2 DEF Record, Counts, Types
      <4> QED
        BY <3>1, <4>2, <4>3
    <3>3. CASE stream[ev[w]] # s
      <4>1. Of(s)' = Of(s)
        BY <2>1, <2>3, <3>3 DEF Of
      <4>2. bySeverity'[s] = bySeverity[s]
        BY <1>4, <3>3 DEF Record, Types
      <4> QED
        BY <3>1, <4>1, <4>2
    <3> QED
      BY <3>2, <3>3
  <2>5. CriticalNoted'
    BY <2>1, <2>2, <2>3 DEF Tallied, CriticalNoted
  <2> QED
    BY <2>4, <2>5 DEF Tallied
<1>5. ASSUME NEW w \in Workers, NoteCritical(w) PROVE Tallied'
  <2>1. /\ w \in Busy /\ pc[w] = "note" /\ stream[ev[w]] = "FATAL"
        /\ UNCHANGED <<seen, results, ev, stream, bySeverity>>
        /\ \A v \in Workers : v # w => pc'[v] = pc[v] /\ pc[v] # "note"
        /\ pc'[w] = "unlock" /\ critical' = critical \union {ev[w]}
    BY <1>5 DEF NoteCritical, Busy, Types, Phases, Exclusive, InRecord, NotesCritical
  <2>2. Recorded' = Recorded /\ ev[w] \in Recorded
    BY <2>1, RecordedStays, RecordedMembers
  <2>3. CountsMatch'
    BY <2>1, <2>2 DEF Tallied, CountsMatch
  <2>4. CriticalNoted'
    BY <2>1, <2>2 DEF Tallied, CriticalNoted
  <2> QED
    BY <2>3, <2>4 DEF Tallied
<1>6. ASSUME NEW w \in Workers, Send(w) PROVE Tallied'
  <2>1. ev[w] \in 1..Len(stream)
    BY <1>6, StreamFacts DEF Send, Busy, Types
  <2>2. /\ Len(results') = Len(results) + 1
        /\ \A i \in 1..Len(results) : results'[i] = results[i]
        /\ results'[Len(results) + 1] = ev[w]
    BY <1>6, <2>1, AppendFacts DEF Send, Types
  <2>3. /\ \A i \in 1..Len(results') : i \in 1..Len(results) \/ i = Len(results) + 1
        /\ \A i \in 1..Len(results) : i \in 1..Len(results')
        /\ Len(results) + 1 \in 1..Len(results')
    BY <1>0, <2>2
  <2>4. /\ pc[w] = "send" /\ pc'[w] = "receive" /\ seen' = seen
        /\ \A v \in Workers : v # w => pc'[v] = pc[v] /\ ev'[v] = ev[v]
    BY <1>6 DEF Send, Types
  <2>5. Recorded' = Recorded
    <3>1. \A e : e \in Recorded' => e \in Recorded
      BY <1>1, <2>2, <2>3, <2>4, RecordedMembers
    <3>2. \A e : e \in Recorded => e \in Recorded'
      BY <1>1, <2>2, <2>3, <2>4, RecordedMembers
    <3> QED
      BY <3>1, <3>2
  <2> QED
    BY <1>6, <2>4, <2>5, TalliedStays DEF Send
<1>7. CASE Collect
  <2>1. /\ Len(results') = Len(results) - 1 /\ Head(results) = results[1]
        /\ \A i \in 1..Len(results') : results'[i] = results[i + 1]
    BY <1>7, HeadTailProperties DEF Collect, Types
  <2>2. 1 \in 1..Len(results)
    BY <1>0, <1>7, EmptySeq DEF Collect, Types
  <2>3. \A i \in 1..Len(results') : i + 1 \in 1..Len(results)
    BY <1>0, <2>1
  <2>4. \A i \in 1..Len(results) :
          i = 1 \/ (i - 1 \in 1..Len(results') /\ results'[i - 1] = results[i])
    BY <1>0, <2>1
  <2>5. seen' = seen \union {results[1]} /\ pc' = pc /\ ev' = ev
    BY <1>7, <2>1 DEF Collect
  <2>6. Recorded' = Recorded
    <3>1. \A e : e \in Recorded' => e \in Recorded
      BY <1>1, <2>1, <2>2, <2>3, <2>5, RecordedMembers
    <3>2. \A e : e \in Recorded => e \in Recorded'
      BY <1>1, <2>4, <2>5, RecordedMembers
    <3> QED
      BY <3>1, <3>2
  <2> QED
    BY <1>7, <2>5, <2>6, TalliedStays DEF Collect
<1> QED
  BY <1>2, <1>3, <1>4, <1>5, <1>6, <1>7 DEF Next, Feeder, Worker
-----------------------------------------------------------------------------
Inv == Types /\ Phases /\ Conserved /\ Tallied

LEMMA Invariant == Spec => []Inv
  BY TypesInit, TypesNext, PhasesInit, PhasesNext, ConservedInit, ConservedNext,
     TalliedInit, TalliedNext, PTL DEF Spec, Inv

(* The counts, and what main has collected, stay within the stream, results  *)
(* within its capacity (main.go:147, 180-184).                               *)
THEOREM TypeCorrect == Spec => []TypeOK
<1>1. ASSUME Inv PROVE TypeOK
  <2>0. Len(stream) \in Nat
    BY <1>1, StreamFacts DEF Inv, Types
  <2>1. collected <= Len(stream)
    <3>1. seen \in SUBSET (1..Len(stream)) /\ collected = Cardinality(seen)
      BY <1>1 DEF Inv, Types, Conserved, Collected
    <3>2. Cardinality(seen) <= Cardinality(1..Len(stream))
      BY <2>0, <3>1, IntervalSize, FS_Subset
    <3> QED
      BY <2>0, <3>1, <3>2, IntervalSize
  <2>2. \A s \in Severity : bySeverity[s] <= Len(stream)
    BY <1>1, RecordedFacts DEF Inv, Tallied, CountsMatch, Of
  <2>3. bySeverity \in [Severity -> 0..Len(stream)]
    BY <1>1, <2>0, <2>2 DEF Inv, Types
  <2> QED
    BY <1>1, <2>0, <2>1, <2>3 DEF Inv, Types, TypeOK
<1> QED
  BY <1>1, Invariant, PTL

(* Stats is exact at any moment: no count is lost and none is doubled, with  *)
(* any number of workers (main.go:55-63).                                    *)
THEOREM CountsExact == Spec => []CountsMatch
<1>1. Inv => CountsMatch
  BY DEF Inv, Tallied
<1> QED
  BY <1>1, Invariant, PTL

LEMMA AllSeen ==
  ASSUME Inv, resultsClosed
  PROVE  /\ mu = {} /\ \A w \in Workers : pc[w] = "returned"
         /\ Busy = {} /\ fed = Len(stream)
<1>1. \A w \in Workers : pc[w] = "returned"
  BY DEF Inv, Phases, ClosedInOrder
<1>2. eventsClosed
  BY <1>1, FanOutAssumption DEF Inv, Phases, ClosedInOrder
<1> QED
  BY <1>1, <1>2 DEF Inv, Phases, ClosedInOrder, Exclusive, InRecord, Busy

LEMMA QuietFacts == Inv => QuietOnceClosed
<1> SUFFICES ASSUME Inv, resultsClosed
             PROVE  critical = {e \in 1..Len(stream) : stream[e] = "FATAL"}
  BY AllSeen DEF QuietOnceClosed
<1>1. Recorded = 1..Len(stream)
  <2>1. \A e \in 1..fed : e \in Recorded
    BY AllSeen, RecordedMembers DEF Inv, Conserved, Somewhere
  <2>2. Recorded \subseteq 1..fed
    BY RecordedFacts DEF Inv
  <2> QED
    BY <2>1, <2>2, AllSeen
<1>2. \A w \in Workers : pc[w] # "note"
  BY AllSeen
<1> QED
  BY <1>1, <1>2 DEF Inv, Tallied, CriticalNoted

(* When results is closed the workers are gone and Stats is complete: main   *)
(* may read it without the lock, and nobody sends on a closed channel        *)
(* (main.go:156-160, 191-193).                                               *)
THEOREM QuietAtTheEnd == Spec => []QuietOnceClosed
  BY QuietFacts, Invariant, PTL

-----------------------------------------------------------------------------
(* The safety half of what Settles says of the shipped build.                *)
NothingNoted == build = "shipped" => critical = {}

(* In the shipped build noteCritical waits for the mutex its caller holds    *)
(* (main.go:61, 67): no critical ID is ever noted, so with a critical event  *)
(* in the stream main never gets to its report.                              *)
THEOREM CriticalNeverFinishes ==
  Spec => [](build = "shipped" /\ HasCritical => ~finished)
<1>1. Init => NothingNoted
  BY DEF Init, NothingNoted
<1>2. Inv /\ NothingNoted /\ [Next]_vars => NothingNoted'
  <2> SUFFICES ASSUME Inv, NothingNoted, [Next]_vars PROVE NothingNoted'
    OBVIOUS
  <2>1. ASSUME NEW w \in Workers, NoteCritical(w), build = "shipped" PROVE FALSE
    BY <2>1 DEF NoteCritical, LocksAgain, Inv, Phases, Exclusive, InRecord
  <2> QED
    BY <2>1 DEF Next, Feeder, Feed, CloseEvents, Worker, Record, NoteCritical, Unlock, Send,
                Return, CloseResults, Collect, Finish, vars, stats, NothingNoted
<1>3. ASSUME Inv, NothingNoted PROVE build = "shipped" /\ HasCritical => ~finished
  <2>1. CASE resultsClosed
    <3>1. critical = {e \in 1..Len(stream) : stream[e] = "FATAL"}
      BY <1>3, <2>1, QuietFacts DEF QuietOnceClosed
    <3> QED
      BY <1>3, <3>1 DEF NothingNoted, HasCritical
  <2>2. CASE ~resultsClosed
    BY <1>3, <2>2 DEF Inv, Phases, ClosedInOrder
  <2> QED
    BY <2>1, <2>2
<1> QED
  BY <1>1, <1>2, <1>3, Invariant, PTL DEF Spec

(* Once a worker waits for the mutex it holds itself it waits for good: no   *)
(* step of any goroutine can free it.                                        *)
THEOREM DeadlockIsForGood == Spec => [][SelfDeadlocked => SelfDeadlocked']_vars
<1>1. ASSUME Inv, [Next]_vars, SelfDeadlocked PROVE SelfDeadlocked'
  <2>1. PICK w \in Workers : pc[w] = "note" /\ mu = {w} /\ build = "shipped"
    BY <1>1 DEF SelfDeadlocked, LocksAgain
  <2>2. pc \in [Workers -> {"receive", "record", "note", "unlock", "send", "returned"}]
    BY <1>1 DEF Inv, Types
  <2>3. \A v \in Workers : ~Record(v) /\ ~NoteCritical(v) /\ ~Unlock(v)
    BY <1>1, <2>1 DEF Record, NoteCritical, Unlock, LocksAgain, Inv, Phases, Exclusive, InRecord
  <2>4. pc'[w] = "note" /\ mu' = {w} /\ build' = build
    BY <1>1, <2>1, <2>2, <2>3
       DEF Next, Feeder, Feed, CloseEvents, Worker, Send, Return, CloseResults, Collect,
           Finish, vars
  <2> QED
    BY <2>1, <2>4 DEF SelfDeadlocked, LocksAgain
<1> QED
  BY <1>1, Invariant, PTL DEF Spec

-----------------------------------------------------------------------------
LEMMA DeliversNext ==
  ASSUME Inv, [Next]_vars
  PROVE  [Pool!Next]_(Pool!vars)
<1> USE DEF stats, feeder, main
<1>1. CASE Collect
  <2>0. results \in Seq(1..Len(stream)) /\ results # <<>>
    BY <1>1 DEF Collect, Inv, Types
  <2>1. 1 \in 1..Len(results) /\ Head(results) = results[1]
    BY <2>0, EmptySeq
  <2>2. Head(results) \in 1..Len(stream) /\ Head(results) \notin seen
    BY <2>0, <2>1, HeadTailProperties DEF Inv, Conserved, Once
  <2>3. ~finished
    BY <2>0 DEF Inv, Phases, ClosedInOrder
  <2>4. Pool!Deliver(Head(results))
    BY <1>1, <2>2, <2>3 DEF Collect, Pool!Deliver
  <2> QED
    BY <2>2, <2>4 DEF Pool!Next
<1>2. CASE Finish
  <2>1. seen = 1..Len(stream)
    <3>1. Len(results) = 0
      BY <1>2, EmptySeq DEF Finish
    <3>2. \A e \in 1..fed : e \in seen
      BY <1>2, <3>1, AllSeen DEF Finish, Inv, Conserved, Somewhere
    <3> QED
      BY <1>2, <3>2, AllSeen DEF Finish, Inv, Types
  <2> QED
    BY <1>2, <2>1 DEF Finish, Pool!Next, Pool!Complete
<1>3. CASE Feeder \/ CloseResults \/ UNCHANGED vars
  BY <1>3 DEF Feeder, Feed, CloseEvents, CloseResults, vars, Pool!vars
<1>4. ASSUME NEW w \in Workers, Worker(w) PROVE UNCHANGED Pool!vars
  BY <1>4 DEF Worker, Record, NoteCritical, Unlock, Send, Return, Pool!vars
<1> QED
  BY <1>1, <1>2, <1>3, <1>4 DEF Next

(* The ingester implements exactly-once delivery: no event is collected      *)
(* twice, and main leaves its loop with all of them (main.go:183-199).       *)
THEOREM ImplementsDelivery == Spec => Delivers
<1>1. ASSUME Init PROVE Pool!Init
  <2>1. 1..Len(stream) \in SUBSET Nat
    BY <1>1, StreamFacts DEF Init
  <2> QED
    BY <1>1, <2>1 DEF Init, Pool!Init
<1> QED
  BY <1>1, Invariant, DeliversNext, PTL DEF Spec, Delivers, Pool!Spec
=============================================================================
