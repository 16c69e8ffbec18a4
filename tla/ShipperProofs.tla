---------------------------- MODULE ShipperProofs ----------------------------
(* What holds of the record shipper for every number of records and workers, *)
(* in both builds, whether or not something fails.                           *)
EXTENDS Shipper, TLAPS, FiniteSetTheorems, SequenceTheorems

LEMMA AppendFacts ==
  ASSUME NEW S, NEW s \in Seq(S), NEW e \in S
  PROVE  /\ Append(s, e) \in Seq(S)
         /\ Len(Append(s, e)) = Len(s) + 1
         /\ \A i \in 1..Len(s) : Append(s, e)[i] = s[i]
         /\ Append(s, e)[Len(s) + 1] = e
  OBVIOUS

-----------------------------------------------------------------------------
(* How often a record has been compressed depends on the build and on how    *)
(* far it got; the collector has a record exactly while it appends it.       *)
CompressedSoFar ==
  /\ \A w \in Workers :
       /\ pc[w] = "fetch" => rec[w].compressed = 0
       /\ pc[w] = "compress" => build = "solution" /\ rec[w].compressed = 0
       /\ pc[w] = "send" => rec[w].compressed = IF build = "solution" THEN 1 ELSE 0
  /\ \A r \in inHand : r.compressed = IF build = "solution" THEN 1 ELSE 0
OneInHand ==
  IF collector = "append" THEN \E r \in Record : inHand = {r} ELSE inHand = {}

(* The channels are closed, and the goroutines return, in this order.        *)
ClosedInOrder ==
  /\ jobsClosed => fed = NumRecords
  /\ \A w \in Workers : pc[w] = "gone" => jobsClosed
  /\ resultsClosed => \A w \in Workers : pc[w] = "gone"
  /\ collector = "gone" => resultsClosed

(* No ID is with two workers, or with one of them and further on.            *)
Once ==
  /\ \A w \in Busy : rec[w].id < fed /\ rec[w].id \notin ArchivedIds
  /\ \A w, v \in Busy : rec[w].id = rec[v].id => w = v
  /\ \A r \in inHand : r.id < fed /\ r.id \notin ArchivedIds
  /\ \A r \in inHand, w \in Busy : r.id # rec[w].id
  /\ \A i \in ArchivedIds : i < fed

-----------------------------------------------------------------------------
LEMMA ArchiveFacts ==
  ASSUME TypeOK
  PROVE  /\ Len(archive) \in Nat /\ DOMAIN archive = 1..Len(archive)
         /\ \A i \in 1..Len(archive) : archive[i] \in Record
         /\ \A n : n \in ArchivedIds <=> \E i \in 1..Len(archive) : archive[i].id = n
<1>1. Len(archive) \in Nat /\ DOMAIN archive = 1..Len(archive)
  BY LenProperties DEF TypeOK
<1>2. \A i \in 1..Len(archive) : archive[i] \in Record
  BY ElementOfSeq DEF TypeOK
<1> QED
  BY <1>1, <1>2 DEF ArchivedIds

LEMMA CompressedIs ==
  ASSUME NEW r \in Record
  PROVE  Compressed(r) = [id |-> r.id, compressed |-> r.compressed + 1]
  BY DEF Compressed, Record

(* One step, as the invariants see it: where the collector puts a record.    *)
LEMMA CollectFacts ==
  ASSUME TypeOK, CompressedSoFar, OneInHand, Collect
  PROVE  \E r \in Record :
           /\ inHand = {r} /\ inHand' = {}
           /\ Written(r) \in Record /\ Written(r).id = r.id /\ Written(r).compressed = 1
           /\ archive' = Append(archive, Written(r))
<1>1. PICK r \in Record : inHand = {r}
  BY DEF OneInHand, Collect
<1>2. r.compressed = IF build = "solution" THEN 1 ELSE 0
  BY <1>1 DEF CompressedSoFar
<1>3. build = "shipped" \/ build = "solution"
  BY DEF TypeOK, Builds
<1>4. Written(r) \in Record /\ Written(r).id = r.id /\ Written(r).compressed = 1
  <2>1. CASE build = "shipped"
    BY <1>2, <2>1, CompressedIs DEF Written, Record
  <2>2. CASE build = "solution"
    BY <1>2, <2>2 DEF Written
  <2> QED
    BY <1>3, <2>1, <2>2
<1> QED
  BY <1>1, <1>4 DEF Collect

Typed == TypeOK /\ CompressedSoFar /\ OneInHand

LEMMA TypedInit == Init => Typed
<1> SUFFICES ASSUME Init PROVE Typed
  OBVIOUS
<1>1. [id |-> 0, compressed |-> 0] \in Record
  BY ShipperAssumption DEF Record, Ids
<1>2. rec \in [Workers -> Record] /\ archive \in Seq(Record)
  BY <1>1 DEF Init
<1>3. fed \in 0..NumRecords
  BY ShipperAssumption DEF Init
<1> QED
  BY <1>2, <1>3 DEF Init, Typed, TypeOK, CompressedSoFar, OneInHand

LEMMA TypedNext == Typed /\ [Next]_vars => Typed'
<1> SUFFICES ASSUME Typed, [Next]_vars PROVE Typed'
  OBVIOUS
<1> USE DEF Typed, TypeOK, CompressedSoFar, OneInHand, chosen, feeding, pool, gathering
<1>0. \A w \in Workers : rec[w] \in Record
  OBVIOUS
<1>1. ASSUME NEW w \in Workers, Feed(w) PROVE Typed'
  <2>1. [id |-> fed, compressed |-> 0] \in Record /\ fed + 1 \in 0..NumRecords
    BY <1>1, ShipperAssumption DEF Feed, Record, Ids
  <2> QED
    BY <1>1, <2>1 DEF Feed
<1>2. CASE CloseJobs
  BY <1>2 DEF CloseJobs
<1>3. ASSUME NEW w \in Workers, fetch(w) PROVE Typed'
  BY <1>3 DEF fetch, Builds
<1>4. ASSUME NEW w \in Workers, compress(w) PROVE Typed'
  <2>1. rec[w].compressed = 0 /\ build = "solution"
    BY <1>4 DEF compress
  <2>2. Compressed(rec[w]) = [id |-> rec[w].id, compressed |-> 1]
    BY <1>0, <2>1, CompressedIs
  <2>3. Compressed(rec[w]) \in Record /\ Compressed(rec[w]).compressed = 1
    BY <1>0, <2>2 DEF Record
  <2>4. rec' \in [Workers -> Record] /\ rec'[w].compressed = 1
    BY <1>4, <2>3 DEF compress
  <2>5. \A v \in Workers \ {w} : rec'[v] = rec[v] /\ pc'[v] = pc[v]
    BY <1>4 DEF compress
  <2>6. CompressedSoFar'
    BY <1>4, <2>1, <2>4, <2>5 DEF compress
  <2>7. pc' \in [Workers -> {"receive", "fetch", "compress", "send", "gone"}]
    BY <1>4 DEF compress
  <2> QED
    BY <1>4, <2>4, <2>6, <2>7 DEF compress
<1>5. ASSUME NEW w \in Workers, Send(w) PROVE Typed'
  <2>1. rec[w] \in Record /\ inHand' = {rec[w]}
    BY <1>0, <1>5 DEF Send
  <2> QED
    BY <1>5, <2>1 DEF Send
<1>6. ASSUME NEW w \in Workers, Return(w) PROVE Typed'
  BY <1>6 DEF Return
<1>7. CASE Collect
  <2>1. PICK r \in Record : /\ inHand' = {} /\ Written(r) \in Record
                            /\ archive' = Append(archive, Written(r))
    BY <1>7, CollectFacts
  <2>2. archive' \in Seq(Record)
    BY <2>1, AppendFacts
  <2> QED
    BY <1>7, <2>1, <2>2 DEF Collect
<1>8. CASE CollectorReturns
  BY <1>8 DEF CollectorReturns
<1>9. CASE Fatal
  BY <1>9 DEF Fatal
<1>10. CASE CloseResults
  BY <1>10 DEF CloseResults
<1>11. CASE Finish
  BY <1>11 DEF Finish
<1>12. CASE UNCHANGED vars
  BY <1>12 DEF vars
<1> QED
  BY <1>1, <1>2, <1>3, <1>4, <1>5, <1>6, <1>7, <1>8, <1>9, <1>10, <1>11, <1>12
     DEF Next, Main, worker

-----------------------------------------------------------------------------
LEMMA ClosedInOrderInit == Init => ClosedInOrder
  BY DEF Init, ClosedInOrder

LEMMA ClosedInOrderNext == TypeOK /\ ClosedInOrder /\ [Next]_vars => ClosedInOrder'
<1> SUFFICES ASSUME TypeOK, ClosedInOrder, [Next]_vars PROVE ClosedInOrder'
  OBVIOUS
<1> USE DEF TypeOK, ClosedInOrder, chosen, feeding, pool, gathering
<1>1. ASSUME NEW w \in Workers, Feed(w) PROVE ClosedInOrder'
  BY <1>1, ShipperAssumption DEF Feed
<1>2. ASSUME NEW w \in Workers, worker(w) PROVE ClosedInOrder'
  BY <1>2 DEF worker, fetch, compress, Send, Return
<1>3. CASE CloseJobs \/ CloseResults \/ Finish \/ Fatal \/ UNCHANGED vars
  BY <1>3 DEF CloseJobs, CloseResults, WaitGroupDone, Finish, Fatal, vars
<1>4. CASE Collect \/ CollectorReturns
  BY <1>4 DEF Collect, CollectorReturns
<1> QED
  BY <1>1, <1>2, <1>3, <1>4 DEF Next, Main
-----------------------------------------------------------------------------
(* Where the IDs are, by counting and by naming them.                        *)
Tracked == Once /\ Conserved /\ CompressedOnce

LEMMA CollectedId ==
  ASSUME TypeOK, NEW r \in Record, archive' = Append(archive, r)
  PROVE  ArchivedIds' = ArchivedIds \union {r.id}
<1>0. Len(archive) \in Nat /\ DOMAIN archive = 1..Len(archive)
  BY ArchiveFacts
<1>1. /\ archive' \in Seq(Record) /\ Len(archive') = Len(archive) + 1
      /\ \A i \in 1..Len(archive) : archive'[i] = archive[i]
      /\ archive'[Len(archive) + 1] = r
  BY AppendFacts DEF TypeOK
<1>2. DOMAIN archive' = 1..(Len(archive) + 1)
  BY <1>1, LenProperties
<1>3. \A i \in DOMAIN archive' : i \in DOMAIN archive \/ i = Len(archive) + 1
  BY <1>0, <1>2
<1>4. \A n \in ArchivedIds' : n \in ArchivedIds \/ n = r.id
  BY <1>0, <1>1, <1>3 DEF ArchivedIds
<1>5. \A n \in ArchivedIds : n \in ArchivedIds'
  BY <1>0, <1>1, <1>2 DEF ArchivedIds
<1>6. r.id \in ArchivedIds'
  BY <1>0, <1>1, <1>2 DEF ArchivedIds
<1> QED
  BY <1>4, <1>5, <1>6

LEMMA BusyFacts ==
  ASSUME TypeOK
  PROVE  IsFiniteSet(Busy) /\ Cardinality(Busy) \in Nat
  BY FS_Subset, FS_CardinalityType, ShipperAssumption DEF Busy

LEMMA InHandFacts ==
  ASSUME OneInHand
  PROVE  /\ collector = "append" => Cardinality(inHand) = 1
         /\ collector # "append" => inHand = {} /\ Cardinality(inHand) = 0
  BY FS_EmptySet, FS_Singleton DEF OneInHand

LEMMA TrackedInit == Init => Tracked
<1> SUFFICES ASSUME Init PROVE Tracked
  OBVIOUS
<1>1. Busy = {} /\ inHand = {} /\ fed = 0 /\ archive = <<>> /\ Len(archive) = 0
  BY EmptySeq DEF Init, Busy
<1>2. ArchivedIds = {} /\ DOMAIN archive = {}
  BY <1>1 DEF ArchivedIds
<1>3. 0..(fed - 1) = {}
  BY <1>1
<1> QED
  BY <1>1, <1>2, <1>3, FS_EmptySet DEF Tracked, Once, Conserved, CompressedOnce

(* The steps that move no record.                                            *)
LEMMA TrackedStays ==
  ASSUME Tracked, UNCHANGED <<fed, inHand, archive>>, Busy' = Busy,
         \A w \in Busy : rec'[w].id = rec[w].id
  PROVE  Tracked'
<1>1. {rec'[w].id : w \in Busy'} = {rec[w].id : w \in Busy}
  OBVIOUS
<1>2. ArchivedIds' = ArchivedIds
  BY DEF ArchivedIds
<1> QED
  BY <1>1, <1>2 DEF Tracked, Once, Conserved, CompressedOnce

LEMMA TrackedNext == Typed /\ Tracked /\ [Next]_vars => Tracked'
<1> SUFFICES ASSUME Typed, Tracked, [Next]_vars PROVE Tracked'
  OBVIOUS
<1> USE DEF chosen, feeding, pool, gathering
<1>0. /\ fed \in Nat /\ Len(archive) \in Nat /\ Cardinality(Busy) \in Nat
      /\ IsFiniteSet(Busy)
      /\ \A w \in Busy : w \in Workers /\ rec[w].id \in Nat
      /\ \A r \in inHand : r.id \in Nat
      /\ \A i \in ArchivedIds : i \in Nat
  <2>1. TypeOK /\ fed \in Nat
    BY ShipperAssumption DEF Typed, TypeOK
  <2>2. \A r \in Record : r.id \in Nat
    BY ShipperAssumption DEF Record, Ids
  <2>3. \A w \in Busy : w \in Workers /\ rec[w] \in Record
    BY <2>1 DEF TypeOK, Busy
  <2>4. \A r \in inHand : r \in Record
    BY <2>1 DEF TypeOK
  <2>5. \A i \in ArchivedIds : i \in Nat
    BY <2>1, <2>2, ArchiveFacts
  <2> QED
    BY <2>1, <2>2, <2>3, <2>4, <2>5, ArchiveFacts, BusyFacts
<1>1. ASSUME NEW w \in Workers, Feed(w) PROVE Tracked'
  <2>1. /\ Busy' = Busy \union {w} /\ w \notin Busy /\ rec'[w].id = fed
        /\ \A v \in Busy : rec'[v] = rec[v]
        /\ UNCHANGED <<inHand, archive>> /\ fed' = fed + 1
    BY <1>1 DEF Feed, Busy, Typed, TypeOK
  <2>2. ArchivedIds' = ArchivedIds /\ CompressedOnce'
    BY <2>1 DEF ArchivedIds, Tracked, CompressedOnce
  <2>3. Once'
    BY <1>0, <2>1, <2>2 DEF Tracked, Once
  <2>4. {rec'[v].id : v \in Busy'} = {rec[v].id : v \in Busy} \union {fed}
    BY <2>1
  <2>5. 0..(fed' - 1) = 0..(fed - 1) \union {fed}
    BY <1>0, <2>1
  <2>6. Cardinality(Busy') = Cardinality(Busy) + 1
    BY <1>0, <2>1, FS_AddElement
  <2>7. Cardinality(Busy') + Cardinality(inHand) + Len(archive) = fed + 1
    <3>1. Cardinality(inHand) \in Nat
      BY InHandFacts DEF Typed
    <3> QED
      BY <1>0, <2>6, <3>1 DEF Tracked, Conserved
  <2>8. Conserved'
    BY <2>1, <2>2, <2>4, <2>5, <2>7 DEF Tracked, Conserved
  <2> QED
    BY <2>2, <2>3, <2>8 DEF Tracked
<1>2. ASSUME NEW w \in Workers, fetch(w) \/ compress(w) \/ Return(w) PROVE Tracked'
  <2>1. Busy' = Busy /\ UNCHANGED <<fed, inHand, archive>>
    BY <1>2 DEF fetch, compress, Return, Busy, Typed, TypeOK
  <2>2. \A v \in Busy : rec'[v].id = rec[v].id
    <3>1. CASE fetch(w) \/ Return(w)
      BY <3>1 DEF fetch, Return
    <3>2. CASE compress(w)
      <4>1. rec[w] \in Record /\ rec' = [rec EXCEPT ![w] = Compressed(rec[w])]
        BY <3>2 DEF compress, Typed, TypeOK
      <4>2. Compressed(rec[w]).id = rec[w].id
        BY <4>1, CompressedIs
      <4>3. \A v \in Workers : rec'[v] = IF v = w THEN Compressed(rec[w]) ELSE rec[v]
        BY <4>1 DEF Typed, TypeOK
      <4> QED
        BY <4>2, <4>3 DEF Busy
    <3> QED
      BY <1>2, <3>1, <3>2
  <2> QED
    BY <2>1, <2>2, TrackedStays
<1>3. ASSUME NEW w \in Workers, Send(w) PROVE Tracked'
  <2>1. /\ w \in Busy /\ Busy' = Busy \ {w} /\ inHand = {} /\ inHand' = {rec[w]}
        /\ UNCHANGED <<fed, rec, archive>>
    BY <1>3, InHandFacts DEF Send, Busy, Typed, TypeOK
  <2>2. ArchivedIds' = ArchivedIds /\ CompressedOnce'
    BY <2>1 DEF ArchivedIds, Tracked, CompressedOnce
  <2>3. Once'
    BY <2>1, <2>2 DEF Tracked, Once
  <2>4. /\ {rec'[v].id : v \in Busy'} \union {r.id : r \in inHand'}
             = {rec[v].id : v \in Busy}
        /\ {r.id : r \in inHand} = {}
    BY <2>1
  <2>5. Cardinality(Busy') = Cardinality(Busy) - 1
    BY <1>0, <2>1, FS_RemoveElement
  <2>6. Cardinality(inHand) = 0 /\ Cardinality(inHand') = 1
    BY <2>1, FS_EmptySet, FS_Singleton
  <2>7. Cardinality(Busy') + Cardinality(inHand') + Len(archive) = fed
    BY <1>0, <2>5, <2>6 DEF Tracked, Conserved
  <2>8. Conserved'
    BY <2>1, <2>2, <2>4, <2>7 DEF Tracked, Conserved
  <2> QED
    BY <2>2, <2>3, <2>8 DEF Tracked
<1>4. CASE Collect
  <2>1. PICK r \in Record : /\ inHand = {r} /\ inHand' = {} /\ Written(r) \in Record
                            /\ Written(r).id = r.id /\ Written(r).compressed = 1
                            /\ archive' = Append(archive, Written(r))
    BY <1>4, CollectFacts DEF Typed
  <2>2. /\ archive' \in Seq(Record) /\ Len(archive') = Len(archive) + 1
        /\ \A i \in 1..Len(archive) : archive'[i] = archive[i]
        /\ archive'[Len(archive) + 1] = Written(r)
    BY <2>1, AppendFacts DEF Typed, TypeOK
  <2>3. DOMAIN archive' = 1..(Len(archive) + 1) /\ DOMAIN archive = 1..Len(archive)
    BY <2>2, LenProperties, ArchiveFacts DEF Typed
  <2>4. \A i \in DOMAIN archive' : i \in DOMAIN archive \/ i = Len(archive) + 1
    BY <1>0, <2>3
  <2>5. CompressedOnce'
    BY <2>1, <2>2, <2>3, <2>4 DEF Tracked, CompressedOnce
  <2>6. ArchivedIds' = ArchivedIds \union {r.id}
    BY <2>1, <2>2, CollectedId DEF Typed
  <2>7. Busy' = Busy /\ UNCHANGED <<fed, rec>>
    BY <1>4 DEF Collect, Busy
  <2>8. Once'
    BY <2>1, <2>6, <2>7 DEF Tracked, Once
  <2>9. {s.id : s \in inHand} = {r.id} /\ {s.id : s \in inHand'} = {}
    BY <2>1
  <2>10. Cardinality(inHand) = 1 /\ Cardinality(inHand') = 0
    BY <2>1, FS_EmptySet, FS_Singleton
  <2>11. Cardinality(Busy) + Cardinality(inHand') + Len(archive') = fed
    BY <1>0, <2>2, <2>10 DEF Tracked, Conserved
  <2>12. Conserved'
    BY <2>6, <2>7, <2>9, <2>11 DEF Tracked, Conserved
  <2> QED
    BY <2>5, <2>8, <2>12 DEF Tracked
<1>5. CASE CloseJobs \/ CloseResults \/ Finish \/ Fatal \/ CollectorReturns \/ UNCHANGED vars
  BY <1>5, TrackedStays
     DEF CloseJobs, CloseResults, Finish, Fatal, CollectorReturns, vars, Busy
<1> QED
  BY <1>1, <1>2, <1>3, <1>4, <1>5 DEF Next, Main, worker

-----------------------------------------------------------------------------
Inv == Typed /\ ClosedInOrder /\ Tracked

LEMMA Invariant == Spec => []Inv
<1>1. Typed => TypeOK
  BY DEF Typed
<1> QED
  BY <1>1, TypedInit, TypedNext, ClosedInOrderInit, ClosedInOrderNext, TrackedInit,
     TrackedNext, PTL DEF Spec, Inv

(* When results is closed the IDs are in the collector's hand or archived.   *)
LEMMA ClosedFacts ==
  ASSUME Inv, resultsClosed
  PROVE  Busy = {} /\ fed = NumRecords
<1>1. \A w \in Workers : pc[w] = "gone"
  BY DEF Inv, ClosedInOrder
<1> QED
  BY <1>1, ShipperAssumption DEF Inv, ClosedInOrder, Busy

(* The archive is sound in every state, so also when log.Fatal stops the     *)
(* process at any step of any goroutine (main.go:87-133).                    *)
THEOREM Sound == Spec => []ArchiveSound
<1>1. ASSUME Inv PROVE ArchiveSound
  <2>1. ASSUME resultsClosed
        PROVE  /\ \A w \in Workers : pc[w] = "gone"
               /\ Cardinality(inHand) + Len(archive) = NumRecords
    <3>1. Cardinality(inHand) \in Nat
      BY <1>1, InHandFacts DEF Inv, Typed
    <3>2. Cardinality(Busy) = 0 /\ fed = NumRecords
      BY <1>1, <2>1, ClosedFacts, FS_EmptySet
    <3>3. Cardinality(inHand) + Len(archive) = NumRecords
      BY <1>1, <3>1, <3>2, ArchiveFacts DEF Inv, Typed, Tracked, Conserved
    <3> QED
      BY <1>1, <2>1, <3>3 DEF Inv, ClosedInOrder
  <2> QED
    BY <1>1, <2>1 DEF Inv, Typed, Tracked, ArchiveSound, ClosedQuietly
<1> QED
  BY <1>1, Invariant, PTL

-----------------------------------------------------------------------------
LEMMA DeliversNext ==
  ASSUME Inv, [Next]_vars
  PROVE  [Pool!Next]_(Pool!vars)
<1> USE DEF chosen, feeding, pool, gathering
<1>1. CASE Collect
  <2>1. PICK r \in Record : /\ inHand = {r} /\ Written(r) \in Record
                            /\ Written(r).id = r.id
                            /\ archive' = Append(archive, Written(r))
    BY <1>1, CollectFacts DEF Inv, Typed
  <2>2. /\ archive' \in Seq(Record) /\ Len(archive') = Len(archive) + 1
        /\ \A i \in 1..Len(archive) : archive'[i] = archive[i]
        /\ archive'[Len(archive) + 1] = Written(r)
    BY <2>1, AppendFacts DEF Inv, Typed, TypeOK
  <2>3. ArchivedIds' = ArchivedIds \union {r.id}
    BY <2>1, <2>2, CollectedId DEF Inv, Typed
  <2>4. r.id \in Ids /\ r.id \notin ArchivedIds
    BY <2>1 DEF Inv, Tracked, Once, Record
  <2>5. Pool!Deliver(r.id)
    BY <1>1, <2>2, <2>3, <2>4 DEF Collect, Running, Pool!Deliver
  <2> QED
    BY <2>4, <2>5 DEF Pool!Next
<1>2. CASE Finish
  <2>1. inHand = {} /\ Busy = {} /\ fed = NumRecords
    BY <1>2, ClosedFacts, InHandFacts DEF Finish, CollectorDone, Inv, Typed
  <2>2. {rec[w].id : w \in Busy} = {} /\ {r.id : r \in inHand} = {}
    BY <2>1
  <2>3. ArchivedIds = Ids
    BY <2>1, <2>2 DEF Inv, Tracked, Conserved, Ids
  <2>4. ArchivedIds' = ArchivedIds
    BY <1>2 DEF Finish, ArchivedIds
  <2> QED
    BY <1>2, <2>3, <2>4 DEF Finish, Pool!Next, Pool!Complete
<1>3. CASE Fatal
  BY <1>3 DEF Fatal, Running, ArchivedIds, Pool!vars
<1>4. CASE CloseJobs \/ CloseResults \/ CollectorReturns \/ UNCHANGED vars
  BY <1>4 DEF CloseJobs, CloseResults, CollectorReturns, vars, ArchivedIds, Pool!vars
<1>5. ASSUME NEW w \in Workers, Feed(w) \/ worker(w) PROVE UNCHANGED Pool!vars
  BY <1>5 DEF Feed, worker, fetch, compress, Send, Return, ArchivedIds, Pool!vars
<1> QED
  BY <1>1, <1>2, <1>3, <1>4, <1>5 DEF Next, Main

(* The shipper implements exactly-once delivery: "shipped 200 records" is    *)
(* printed only when each is in the archive, none of them twice              *)
(* (main.go:87-101).                                                         *)
THEOREM ImplementsDelivery == Spec => Delivers
<1>1. ASSUME Init PROVE Pool!Init
  <2>1. ArchivedIds = {} /\ Len(archive) = 0
    BY <1>1, EmptySeq DEF Init, ArchivedIds
  <2> QED
    BY <1>1, <2>1 DEF Init, Pool!Init
<1> QED
  BY <1>1, Invariant, DeliversNext, PTL DEF Spec, Delivers, Pool!Spec
=============================================================================
