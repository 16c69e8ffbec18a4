----------------------- MODULE PipelineTTLCacheProofs -----------------------
(* What holds of the order pipeline for every batch, any number of           *)
(* processors and any maximum of shipper, whether or not the machine stalls; *)
(* and, from HitReaders on, of the TTL cache for all keys, values, clients   *)
(* and times, in both builds.                                                *)
EXTENDS Pipeline, TTLCache, TLAPS, FiniteSetTheorems, SequenceTheorems

(* An order goes no further than the validator unless it has items, and is   *)
(* rejected unless it has none.                                              *)
Validated ==
  /\ shipped \subseteq Valid /\ rejected \intersect Valid = {}
  /\ \A p \in Processors : proc[p] # 0 => proc[p] \in Valid

(* The chain of unbuffered channels is dense at its head: receiver has the   *)
(* last order sent, validator the last one or the last but one.              *)
HeadOfChain ==
  /\ recv # 0 => recv = sent
  /\ val # 0 => val = IF recv # 0 THEN sent - 1 ELSE sent

(* The goroutines return in the order of the chain, each with empty hands.   *)
ClosedInOrder ==
  /\ incomingClosed => sent = Len(batch)
  /\ recvGone => incomingClosed /\ recv = 0
  /\ valGone => recvGone /\ val = 0
  /\ \A p \in procGone : valGone /\ proc[p] = 0
  /\ outcome = "completed" => WaitGroupDone

(* Unless the machine stalls, shipper leaves when it has taken its maximum   *)
(* or when nothing will ever reach it.                                       *)
ShipperPatient ==
  /\ Cardinality(shipped) <= MaxShipped
  /\ shipperGone /\ ~stalls => ~HasRoom \/ Drained

Inv ==
  TypeOK /\ Accounted /\ Validated /\ HeadOfChain /\ ClosedInOrder /\ ShipperPatient

-----------------------------------------------------------------------------
LEMMA BatchLength ==
  ASSUME batch \in Batches PROVE Len(batch) \in Nat
  BY PipelineAssumption

LEMMA TypesInit == Init => TypeOK
<1> SUFFICES ASSUME Init PROVE TypeOK
  OBVIOUS
<1>1. 0 \in 0..Len(batch)
  BY BatchLength DEF Init
<1> QED
  BY <1>1 DEF Init, TypeOK

LEMMA TypesNext == TypeOK /\ [Next]_vars => TypeOK'
<1> SUFFICES ASSUME TypeOK, [Next]_vars PROVE TypeOK'
  OBVIOUS
<1> USE DEF TypeOK, chosen, closing
<1>0. Len(batch) \in Nat
  BY BatchLength
<1>1. CASE SendOrder
  BY <1>0, <1>1 DEF SendOrder
<1>2. CASE ToValidator
  BY <1>0, <1>2 DEF ToValidator
<1>3. CASE Reject
  BY <1>0, <1>3 DEF Reject
<1>4. CASE ShipperLeaves
  BY <1>4 DEF ShipperLeaves
<1>5. CASE CloseIncoming \/ ReceiverReturns \/ ValidatorReturns
  BY <1>5 DEF CloseIncoming, ReceiverReturns, ValidatorReturns
<1>6. CASE Complete \/ Timeout
  BY <1>6 DEF Complete, Timeout
<1>7. ASSUME NEW p \in Processors, ToProcessor(p) PROVE TypeOK'
  BY <1>0, <1>7 DEF ToProcessor
<1>8. ASSUME NEW p \in Processors, Ship(p) PROVE TypeOK'
  <2>1. proc[p] \in 1..Len(batch)
    BY <1>0, <1>8 DEF Ship
  <2>2. shipped' \subseteq 1..Len(batch)
    BY <1>8, <2>1 DEF Ship
  <2>3. proc' \in [Processors -> 0..Len(batch)]
    BY <1>0, <1>8 DEF Ship
  <2> QED
    BY <1>8, <2>2, <2>3 DEF Ship
<1>9. ASSUME NEW p \in Processors, ProcessorReturns(p) PROVE TypeOK'
  BY <1>9 DEF ProcessorReturns
<1>10. CASE UNCHANGED vars
  BY <1>10 DEF vars
<1> QED
  BY <1>1, <1>2, <1>3, <1>4, <1>5, <1>6, <1>7, <1>8, <1>9, <1>10 DEF Next, Processor

(* The type invariant: TypeOK is inductive as it stands (pipeline.go:11-47). *)
THEOREM TypeCorrect == Spec => []TypeOK
  BY TypesInit, TypesNext, PTL DEF Spec

-----------------------------------------------------------------------------
LEMMA HeldIs ==
  \A o : o \in Held <=> o # 0 /\ (o = recv \/ o = val \/ \E p \in Processors : proc[p] = o)
  BY DEF Held

(* The goroutines that leave, and main's select, move no order.              *)
Leaving ==
  \/ ShipperLeaves \/ CloseIncoming \/ ReceiverReturns \/ ValidatorReturns
  \/ Complete \/ Timeout \/ \E p \in Processors : ProcessorReturns(p)
orders == <<batch, sent, recv, val, proc, shipped, rejected>>

LEMMA LeavingMovesNothing == Leaving \/ UNCHANGED vars => UNCHANGED orders
  BY DEF Leaving, ShipperLeaves, CloseIncoming, ReceiverReturns, ValidatorReturns,
     Complete, Timeout, ProcessorReturns, vars, chosen, closing, orders

LEMMA HandsInit == Init => Accounted /\ Validated
<1> SUFFICES ASSUME Init PROVE Accounted /\ Validated
  OBVIOUS
<1>1. Held = {} /\ 1..sent = {}
  BY DEF Init, Held
<1> QED
  BY <1>1 DEF Init, Accounted, Validated

LEMMA HandsNext ==
  TypeOK /\ Accounted /\ Validated /\ [Next]_vars => Accounted' /\ Validated'
<1> SUFFICES ASSUME TypeOK, Accounted, Validated, [Next]_vars
             PROVE  Accounted' /\ Validated'
  OBVIOUS
<1> USE DEF chosen, closing
<1>0. /\ Len(batch) \in Nat /\ sent \in Nat /\ recv \in Nat /\ val \in Nat
      /\ \A p \in Processors : proc[p] \in Nat
  BY BatchLength DEF TypeOK
<1>1. CASE SendOrder
  <2>1. /\ UNCHANGED <<batch, val, proc, shipped, rejected>>
        /\ recv = 0 /\ sent' = sent + 1 /\ recv' = sent + 1
    BY <1>1 DEF SendOrder
  <2>2. \A o : o \in Held' <=> o \in Held \/ o = sent + 1
    BY <1>0, <2>1, HeldIs DEF Held
  <2>3. 1..sent' = 1..sent \union {sent + 1} /\ sent + 1 \notin 1..sent
    BY <1>0, <2>1
  <2>4. /\ sent + 1 \notin shipped \union rejected
        /\ val # sent + 1 /\ \A p \in Processors : proc[p] # sent + 1
    BY <1>0, <2>3, HeldIs DEF Accounted
  <2>5. Accounted'
    BY <2>1, <2>2, <2>3, <2>4 DEF Accounted
  <2> QED
    BY <2>1, <2>5 DEF Validated, Valid
<1>2. CASE ToValidator
  <2>1. /\ UNCHANGED <<batch, sent, proc, shipped, rejected>>
        /\ recv # 0 /\ val = 0 /\ val' = recv /\ recv' = 0
    BY <1>2 DEF ToValidator
  <2>2. Held' = Held
    BY <2>1 DEF Held
  <2> QED
    BY <2>1, <2>2 DEF Accounted, Validated, Valid
<1>3. CASE Reject
  <2>1. /\ UNCHANGED <<batch, sent, recv, proc, shipped>>
        /\ val # 0 /\ val' = 0 /\ rejected' = rejected \union {val} /\ ~batch[val]
    BY <1>3 DEF Reject
  <2>2. Held' = Held \ {val} /\ val \in Held
    BY <1>0, <2>1 DEF Held, Accounted
  <2>3. Accounted'
    BY <2>1, <2>2 DEF Accounted
  <2> QED
    BY <2>1, <2>3 DEF Validated, Valid
<1>4. ASSUME NEW p \in Processors, ToProcessor(p) PROVE Accounted' /\ Validated'
  <2>1. /\ UNCHANGED <<batch, sent, recv, shipped, rejected>>
        /\ val # 0 /\ val' = 0 /\ batch[val] /\ proc[p] = 0
        /\ \A q \in Processors : proc'[q] = IF q = p THEN val ELSE proc[q]
    BY <1>4 DEF ToProcessor, TypeOK
  <2>2. Held' = Held
    BY <2>1 DEF Held
  <2>3. Accounted'
    BY <2>1, <2>2 DEF Accounted
  <2>4. val \in Valid
    BY <1>0, <2>1 DEF Valid, TypeOK
  <2> QED
    BY <2>1, <2>3, <2>4 DEF Validated, Valid
<1>5. ASSUME NEW p \in Processors, Ship(p) PROVE Accounted' /\ Validated'
  <2>1. /\ UNCHANGED <<batch, sent, recv, val, rejected>>
        /\ proc[p] # 0 /\ shipped' = shipped \union {proc[p]}
        /\ \A q \in Processors : proc'[q] = IF q = p THEN 0 ELSE proc[q]
    BY <1>5 DEF Ship, TypeOK
  <2>2. \A o : o \in Held' <=> o \in Held /\ o # proc[p]
    BY <1>0, <2>1, HeldIs DEF Held, Accounted
  <2>3. proc[p] \in Held
    BY <2>1, HeldIs
  <2>4. Accounted'
    BY <2>1, <2>2, <2>3 DEF Accounted
  <2> QED
    BY <2>1, <2>4 DEF Validated, Valid
<1>6. CASE Leaving \/ UNCHANGED vars
  BY <1>6, LeavingMovesNothing DEF orders, Accounted, Held, Validated, Valid
<1> QED
  BY <1>1, <1>2, <1>3, <1>4, <1>5, <1>6 DEF Next, Processor, Leaving

(* Every order sent is shipped, rejected or in exactly one stage's hands,    *)
(* whatever the timers do (the hand-overs of pipeline.go:69-159).            *)
THEOREM NoOrderLost == Spec => []Accounted
<1>1. Init => TypeOK /\ Accounted /\ Validated
  BY TypesInit, HandsInit
<1>2. TypeOK /\ Accounted /\ Validated /\ [Next]_vars
        => (TypeOK /\ Accounted /\ Validated)'
  BY TypesNext, HandsNext
<1> QED
  BY <1>1, <1>2, PTL DEF Spec

-----------------------------------------------------------------------------
LEMMA InvInit == Init => Inv
<1> SUFFICES ASSUME Init PROVE Inv
  OBVIOUS
<1>1. Cardinality(shipped) <= MaxShipped
  BY FS_EmptySet, PipelineAssumption DEF Init
<1>2. HeadOfChain /\ ClosedInOrder /\ ShipperPatient
  BY <1>1 DEF Init, HeadOfChain, ClosedInOrder, ShipperPatient
<1> QED
  BY <1>2, TypesInit, HandsInit DEF Inv

LEMMA HeadNext == Inv /\ [Next]_vars => HeadOfChain'
<1> SUFFICES ASSUME Inv, [Next]_vars PROVE HeadOfChain'
  OBVIOUS
<1> USE DEF HeadOfChain, chosen, closing
<1>0. sent \in Nat /\ HeadOfChain
  BY BatchLength DEF Inv, TypeOK
<1>1. CASE SendOrder
  BY <1>0, <1>1 DEF SendOrder
<1>2. CASE ToValidator
  BY <1>0, <1>2 DEF ToValidator
<1>3. CASE Reject
  BY <1>0, <1>3 DEF Reject
<1>4. ASSUME NEW p \in Processors, ToProcessor(p) PROVE HeadOfChain'
  BY <1>0, <1>4 DEF ToProcessor
<1>5. ASSUME NEW p \in Processors, Ship(p) PROVE HeadOfChain'
  BY <1>0, <1>5 DEF Ship
<1>6. CASE Leaving \/ UNCHANGED vars
  BY <1>0, <1>6, LeavingMovesNothing DEF orders
<1> QED
  BY <1>1, <1>2, <1>3, <1>4, <1>5, <1>6 DEF Next, Processor, Leaving

LEMMA ClosedNext == Inv /\ [Next]_vars => ClosedInOrder'
<1> SUFFICES ASSUME Inv, [Next]_vars PROVE ClosedInOrder'
  OBVIOUS
<1> USE DEF ClosedInOrder, WaitGroupDone, chosen, closing
<1>0. sent \in Nat /\ Len(batch) \in Nat /\ ClosedInOrder
  BY BatchLength DEF Inv, TypeOK
<1>1. CASE SendOrder
  BY <1>0, <1>1 DEF SendOrder
<1>2. CASE ToValidator
  BY <1>0, <1>2 DEF ToValidator
<1>3. CASE Reject
  BY <1>0, <1>3 DEF Reject
<1>4. ASSUME NEW p \in Processors, ToProcessor(p) PROVE ClosedInOrder'
  BY <1>0, <1>4 DEF ToProcessor
<1>5. ASSUME NEW p \in Processors, Ship(p) PROVE ClosedInOrder'
  <2>1. \A q \in Processors : proc[q] = 0 => proc'[q] = 0
    BY <1>5 DEF Ship, Inv, TypeOK
  <2> QED
    BY <1>0, <1>5, <2>1 DEF Ship, Inv, TypeOK
<1>6. CASE ShipperLeaves
  BY <1>0, <1>6 DEF ShipperLeaves
<1>7. CASE CloseIncoming \/ ReceiverReturns \/ ValidatorReturns
  BY <1>0, <1>7 DEF CloseIncoming, ReceiverReturns, ValidatorReturns, Running
<1>8. CASE Complete \/ Timeout
  BY <1>0, <1>8 DEF Complete, Timeout
<1>9. ASSUME NEW p \in Processors, ProcessorReturns(p) PROVE ClosedInOrder'
  BY <1>0, <1>9 DEF ProcessorReturns, Running
<1>10. CASE UNCHANGED vars
  BY <1>0, <1>10 DEF vars
<1> QED
  BY <1>1, <1>2, <1>3, <1>4, <1>5, <1>6, <1>7, <1>8, <1>9, <1>10
  DEF Next, Processor

LEMMA ShippedFinite ==
  ASSUME TypeOK
  PROVE  IsFiniteSet(shipped) /\ Cardinality(shipped) \in Nat
<1>1. IsFiniteSet(1..Len(batch))
  BY BatchLength, FS_Interval DEF TypeOK
<1> QED
  BY <1>1, FS_Subset, FS_CardinalityType DEF TypeOK

LEMMA PatientNext == Inv /\ [Next]_vars => ShipperPatient'
<1> SUFFICES ASSUME Inv, [Next]_vars PROVE ShipperPatient'
  OBVIOUS
<1> USE DEF ShipperPatient, HasRoom, Drained, chosen, closing
<1>0. sent \in Nat /\ Len(batch) \in Nat /\ ShipperPatient
  BY BatchLength DEF Inv, TypeOK
<1>1. CASE SendOrder
  BY <1>0, <1>1 DEF SendOrder
<1>2. CASE ToValidator
  BY <1>0, <1>2 DEF ToValidator
<1>3. CASE Reject
  BY <1>0, <1>3 DEF Reject
<1>4. ASSUME NEW p \in Processors, ToProcessor(p) PROVE ShipperPatient'
  BY <1>0, <1>4 DEF ToProcessor
<1>5. ASSUME NEW p \in Processors, Ship(p) PROVE ShipperPatient'
  <2>1. ~shipperGone' /\ HasRoom /\ shipped' = shipped \union {proc[p]}
    BY <1>5 DEF Ship
  <2>2. IsFiniteSet(shipped) /\ Cardinality(shipped) \in Nat
    BY ShippedFinite DEF Inv
  <2>3. Cardinality(shipped') \in {Cardinality(shipped), Cardinality(shipped) + 1}
    BY <2>1, <2>2, FS_AddElement
  <2>4. Cardinality(shipped') <= MaxShipped
    BY <2>1, <2>2, <2>3, PipelineAssumption
  <2> QED
    BY <2>1, <2>4
<1>6. CASE ShipperLeaves
  BY <1>0, <1>6 DEF ShipperLeaves, IdleTimeout
<1>7. CASE CloseIncoming \/ ReceiverReturns \/ ValidatorReturns
  BY <1>0, <1>7 DEF CloseIncoming, ReceiverReturns, ValidatorReturns
<1>8. CASE Complete \/ Timeout
  BY <1>0, <1>8 DEF Complete, Timeout
<1>9. ASSUME NEW p \in Processors, ProcessorReturns(p) PROVE ShipperPatient'
  BY <1>0, <1>9 DEF ProcessorReturns
<1>10. CASE UNCHANGED vars
  BY <1>0, <1>10 DEF vars
<1> QED
  BY <1>1, <1>2, <1>3, <1>4, <1>5, <1>6, <1>7, <1>8, <1>9, <1>10
  DEF Next, Processor

LEMMA Invariance == Spec => []Inv
<1>1. Inv /\ [Next]_vars => Inv'
  BY TypesNext, HandsNext, HeadNext, ClosedNext, PatientNext DEF Inv
<1> QED
  BY InvInit, <1>1, PTL DEF Spec

-----------------------------------------------------------------------------
(* "Pipeline completed successfully" is never printed with an order left     *)
(* over, not even when a stall makes shipper give up early.                  *)
LEMMA CompletedIsComplete == Inv => SuccessMeansAll
<1> SUFFICES ASSUME Inv, outcome = "completed"
             PROVE  shipped = Valid /\ rejected = 1..Len(batch) \ Valid
  BY DEF SuccessMeansAll
<1>1. /\ sent = Len(batch) /\ recv = 0 /\ val = 0
      /\ \A p \in Processors : proc[p] = 0
  BY DEF Inv, ClosedInOrder, WaitGroupDone
<1>2. Held = {}
  BY <1>1, HeldIs
<1>3. shipped \union rejected = 1..Len(batch)
  BY <1>1, <1>2 DEF Inv, Accounted
<1>4. shipped \subseteq Valid /\ rejected \intersect Valid = {} /\ Valid \subseteq 1..Len(batch)
  BY DEF Inv, Validated, Valid
<1> QED
  BY <1>3, <1>4

THEOREM SuccessIsComplete == Spec => []SuccessMeansAll
  BY Invariance, CompletedIsComplete, PTL

(* The orders the processors have are as many as there are processors.       *)
LEMMA OneOrderEach ==
  ASSUME TypeOK, Accounted, \A p \in Processors : proc[p] # 0
  PROVE  /\ IsFiniteSet({proc[p] : p \in Processors})
         /\ Cardinality({proc[p] : p \in Processors}) = Cardinality(Processors)
<1> DEFINE Taken == {proc[p] : p \in Processors}
<1>1. proc \in Bijection(Processors, Taken)
  <2>1. proc \in [Processors -> Taken]
    BY DEF TypeOK
  <2>2. \A p, q \in Processors : proc[p] = proc[q] => p = q
    BY DEF Accounted
  <2> QED
    BY <2>1, <2>2 DEF Bijection, Injection, Surjection, IsInjective
<1> QED
  BY <1>1, FS_Bijection, PipelineAssumption DEF ExistsBijection

(* Where the program freezes is decided by the batch alone.                  *)
LEMMA FrozenWhere == Inv => FrozenPosition
<1> SUFFICES ASSUME Inv, Frozen, ~stalls
             PROVE  Cardinality(Valid \intersect 1..(sent - 1))
                      = MaxShipped + Cardinality(Processors) + 1
  BY DEF FrozenPosition
<1> DEFINE Taken == {proc[p] : p \in Processors}
<1>0. sent \in Nat /\ Len(batch) \in Nat /\ sent < Len(batch)
  BY BatchLength DEF Inv, TypeOK, Frozen
<1>1. recv = sent /\ val = sent - 1 /\ val \in Valid
  BY <1>0 DEF Frozen, Inv, HeadOfChain, Valid, TypeOK
<1>2. Cardinality(shipped) = MaxShipped
  <2>1. ~HasRoom
    BY <1>0 DEF Frozen, Inv, ShipperPatient, Drained
  <2> QED
    BY <2>1, ShippedFinite, PipelineAssumption DEF Inv, ShipperPatient, HasRoom
<1>3. IsFiniteSet(Taken) /\ Cardinality(Taken) = Cardinality(Processors)
  BY OneOrderEach DEF Frozen, Inv
<1>4. /\ shipped \intersect Taken = {}
      /\ val \notin shipped \union Taken /\ sent \notin shipped \union Taken
  <2>1. \A o \in Taken : o \in Held
    BY HeldIs DEF Frozen
  <2>2. val \in Held /\ sent \in Held /\ val # sent
    BY <1>0, <1>1, HeldIs DEF Frozen
  <2>3. val \notin Taken /\ sent \notin Taken
    BY <1>1 DEF Frozen, Inv, Accounted
  <2> QED
    BY <2>1, <2>2, <2>3 DEF Inv, Accounted
<1>5. Valid \intersect 1..(sent - 1) = (shipped \union Taken) \union {val}
  <2>1. ASSUME NEW o \in Valid, o \in 1..(sent - 1) PROVE o \in (shipped \union Taken) \union {val}
    <3>1. o \in shipped \union rejected \union Held
      BY <1>0, <2>1 DEF Inv, Accounted
    <3>2. o \notin rejected /\ o # sent
      BY <1>0, <2>1 DEF Inv, Validated
    <3> QED
      BY <1>1, <3>1, <3>2, HeldIs
  <2>2. ASSUME NEW o \in (shipped \union Taken) \union {val} PROVE o \in Valid /\ o \in 1..(sent - 1)
    <3>1. o \in Valid
      BY <1>1, <2>2 DEF Inv, Validated, Frozen
    <3>2. o \in 1..sent
      <4>1. o \in shipped \union Held
        BY <2>2, HeldIs DEF Frozen
      <4> QED
        BY <4>1 DEF Inv, Accounted
    <3>3. o # sent
      BY <1>0, <1>1, <1>4, <2>2
    <3> QED
      BY <1>0, <3>1, <3>2, <3>3
  <2> QED
    BY <2>1, <2>2
<1>6. /\ IsFiniteSet(shipped \union Taken)
      /\ Cardinality(shipped \union Taken) = MaxShipped + Cardinality(Processors)
  <2>1. Cardinality(shipped \intersect Taken) = 0
    BY <1>4, FS_EmptySet
  <2>2. Cardinality(Processors) \in Nat
    BY FS_CardinalityType, PipelineAssumption
  <2>3. IsFiniteSet(shipped)
    BY ShippedFinite DEF Inv
  <2> HIDE DEF Taken
  <2>4. /\ IsFiniteSet(shipped \union Taken)
        /\ Cardinality(shipped \union Taken)
             = Cardinality(shipped) + Cardinality(Taken) - Cardinality(shipped \intersect Taken)
    BY <1>3, <2>3, FS_Union
  <2> QED
    BY <1>2, <1>3, <2>1, <2>2, <2>4, PipelineAssumption
<1> HIDE DEF Taken
<1> QED
  BY <1>4, <1>5, <1>6, FS_AddElement

(* A frozen program stands exactly where the batch says: for pipeline.go's   *)
(* batch, two processors and a maximum of 10 that is order 18.               *)
THEOREM FreezesWhereTold == Spec => []FrozenPosition
  BY Invariance, FrozenWhere, PTL

(* Frozen is the end: whatever the timers do, no goroutine takes another     *)
(* step, and main, in SendOrder, never gets to the timeout that it announces *)
(* in pipeline.go:226.                                                       *)
THEOREM FrozenIsTheEnd == Spec => [][~Frozen]_vars
<1>1. Inv /\ [Next]_vars => [~Frozen]_vars
  <2> SUFFICES ASSUME Inv, Next, Frozen PROVE FALSE
    OBVIOUS
  <2>0. sent \in Nat /\ Len(batch) \in Nat /\ sent < Len(batch)
    BY BatchLength DEF Inv, TypeOK, Frozen
  <2>1. ~(SendOrder \/ ToValidator \/ Reject \/ ShipperLeaves)
    BY DEF Frozen, SendOrder, ToValidator, Reject, ShipperLeaves
  <2>2. ~(ReceiverReturns \/ ValidatorReturns)
    BY DEF Frozen, ReceiverReturns, ValidatorReturns
  <2>3. ~(CloseIncoming \/ Timeout)
    BY <2>0 DEF CloseIncoming, Timeout
  <2>4. ~Complete
    BY DEF Frozen, Complete, WaitGroupDone, Inv, ClosedInOrder
  <2>5. ASSUME NEW p \in Processors PROVE ~Processor(p)
    BY DEF Frozen, Processor, ToProcessor, Ship, ProcessorReturns
  <2> QED
    BY <2>1, <2>2, <2>3, <2>4, <2>5 DEF Next
<1> QED
  BY Invariance, <1>1, PTL DEF Spec

-----------------------------------------------------------------------------
(* The Gets that have their answer and have not counted it yet.              *)
HitReaders == {c \in Clients : pc[c] # "idle" /\ answer[c] # Miss}
MissReaders == {c \in Clients : pc[c] # "idle" /\ answer[c] = Miss}

(* A counter that a Get has read may be out of date when it writes: what     *)
(* keeps the sum from growing too large is that each Get has read one which, *)
(* with the Gets that were counting then, was not.                           *)
ReadsSound ==
  /\ build = "solution" => \A c \in Clients : pc[c] # "store"
  /\ \A c \in HitReaders :
       pc[c] = "store" => seen[c] + Cardinality(HitReaders) <= answered.hit
  /\ \A c \in MissReaders :
       pc[c] = "store" => seen[c] + Cardinality(MissReaders) <= answered.miss
(* StatsAddUp, with the Gets that are counting by name.                      *)
GetsCounted ==
  /\ build = "solution" => /\ hits + Cardinality(HitReaders) = answered.hit
                           /\ misses + Cardinality(MissReaders) = answered.miss
  /\ hits + Cardinality(HitReaders) <= answered.hit
  /\ misses + Cardinality(MissReaders) <= answered.miss
  /\ answered.hit > 0 /\ Cardinality(HitReaders) = 0 => hits > 0
GetsBounded == answered.hit + answered.miss <= MaxGets

(* sweep works with a time that has been, so it takes only what has expired. *)
SweepsThePast == now <= clock

Stats == GetsCounted /\ ReadsSound /\ GetsBounded
CacheInv == CacheTypeOK /\ SweptAddsUp /\ Stats /\ SweepsThePast

-----------------------------------------------------------------------------
LEMMA InvCounts == CacheInv => CountsAddUp
<1>1. {c \in Readers : IsHit(c) = TRUE} = HitReaders
  BY DEF Readers, IsHit, HitReaders
<1>2. {c \in Readers : IsHit(c) = FALSE} = MissReaders
  BY DEF Readers, IsHit, MissReaders
<1>3. /\ Counting(TRUE) = Cardinality(HitReaders)
      /\ Counting(FALSE) = Cardinality(MissReaders)
  BY <1>1, <1>2 DEF Counting
<1> QED
  BY <1>3 DEF CacheInv, Stats, GetsCounted, CountsAddUp, StatsAddUp

LEMMA ReadersFinite ==
  /\ IsFiniteSet(HitReaders) /\ Cardinality(HitReaders) \in Nat
  /\ IsFiniteSet(MissReaders) /\ Cardinality(MissReaders) \in Nat
<1>1. HitReaders \subseteq Clients /\ MissReaders \subseteq Clients
  BY DEF HitReaders, MissReaders
<1> QED
  BY <1>1, FS_Subset, FS_CardinalityType, TTLCacheAssumption

LEMMA EntriesFinite ==
  ASSUME CacheTypeOK
  PROVE  IsFiniteSet(DOMAIN entries) /\ Cardinality(DOMAIN entries) \in Nat
  BY FS_Subset, FS_CardinalityType, TTLCacheAssumption DEF CacheTypeOK

LEMMA CacheInvInit == CacheInit => CacheInv
<1> SUFFICES ASSUME CacheInit PROVE CacheInv
  OBVIOUS
<1>1. DOMAIN entries = {} /\ HitReaders = {} /\ MissReaders = {}
  BY EmptySeq DEF CacheInit, HitReaders, MissReaders
<1>2. /\ Cardinality(DOMAIN entries) = 0
      /\ Cardinality(HitReaders) = 0 /\ Cardinality(MissReaders) = 0
  BY <1>1, FS_EmptySet
<1>3. CacheTypeOK
  <2>1. /\ DOMAIN entries \subseteq Keys
        /\ \A k \in DOMAIN entries :
             entries[k] \in [value : Values, expiresAt : 0..(MaxTime + TTL)]
    BY <1>1
  <2>2. 0 \in 0..MaxGets /\ 0 \in 0..MaxTime
    BY TTLCacheAssumption
  <2>3. answered \in [hit : 0..MaxGets, miss : 0..MaxGets]
    BY <2>2 DEF CacheInit
  <2> QED
    BY <2>1, <2>2, <2>3 DEF CacheInit, CacheTypeOK
<1>4. SweptAddsUp
  BY <1>2 DEF CacheInit, SweptAddsUp
<1>5. GetsCounted
  BY <1>2 DEF CacheInit, GetsCounted
<1>6. ReadsSound /\ GetsBounded /\ SweepsThePast
  BY <1>1, TTLCacheAssumption DEF CacheInit, ReadsSound, GetsBounded, SweepsThePast
<1> QED
  BY <1>3, <1>4, <1>5, <1>6 DEF CacheInv, Stats

-----------------------------------------------------------------------------
(* The steps that answer or count no Get.                                    *)
stats == <<build, hits, misses, pc, answer, seen, answered>>

LEMMA StatsStays == Stats /\ UNCHANGED stats => Stats'
<1> SUFFICES ASSUME Stats, UNCHANGED stats PROVE Stats'
  OBVIOUS
<1>1. HitReaders' = HitReaders /\ MissReaders' = MissReaders
  BY DEF stats, HitReaders, MissReaders
<1> QED
  BY <1>1 DEF stats, Stats, GetsCounted, ReadsSound, GetsBounded

(* One Get answers: it is from now on among those that count.                *)
LEMMA StatsGet ==
  ASSUME CacheInv, NEW c \in Clients, NEW k \in Keys, Get(c, k) PROVE Stats'
<1> DEFINE found == k \in DOMAIN entries /\ ~Expired(k)
<1>1. /\ UNCHANGED <<build, hits, misses, seen>> /\ pc[c] = "idle"
      /\ \A d \in Clients : pc'[d] = IF d = c THEN "count" ELSE pc[d]
      /\ \A d \in Clients \ {c} : answer'[d] = answer[d]
      /\ found => answer'[c] # Miss
      /\ ~found => answer'[c] = Miss
  BY TTLCacheAssumption DEF Get, CacheInv, CacheTypeOK
<1>2. /\ hits \in Nat /\ misses \in Nat /\ answered.hit \in Nat /\ answered.miss \in Nat
      /\ answered.hit + answered.miss < MaxGets /\ MaxGets \in Nat
  BY TTLCacheAssumption DEF Get, CacheInv, CacheTypeOK
<1>3. CASE found
  <2>1. answered'.hit = answered.hit + 1 /\ answered'.miss = answered.miss
    BY <1>3 DEF Get, CacheInv, CacheTypeOK
  <2>2. HitReaders' = HitReaders \union {c} /\ MissReaders' = MissReaders /\ c \notin HitReaders
    BY <1>1, <1>3 DEF HitReaders, MissReaders
  <2>3. /\ Cardinality(HitReaders') = Cardinality(HitReaders) + 1
        /\ Cardinality(MissReaders') = Cardinality(MissReaders)
    BY <2>2, ReadersFinite, FS_AddElement
  <2>4. GetsCounted' /\ GetsBounded'
    BY <1>1, <1>2, <2>1, <2>3, ReadersFinite DEF CacheInv, Stats, GetsCounted, GetsBounded
  <2>5. ReadsSound'
    <3>1. build' = "solution" => \A d \in Clients : pc'[d] # "store"
      BY <1>1 DEF CacheInv, Stats, ReadsSound
    <3>2. ASSUME NEW d \in HitReaders', pc'[d] = "store"
          PROVE  seen'[d] + Cardinality(HitReaders') <= answered'.hit
      <4>1. d \in HitReaders /\ pc[d] = "store" /\ seen[d] \in Nat /\ seen'[d] = seen[d]
        BY <1>1, <2>2, <3>2, TTLCacheAssumption DEF HitReaders, CacheInv, CacheTypeOK
      <4>2. seen[d] + Cardinality(HitReaders) <= answered.hit
        BY <4>1 DEF CacheInv, Stats, ReadsSound
      <4> QED
        BY <1>2, <2>1, <2>3, <4>1, <4>2, ReadersFinite
    <3>3. ASSUME NEW d \in MissReaders', pc'[d] = "store"
          PROVE  seen'[d] + Cardinality(MissReaders') <= answered'.miss
      <4>1. d \in MissReaders /\ pc[d] = "store" /\ seen[d] \in Nat /\ seen'[d] = seen[d]
        BY <1>1, <2>2, <3>3, TTLCacheAssumption DEF MissReaders, CacheInv, CacheTypeOK
      <4>2. seen[d] + Cardinality(MissReaders) <= answered.miss
        BY <4>1 DEF CacheInv, Stats, ReadsSound
      <4> QED
        BY <1>2, <2>1, <2>3, <4>1, <4>2, ReadersFinite
    <3> QED
      BY <3>1, <3>2, <3>3 DEF ReadsSound
  <2> QED
    BY <2>4, <2>5 DEF Stats
<1>4. CASE ~found
  <2>1. answered'.hit = answered.hit /\ answered'.miss = answered.miss + 1
    BY <1>4 DEF Get, CacheInv, CacheTypeOK
  <2>2. HitReaders' = HitReaders /\ MissReaders' = MissReaders \union {c} /\ c \notin MissReaders
    BY <1>1, <1>4 DEF HitReaders, MissReaders
  <2>3. /\ Cardinality(HitReaders') = Cardinality(HitReaders)
        /\ Cardinality(MissReaders') = Cardinality(MissReaders) + 1
    BY <2>2, ReadersFinite, FS_AddElement
  <2>4. GetsCounted' /\ GetsBounded'
    BY <1>1, <1>2, <2>1, <2>3, ReadersFinite DEF CacheInv, Stats, GetsCounted, GetsBounded
  <2>5. ReadsSound'
    <3>1. build' = "solution" => \A d \in Clients : pc'[d] # "store"
      BY <1>1 DEF CacheInv, Stats, ReadsSound
    <3>2. ASSUME NEW d \in HitReaders', pc'[d] = "store"
          PROVE  seen'[d] + Cardinality(HitReaders') <= answered'.hit
      <4>1. d \in HitReaders /\ pc[d] = "store" /\ seen[d] \in Nat /\ seen'[d] = seen[d]
        BY <1>1, <2>2, <3>2, TTLCacheAssumption DEF HitReaders, CacheInv, CacheTypeOK
      <4>2. seen[d] + Cardinality(HitReaders) <= answered.hit
        BY <4>1 DEF CacheInv, Stats, ReadsSound
      <4> QED
        BY <1>2, <2>1, <2>3, <4>1, <4>2, ReadersFinite
    <3>3. ASSUME NEW d \in MissReaders', pc'[d] = "store"
          PROVE  seen'[d] + Cardinality(MissReaders') <= answered'.miss
      <4>1. d \in MissReaders /\ pc[d] = "store" /\ seen[d] \in Nat /\ seen'[d] = seen[d]
        BY <1>1, <2>2, <3>3, TTLCacheAssumption DEF MissReaders, CacheInv, CacheTypeOK
      <4>2. seen[d] + Cardinality(MissReaders) <= answered.miss
        BY <4>1 DEF CacheInv, Stats, ReadsSound
      <4> QED
        BY <1>2, <2>1, <2>3, <4>1, <4>2, ReadersFinite
    <3> QED
      BY <3>1, <3>2, <3>3 DEF ReadsSound
  <2> QED
    BY <2>4, <2>5 DEF Stats
<1> QED
  BY <1>3, <1>4

(* One Get reads the counter that its answer calls for.                      *)
LEMMA StatsRead ==
  ASSUME CacheInv, NEW c \in Clients, ReadCounter(c) PROVE Stats'
<1>1. /\ UNCHANGED <<build, hits, misses, answer, answered>>
      /\ pc[c] = "count" /\ build # "solution"
      /\ \A d \in Clients : pc'[d] = IF d = c THEN "store" ELSE pc[d]
      /\ \A d \in Clients \ {c} : seen'[d] = seen[d]
      /\ seen'[c] = Counter(c)
  BY DEF ReadCounter, CountsAtomically, CacheInv, CacheTypeOK
<1>2. HitReaders' = HitReaders /\ MissReaders' = MissReaders
  BY <1>1 DEF HitReaders, MissReaders
<1>3. GetsCounted' /\ GetsBounded'
  BY <1>1, <1>2 DEF CacheInv, Stats, GetsCounted, GetsBounded
<1>4. ASSUME NEW d \in HitReaders', pc'[d] = "store"
      PROVE  seen'[d] + Cardinality(HitReaders') <= answered'.hit
  <2>1. CASE d = c
    <3>1. seen'[d] = hits
      BY <1>1, <1>2, <1>4, <2>1 DEF Counter, IsHit, HitReaders
    <3> QED
      BY <1>1, <1>2, <3>1 DEF CacheInv, Stats, GetsCounted
  <2>2. CASE d # c
    BY <1>1, <1>2, <1>4, <2>2 DEF CacheInv, Stats, ReadsSound, HitReaders
  <2> QED
    BY <2>1, <2>2
<1>5. ASSUME NEW d \in MissReaders', pc'[d] = "store"
      PROVE  seen'[d] + Cardinality(MissReaders') <= answered'.miss
  <2>1. CASE d = c
    <3>1. seen'[d] = misses
      BY <1>1, <1>2, <1>5, <2>1 DEF Counter, IsHit, MissReaders
    <3> QED
      BY <1>1, <1>2, <3>1 DEF CacheInv, Stats, GetsCounted
  <2>2. CASE d # c
    BY <1>1, <1>2, <1>5, <2>2 DEF CacheInv, Stats, ReadsSound, MissReaders
  <2> QED
    BY <2>1, <2>2
<1> QED
  BY <1>1, <1>3, <1>4, <1>5 DEF Stats, ReadsSound

(* One Get counts.  What it makes of the counter is no more than was         *)
(* answered, less the Gets still counting; exactly that in the solution.     *)
LEMMA StatsCount ==
  ASSUME CacheInv, NEW c \in Clients, NEW n \in Nat, n > 0, CountTo(c, n), pc[c] # "idle",
         answer[c] # Miss =>
           /\ n - 1 + Cardinality(HitReaders) <= answered.hit
           /\ build = "solution" => n = hits + 1,
         answer[c] = Miss =>
           /\ n - 1 + Cardinality(MissReaders) <= answered.miss
           /\ build = "solution" => n = misses + 1
  PROVE  Stats'
<1>1. /\ UNCHANGED <<build, answer, answered>>
      /\ \A d \in Clients : pc'[d] = IF d = c THEN "idle" ELSE pc[d]
      /\ \A d \in Clients \ {c} : seen'[d] = seen[d]
  BY DEF CountTo, CacheInv, CacheTypeOK
<1>2. /\ hits \in Nat /\ misses \in Nat /\ answered.hit \in Nat /\ answered.miss \in Nat
      /\ \A d \in Clients : seen[d] \in Nat
  BY TTLCacheAssumption DEF CacheInv, CacheTypeOK
<1>3. CASE answer[c] # Miss
  <2>1. hits' = n /\ misses' = misses
    BY <1>3 DEF CountTo, IsHit
  <2>2. HitReaders' = HitReaders \ {c} /\ MissReaders' = MissReaders /\ c \in HitReaders
    BY <1>1, <1>3 DEF HitReaders, MissReaders
  <2>3. /\ Cardinality(HitReaders') = Cardinality(HitReaders) - 1
        /\ Cardinality(MissReaders') = Cardinality(MissReaders)
    BY <2>2, ReadersFinite, FS_RemoveElement
  <2>4. GetsCounted' /\ GetsBounded'
    BY <1>1, <1>2, <1>3, <2>1, <2>3, ReadersFinite
    DEF CacheInv, Stats, GetsCounted, GetsBounded
  <2>5. /\ \A d \in HitReaders' : d \in HitReaders /\ pc'[d] = pc[d] /\ seen'[d] = seen[d]
        /\ \A d \in MissReaders' : d \in MissReaders /\ pc'[d] = pc[d] /\ seen'[d] = seen[d]
    BY <1>1, <2>2, <1>3 DEF HitReaders, MissReaders
  <2>6. ASSUME NEW d \in HitReaders', pc'[d] = "store"
        PROVE  seen'[d] + Cardinality(HitReaders') <= answered'.hit
    <3>1. seen[d] + Cardinality(HitReaders) <= answered.hit /\ seen[d] \in Nat
      BY <1>2, <2>5, <2>6 DEF CacheInv, Stats, ReadsSound, HitReaders
    <3> QED
      BY <1>1, <1>2, <2>3, <2>5, <3>1, ReadersFinite
  <2>7. ReadsSound'
    BY <1>1, <2>2, <2>3, <2>5, <2>6 DEF CacheInv, Stats, ReadsSound
  <2> QED
    BY <2>4, <2>7 DEF Stats
<1>4. CASE answer[c] = Miss
  <2>1. hits' = hits /\ misses' = n
    BY <1>4 DEF CountTo, IsHit
  <2>2. HitReaders' = HitReaders /\ MissReaders' = MissReaders \ {c} /\ c \in MissReaders
    BY <1>1, <1>4 DEF HitReaders, MissReaders
  <2>3. /\ Cardinality(HitReaders') = Cardinality(HitReaders)
        /\ Cardinality(MissReaders') = Cardinality(MissReaders) - 1
    BY <2>2, ReadersFinite, FS_RemoveElement
  <2>4. GetsCounted' /\ GetsBounded'
    BY <1>1, <1>2, <1>4, <2>1, <2>3, ReadersFinite
    DEF CacheInv, Stats, GetsCounted, GetsBounded
  <2>5. /\ \A d \in HitReaders' : d \in HitReaders /\ pc'[d] = pc[d] /\ seen'[d] = seen[d]
        /\ \A d \in MissReaders' : d \in MissReaders /\ pc'[d] = pc[d] /\ seen'[d] = seen[d]
    BY <1>1, <2>2, <1>4 DEF HitReaders, MissReaders
  <2>6. ASSUME NEW d \in MissReaders', pc'[d] = "store"
        PROVE  seen'[d] + Cardinality(MissReaders') <= answered'.miss
    <3>1. seen[d] + Cardinality(MissReaders) <= answered.miss /\ seen[d] \in Nat
      BY <1>2, <2>5, <2>6 DEF CacheInv, Stats, ReadsSound, MissReaders
    <3> QED
      BY <1>1, <1>2, <2>3, <2>5, <3>1, ReadersFinite
  <2>7. ReadsSound'
    BY <1>1, <2>2, <2>3, <2>5, <2>6 DEF CacheInv, Stats, ReadsSound
  <2> QED
    BY <2>4, <2>7 DEF Stats
<1> QED
  BY <1>3, <1>4

LEMMA StatsAdd ==
  ASSUME CacheInv, NEW c \in Clients, Add(c) PROVE Stats'
<1>1. hits \in Nat /\ misses \in Nat
  BY TTLCacheAssumption DEF CacheInv, CacheTypeOK
<1>2. /\ pc[c] # "idle" /\ CountTo(c, Counter(c) + 1)
      /\ Counter(c) = IF answer[c] # Miss THEN hits ELSE misses
  BY DEF Add, Counter, IsHit
<1>3. Counter(c) \in Nat /\ Counter(c) + 1 \in Nat /\ Counter(c) + 1 - 1 = Counter(c)
      /\ Counter(c) + 1 > 0
  BY <1>1, <1>2
<1>4. GetsCounted
  BY DEF CacheInv, Stats
<1> QED
  BY <1>2, <1>3, <1>4, StatsCount DEF GetsCounted

LEMMA StatsWrite ==
  ASSUME CacheInv, NEW c \in Clients, WriteCounter(c) PROVE Stats'
<1>1. /\ seen[c] \in Nat /\ seen[c] + 1 \in Nat /\ seen[c] + 1 - 1 = seen[c]
      /\ seen[c] + 1 > 0
  BY TTLCacheAssumption DEF CacheInv, CacheTypeOK
<1>2. pc[c] = "store" /\ CountTo(c, seen[c] + 1) /\ build # "solution"
  BY DEF WriteCounter, CacheInv, Stats, ReadsSound
<1>3. /\ answer[c] # Miss => seen[c] + Cardinality(HitReaders) <= answered.hit
      /\ answer[c] = Miss => seen[c] + Cardinality(MissReaders) <= answered.miss
  BY <1>2 DEF CacheInv, Stats, ReadsSound, HitReaders, MissReaders
<1> QED
  BY <1>1, <1>2, <1>3, StatsCount

LEMMA StatsNext == CacheInv /\ [CacheNext]_cacheVars => Stats'
<1> SUFFICES ASSUME CacheInv, [CacheNext]_cacheVars PROVE Stats'
  OBVIOUS
<1>1. ASSUME UNCHANGED stats PROVE Stats'
  BY <1>1, StatsStays DEF CacheInv
<1>2. CASE Elapse \/ Close \/ TakeTick \/ ReadClock \/ sweep \/ JanitorLeaves \/ UNCHANGED cacheVars
  BY <1>1, <1>2 DEF Elapse, Close, TakeTick, ReadClock, sweep, JanitorLeaves, cacheVars, stats
<1>3. ASSUME NEW k \in Keys, NEW v \in Values, Set(k, v) PROVE Stats'
  BY <1>1, <1>3 DEF Set, stats
<1> QED
  BY <1>2, <1>3, StatsGet, StatsRead, StatsAdd, StatsWrite DEF CacheNext, Count

-----------------------------------------------------------------------------
LEMMA CacheTypesNext == CacheInv /\ [CacheNext]_cacheVars => CacheTypeOK'
<1> SUFFICES ASSUME CacheInv, [CacheNext]_cacheVars PROVE CacheTypeOK'
  OBVIOUS
<1>0. CacheTypeOK /\ MaxGets \in Nat /\ MaxTime \in Nat /\ TTL \in Nat
  BY TTLCacheAssumption DEF CacheInv
<1>1. ASSUME NEW k \in Keys, NEW v \in Values, Set(k, v) PROVE CacheTypeOK'
  <2>1. DOMAIN entries' = DOMAIN entries \union {k} /\ DOMAIN entries' \subseteq Keys
    BY <1>0, <1>1 DEF Set, CacheTypeOK
  <2>2. \A x \in DOMAIN entries' :
          entries'[x] \in [value : Values, expiresAt : 0..(MaxTime + TTL)]
    <3>1. [value |-> v, expiresAt |-> clock + TTL]
            \in [value : Values, expiresAt : 0..(MaxTime + TTL)]
      BY <1>0 DEF CacheTypeOK
    <3> QED
      BY <1>0, <1>1, <3>1 DEF Set, CacheTypeOK
  <2>3. inserted' \in Nat
    BY <1>0, <1>1 DEF Set, CacheTypeOK
  <2> QED
    BY <1>0, <1>1, <2>1, <2>2, <2>3 DEF Set, CacheTypeOK, sweeping
<1>2. ASSUME NEW c \in Clients, NEW k \in Keys, Get(c, k) PROVE CacheTypeOK'
  <2>1. answer' \in [Clients -> Values \union {Miss}]
    <3>1. k \in DOMAIN entries => entries[k].value \in Values
      BY <1>0 DEF CacheTypeOK
    <3> QED
      BY <1>0, <1>2, <3>1 DEF Get, CacheTypeOK
  <2>2. answered' \in [hit : 0..MaxGets, miss : 0..MaxGets]
    BY <1>0, <1>2 DEF Get, CacheTypeOK
  <2>3. pc' \in [Clients -> {"idle", "count", "store"}]
    BY <1>0, <1>2 DEF Get, CacheTypeOK
  <2> QED
    BY <1>0, <1>2, <2>1, <2>2, <2>3 DEF Get, CacheTypeOK, sweeping
<1>3. ASSUME NEW c \in Clients, NEW n \in Nat, CountTo(c, n) PROVE CacheTypeOK'
  <2>1. hits' \in Nat /\ misses' \in Nat /\ answered' = answered
    BY <1>0, <1>3 DEF CountTo, CacheTypeOK
  <2>2. /\ hits' + Cardinality(HitReaders') <= answered.hit
        /\ misses' + Cardinality(MissReaders') <= answered.miss
    BY <2>1, StatsNext DEF Stats, GetsCounted
  <2>3. Cardinality(HitReaders') \in Nat /\ Cardinality(MissReaders') \in Nat
    <3>1. HitReaders' \subseteq Clients /\ MissReaders' \subseteq Clients
      BY DEF HitReaders, MissReaders
    <3> QED
      BY <3>1, FS_Subset, FS_CardinalityType, TTLCacheAssumption
  <2>4. answered.hit \in 0..MaxGets /\ answered.miss \in 0..MaxGets
    BY <1>0 DEF CacheTypeOK
  <2>5. hits' \in 0..MaxGets /\ misses' \in 0..MaxGets
    BY <1>0, <2>1, <2>2, <2>3, <2>4
  <2>6. /\ pc' \in [Clients -> {"idle", "count", "store"}]
        /\ seen' \in [Clients -> 0..MaxGets]
    BY <1>0, <1>3 DEF CountTo, CacheTypeOK
  <2> QED
    BY <1>0, <1>3, <2>5, <2>6 DEF CountTo, CacheTypeOK, sweeping
<1>4. ASSUME NEW c \in Clients, Add(c) \/ WriteCounter(c) PROVE CacheTypeOK'
  <2>1. Counter(c) + 1 \in Nat /\ seen[c] + 1 \in Nat
    BY <1>0 DEF CacheTypeOK, Counter
  <2> QED
    BY <1>3, <1>4, <2>1 DEF Add, WriteCounter
<1>5. ASSUME NEW c \in Clients, ReadCounter(c) PROVE CacheTypeOK'
  <2>1. seen' \in [Clients -> 0..MaxGets] /\ pc' \in [Clients -> {"idle", "count", "store"}]
    BY <1>0, <1>5 DEF ReadCounter, CacheTypeOK, Counter
  <2> QED
    BY <1>0, <1>5, <2>1 DEF ReadCounter, CacheTypeOK, sweeping
<1>6. CASE Elapse
  BY <1>0, <1>6 DEF Elapse, CacheTypeOK
<1>7. CASE Close \/ TakeTick \/ ReadClock \/ JanitorLeaves
  BY <1>0, <1>7 DEF Close, TakeTick, ReadClock, JanitorLeaves, CacheTypeOK, sweeping
<1>8. CASE sweep
  <2> DEFINE dead == {k \in DOMAIN entries : After(entries[k], now)}
  <2>1. Cardinality(dead) \in Nat
    BY <1>0, EntriesFinite, FS_Subset, FS_CardinalityType
  <2>2. swept' \in Nat
    BY <1>0, <1>8, <2>1 DEF sweep, CacheTypeOK
  <2>3. /\ DOMAIN entries' \subseteq DOMAIN entries
        /\ \A k \in DOMAIN entries' : entries'[k] = entries[k]
    BY <1>8 DEF sweep, Restrict
  <2> QED
    BY <1>0, <1>8, <2>2, <2>3 DEF sweep, CacheTypeOK
<1>9. CASE UNCHANGED cacheVars
  BY <1>0, <1>9 DEF cacheVars, CacheTypeOK, sweeping
<1> QED
  BY <1>1, <1>2, <1>4, <1>5, <1>6, <1>7, <1>8, <1>9 DEF CacheNext, Count

(* Every entry that came into the map is still there or counted in swept.    *)
LEMMA SweptNext == CacheInv /\ [CacheNext]_cacheVars => SweptAddsUp' /\ SweepsThePast'
<1> SUFFICES ASSUME CacheInv, [CacheNext]_cacheVars PROVE SweptAddsUp' /\ SweepsThePast'
  OBVIOUS
<1> USE DEF SweptAddsUp, SweepsThePast
<1>0. /\ clock \in Nat /\ now \in Nat /\ swept \in Nat /\ inserted \in Nat
      /\ now <= clock
      /\ IsFiniteSet(DOMAIN entries) /\ Cardinality(DOMAIN entries) \in Nat
      /\ swept + Cardinality(DOMAIN entries) = inserted
  BY EntriesFinite, TTLCacheAssumption DEF CacheInv, CacheTypeOK
<1>1. ASSUME NEW k \in Keys, NEW v \in Values, Set(k, v)
      PROVE  SweptAddsUp' /\ SweepsThePast'
  <2>1. /\ DOMAIN entries' = DOMAIN entries \union {k} /\ UNCHANGED <<swept, now, clock>>
        /\ inserted' = IF k \in DOMAIN entries THEN inserted ELSE inserted + 1
    BY <1>1 DEF Set, sweeping
  <2>2. Cardinality(DOMAIN entries')
          = IF k \in DOMAIN entries THEN Cardinality(DOMAIN entries)
                                    ELSE Cardinality(DOMAIN entries) + 1
    BY <1>0, <2>1, FS_AddElement
  <2> QED
    BY <1>0, <2>1, <2>2
<1>2. CASE sweep
  <2> DEFINE dead == {k \in DOMAIN entries : After(entries[k], now)}
  <2>1. /\ DOMAIN entries' = DOMAIN entries \ dead /\ UNCHANGED <<inserted, clock>>
        /\ now' = 0 /\ swept' = swept + Cardinality(dead)
    BY <1>2 DEF sweep, Restrict
  <2>2. Cardinality(dead) \in Nat /\ (DOMAIN entries) \intersect dead = dead
    BY <1>0, FS_Subset, FS_CardinalityType
  <2> HIDE DEF dead
  <2>3. Cardinality((DOMAIN entries) \ dead)
          = Cardinality(DOMAIN entries) - Cardinality((DOMAIN entries) \intersect dead)
    BY <1>0, FS_Difference
  <2>4. Cardinality(DOMAIN entries') = Cardinality(DOMAIN entries) - Cardinality(dead)
    BY <2>1, <2>2, <2>3
  <2>5. SweptAddsUp'
    BY <1>0, <2>1, <2>2, <2>4
  <2> QED
    BY <1>0, <2>1, <2>5
<1>3. CASE Elapse \/ ReadClock
  BY <1>0, <1>3 DEF Elapse, ReadClock
<1>4. ASSUME NEW c \in Clients, Count(c) \/ \E k \in Keys : Get(c, k)
      PROVE  SweptAddsUp' /\ SweepsThePast'
  BY <1>0, <1>4 DEF Count, Add, ReadCounter, WriteCounter, CountTo, Get, sweeping
<1>5. CASE Close \/ TakeTick \/ JanitorLeaves \/ UNCHANGED cacheVars
  BY <1>0, <1>5 DEF Close, TakeTick, JanitorLeaves, cacheVars, sweeping
<1> QED
  BY <1>1, <1>2, <1>3, <1>4, <1>5 DEF CacheNext

LEMMA CacheInvariance == CacheSpec => []CacheInv
<1>1. CacheInv /\ [CacheNext]_cacheVars => CacheInv'
  BY StatsNext, CacheTypesNext, SweptNext DEF CacheInv
<1> QED
  BY CacheInvInit, <1>1, PTL DEF CacheSpec

(* The counters: swept is exact in both builds; hits and misses are exact in *)
(* the solution, and in the shipped build never too large, and never nought  *)
(* after a hit, however the Gets interleave (ttlcache.go:53-63, 99-109).     *)
THEOREM CountersSound == CacheSpec => []CountsAddUp
  BY CacheInvariance, InvCounts, PTL

-----------------------------------------------------------------------------
(* The clients cannot tell the janitor from one that sweeps at once and with *)
(* the right time: the cache implements the map that forgets.                *)
LEMMA RefinesInit == CacheInit => Map!Init
<1> SUFFICES ASSUME CacheInit PROVE Map!Init
  OBVIOUS
<1>1. {k \in DOMAIN entries : ~Expired(k)} = {}
  BY EmptySeq DEF CacheInit
<1>2. Restrict(entries, {}) = <<>>
  BY EmptySeq DEF Restrict
<1> QED
  BY <1>1, <1>2 DEF CacheInit, Map!Init

LEMMA RefinesNext == CacheInv /\ [CacheNext]_cacheVars => [Map!Next]_(Map!vars)
<1> SUFFICES ASSUME CacheInv, [CacheNext]_cacheVars PROVE [Map!Next]_(Map!vars)
  OBVIOUS
<1> DEFINE Live == {k \in DOMAIN entries : ~Expired(k)}
           map == Restrict(entries, Live)
<1>0. /\ clock \in Nat /\ now \in Nat /\ now <= clock /\ TTL \in Nat
      /\ \A k \in DOMAIN entries : entries[k].expiresAt \in Nat
  BY TTLCacheAssumption DEF CacheInv, CacheTypeOK, SweepsThePast
<1>1. ASSUME UNCHANGED <<clock, entries, answer>> PROVE UNCHANGED Map!vars
  BY <1>1 DEF Map!vars, Restrict, Expired
<1>2. ASSUME NEW k \in Keys, NEW v \in Values, Set(k, v) PROVE Map!Next
  <2> DEFINE e == [value |-> v, expiresAt |-> clock + TTL]
  <2>1. /\ entries' = [x \in DOMAIN entries \union {k} |-> IF x = k THEN e ELSE entries[x]]
        /\ UNCHANGED <<clock, answer>>
    BY <1>2 DEF Set
  <2>2. Live' = Live \union {k}
    BY <1>0, <2>1 DEF Expired
  <2>3. map' = [x \in Live \union {k} |-> IF x = k THEN e ELSE map[x]]
    BY <2>1, <2>2 DEF Restrict
  <2>4. DOMAIN map = Live
    BY DEF Restrict
  <2>5. Map!Set(k, v)
    BY <2>1, <2>3, <2>4 DEF Map!Set
  <2> QED
    BY <2>5 DEF Map!Next
<1>3. ASSUME NEW c \in Clients, NEW k \in Keys, Get(c, k) PROVE Map!Next
  <2>1. map' = map /\ clock' = clock
    BY <1>3 DEF Get, Restrict, Expired
  <2>2. /\ DOMAIN map = Live
        /\ k \in Live => map[k] = entries[k]
    BY DEF Restrict
  <2>3. answer' = [answer EXCEPT ![c] = IF k \in DOMAIN map THEN map[k].value ELSE Miss]
    BY <1>3, <2>2 DEF Get
  <2>4. Map!Get(c, k)
    BY <2>1, <2>3 DEF Map!Get
  <2> QED
    BY <2>4 DEF Map!Next
<1>4. CASE Elapse
  <2>1. clock' = clock + 1 /\ UNCHANGED <<entries, answer>>
    BY <1>4 DEF Elapse
  <2>2. DOMAIN map = Live /\ \A x \in Live : map[x] = entries[x]
    BY DEF Restrict
  <2>3. Live' = {x \in DOMAIN map : map[x].expiresAt > clock}
    <3>1. \A x \in DOMAIN entries : x \in Live' <=> entries[x].expiresAt > clock
      BY <1>0, <2>1 DEF Expired
    <3>2. \A x \in DOMAIN entries : entries[x].expiresAt > clock => x \in Live
      BY <1>0 DEF Expired
    <3>3. Live' \subseteq DOMAIN entries /\ Live \subseteq DOMAIN entries
      BY <2>1
    <3> QED
      BY <2>2, <3>1, <3>2, <3>3
  <2>4. map' = [x \in Live' |-> entries[x]]
    BY <2>1 DEF Restrict
  <2>5. map' = [x \in {y \in DOMAIN map : map[y].expiresAt > clock} |-> map[x]]
    BY <2>2, <2>3, <2>4
  <2>6. Map!Elapse
    BY <2>1, <2>5 DEF Map!Elapse
  <2> QED
    BY <2>6 DEF Map!Next
<1>5. CASE sweep
  <2> DEFINE dead == {k \in DOMAIN entries : After(entries[k], now)}
  <2>1. entries' = [x \in (DOMAIN entries) \ dead |-> entries[x]] /\ UNCHANGED <<clock, answer>>
    BY <1>5 DEF sweep, Restrict
  <2>2. \A k \in dead : k \notin Live
    BY <1>0 DEF After, Expired
  <2>3. Live' = Live
    BY <2>1, <2>2 DEF Expired
  <2>4. map' = map
    BY <2>1, <2>2, <2>3 DEF Restrict
  <2> QED
    BY <2>1, <2>4 DEF Map!vars
<1>6. ASSUME NEW c \in Clients, Count(c) PROVE UNCHANGED <<clock, entries, answer>>
  BY <1>6 DEF Count, Add, ReadCounter, WriteCounter, CountTo
<1>7. CASE Close \/ TakeTick \/ ReadClock \/ JanitorLeaves \/ UNCHANGED cacheVars
  BY <1>1, <1>7 DEF Close, TakeTick, ReadClock, JanitorLeaves, cacheVars
<1> QED
  BY <1>1, <1>2, <1>3, <1>4, <1>5, <1>6, <1>7 DEF CacheNext

(* A client sees a map that forgets each key TTL after it was last set,      *)
(* though the janitor sweeps late and by a clock it read before it had the   *)
(* lock (ttlcache.go:51-63, 99-109).                                         *)
THEOREM ImplementsExpiringMap == CacheSpec => Transparent
  BY CacheInvariance, RefinesInit, RefinesNext, PTL DEF CacheSpec, Transparent, Map!Spec
=============================================================================
