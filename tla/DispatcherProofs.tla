-------------------------- MODULE DispatcherProofs --------------------------
(* What holds of the dispatcher for every pool, capacity, batch and build.   *)
EXTENDS Dispatcher, TLAPS, FiniteSetTheorems, SequenceTheorems

LEMMA AppendFacts ==
  ASSUME NEW S, NEW s \in Seq(S), NEW e \in S
  PROVE  /\ Append(s, e) \in Seq(S)
         /\ Len(Append(s, e)) = Len(s) + 1
         /\ \A i \in 1..Len(s) : Append(s, e)[i] = s[i]
         /\ Append(s, e)[Len(s) + 1] = e
  OBVIOUS

LEMMA RigidFacts ==
  ASSUME TypeOK PROVE batch \in Nat /\ Capacity \in Nat
<1>1. Cardinality(Workers) \in Nat
  BY FS_CardinalityType, DispatcherAssumption
<1> QED
  BY <1>1, DispatcherAssumption DEF TypeOK, Capacity

-----------------------------------------------------------------------------
LEMMA TypeInit == Init => TypeOK
<1> SUFFICES ASSUME Init PROVE TypeOK
  OBVIOUS
<1>1. batch \in Nat
  BY DispatcherAssumption DEF Init
<1>2. <<>> \in Seq(1..batch) /\ Len(<<>>) = 0
  BY EmptySeq
<1>3. hold \in [Workers -> 0..batch] /\ returned \subseteq Workers
  BY <1>1 DEF Init
<1>4. sent \in 0..batch /\ gathered \in 0..batch
  BY <1>1 DEF Init
<1>5. 0 <= JobsCap /\ 0 <= ReportsCap
  BY DispatcherAssumption
<1> QED
  BY <1>2, <1>3, <1>4, <1>5 DEF Init, TypeOK

LEMMA TypeNext == TypeOK /\ [Next]_vars => TypeOK'
<1> SUFFICES ASSUME TypeOK, [Next]_vars PROVE TypeOK'
  OBVIOUS
<1> USE DEF TypeOK
<1>0. batch \in Nat
  BY RigidFacts
<1>1. CASE Dispatch
  <2>1. sent + 1 \in 1..batch
    BY <1>0, <1>1 DEF Dispatch
  <2>2. jobs' \in Seq(1..batch) /\ Len(jobs') = Len(jobs) + 1
    BY <2>1, <1>1, AppendFacts DEF Dispatch
  <2> QED
    BY <1>0, <1>1, <2>1, <2>2, DispatcherAssumption DEF Dispatch, rigid
<1>2. CASE CloseJobs
  BY <1>2 DEF CloseJobs, rigid
<1>3. CASE Gather
  <2>1. /\ Head(reports) \in 1..batch
        /\ reports' \in Seq(1..batch) /\ Len(reports') = Len(reports) - 1
    BY <1>3, HeadTailProperties DEF Gather
  <2>2. Len(reports) \in Nat
    BY LenProperties
  <2>3. gathered + 1 \in 0..batch
    BY <1>0, <1>3 DEF Gather
  <2>4. Len(reports') <= ReportsCap
    BY <2>1, <2>2, DispatcherAssumption
  <2>5. logged' \subseteq 1..batch
    BY <1>3, <2>1 DEF Gather
  <2> QED
    BY <1>3, <2>1, <2>3, <2>4, <2>5 DEF Gather, rigid
<1>4. CASE Finish
  BY <1>4 DEF Finish, rigid
<1>5. ASSUME NEW w \in Workers, Take(w) PROVE TypeOK'
  <2>1. /\ Head(jobs) \in 1..batch
        /\ jobs' \in Seq(1..batch) /\ Len(jobs') = Len(jobs) - 1
    BY <1>5, HeadTailProperties DEF Take
  <2>2. Len(jobs) \in Nat
    BY LenProperties
  <2>3. hold' \in [Workers -> 0..batch]
    BY <1>0, <1>5, <2>1 DEF Take
  <2> QED
    BY <1>5, <2>1, <2>2, <2>3, DispatcherAssumption DEF Take, rigid
<1>6. ASSUME NEW w \in Workers, Report(w) PROVE TypeOK'
  <2>1. hold[w] \in 1..batch
    BY <1>0, <1>6 DEF Report
  <2>2. reports' \in Seq(1..batch) /\ Len(reports') = Len(reports) + 1
    BY <1>6, <2>1, AppendFacts DEF Report
  <2>3. hold' \in [Workers -> 0..batch]
    BY <1>0, <1>6 DEF Report
  <2>4. Len(reports) \in Nat
    BY LenProperties
  <2> QED
    BY <1>6, <2>2, <2>3, <2>4, DispatcherAssumption DEF Report, rigid
<1>7. ASSUME NEW w \in Workers, Return(w) PROVE TypeOK'
  BY <1>7 DEF Return, rigid
<1>8. CASE UNCHANGED vars
  BY <1>8 DEF vars
<1> QED
  BY <1>1, <1>2, <1>3, <1>4, <1>5, <1>6, <1>7, <1>8 DEF Next, Main, Worker

(* The buffers never exceed their capacity, and no loop of main or of a      *)
(* worker runs past the batch (main.go:38-49, 69-89).                        *)
THEOREM TypeCorrect == Spec => []TypeOK
  BY TypeInit, TypeNext, PTL DEF Spec

-----------------------------------------------------------------------------
(* What the dispatch order and the two phases of main add to conservation:   *)
(* the jobs buffer holds the last jobs sent, in order, and the shipped main  *)
(* gathers nothing before it has closed jobs.                                *)
InOrder == \A i \in 1..Len(jobs) : jobs[i] = sent - Len(jobs) + i
GatherLast == build = "shipped" /\ ~closed => gathered = 0

Inv == NoJobLost /\ InOrder /\ GatherLast

LEMMA BusyFacts ==
  ASSUME TypeOK
  PROVE  /\ IsFiniteSet(Busy) /\ Cardinality(Busy) \in Nat
         /\ Cardinality(Busy) <= Cardinality(Workers)
  BY FS_Subset, FS_CardinalityType, DispatcherAssumption DEF Busy

LEMMA InvInit == Init => Inv
<1> SUFFICES ASSUME Init PROVE Inv
  OBVIOUS
<1>1. Busy = {}
  BY DEF Init, Busy
<1> QED
  BY <1>1, FS_EmptySet, EmptySeq DEF Init, Inv, NoJobLost, InOrder, GatherLast

LEMMA InvNext == TypeOK /\ Inv /\ [Next]_vars => Inv'
<1> SUFFICES ASSUME TypeOK, Inv, [Next]_vars PROVE Inv'
  OBVIOUS
<1>0. /\ sent \in Nat /\ gathered \in Nat /\ Cardinality(Busy) \in Nat
      /\ Len(jobs) \in Nat /\ Len(reports) \in Nat
  BY RigidFacts, BusyFacts, LenProperties DEF TypeOK
<1>1. CASE Dispatch
  <2>1. sent + 1 \in 1..batch
    BY <1>0, <1>1, RigidFacts DEF Dispatch, TypeOK
  <2>2. /\ Len(jobs') = Len(jobs) + 1
        /\ \A i \in 1..Len(jobs) : jobs'[i] = jobs[i]
        /\ jobs'[Len(jobs) + 1] = sent + 1
    BY <1>1, <2>1, AppendFacts DEF Dispatch, TypeOK
  <2>3. Busy' = Busy
    BY <1>1 DEF Dispatch, Busy
  <2>4. NoJobLost'
    BY <1>0, <1>1, <2>2, <2>3 DEF Dispatch, NoJobLost, Inv
  <2>5. InOrder'
    <3> SUFFICES ASSUME NEW i \in 1..(Len(jobs) + 1)
                 PROVE  jobs'[i] = (sent + 1) - (Len(jobs) + 1) + i
      BY <1>1, <2>2 DEF InOrder, Dispatch
    <3>1. CASE i = Len(jobs) + 1
      BY <1>0, <2>2, <3>1
    <3>2. CASE i \in 1..Len(jobs)
      BY <1>0, <2>2, <3>2 DEF Inv, InOrder
    <3> QED
      BY <1>0, <3>1, <3>2
  <2>6. GatherLast'
    BY <1>1 DEF Dispatch, GatherLast, Inv, rigid
  <2> QED
    BY <2>4, <2>5, <2>6 DEF Inv
<1>2. CASE CloseJobs
  BY <1>2 DEF CloseJobs, Inv, NoJobLost, InOrder, GatherLast, Busy, rigid
<1>3. CASE Gather
  <2>1. Len(reports') = Len(reports) - 1
    BY <1>3, HeadTailProperties DEF Gather, TypeOK
  <2>2. Busy' = Busy
    BY <1>3 DEF Gather, Busy
  <2>3. NoJobLost'
    <3>1. sent' = sent /\ jobs' = jobs /\ gathered' = gathered + 1
      BY <1>3 DEF Gather
    <3>2. sent = Len(jobs) + Cardinality(Busy) + (Len(reports) - 1) + (gathered + 1)
      BY <1>0 DEF NoJobLost, Inv
    <3> QED
      BY <2>1, <2>2, <3>1, <3>2 DEF NoJobLost
  <2> QED
    BY <1>3, <2>3 DEF Gather, Gathering, Inv, InOrder, GatherLast, rigid
<1>4. CASE Finish
  BY <1>4 DEF Finish, Inv, NoJobLost, InOrder, GatherLast, Busy, rigid
<1>5. ASSUME NEW w \in Workers, Take(w) PROVE Inv'
  <2>1. /\ Len(jobs') = Len(jobs) - 1
        /\ Head(jobs) \in 1..batch
        /\ \A i \in 1..Len(jobs') : jobs'[i] = jobs[i + 1]
    BY <1>5, HeadTailProperties DEF Take, TypeOK
  <2>2. Busy' = Busy \union {w} /\ w \notin Busy
    BY <1>5, <2>1, RigidFacts DEF Take, Busy, TypeOK
  <2>3. Cardinality(Busy') = Cardinality(Busy) + 1
    BY <2>2, BusyFacts, FS_AddElement
  <2>4. NoJobLost'
    BY <1>0, <1>5, <2>1, <2>3 DEF Take, NoJobLost, Inv
  <2>5. InOrder'
    <3> SUFFICES ASSUME NEW i \in 1..(Len(jobs) - 1)
                 PROVE  jobs'[i] = sent - (Len(jobs) - 1) + i
      BY <1>5, <2>1 DEF InOrder, Take
    <3>1. i + 1 \in 1..Len(jobs)
      BY <1>0
    <3> QED
      BY <1>0, <2>1, <3>1 DEF Inv, InOrder
  <2> QED
    BY <1>5, <2>4, <2>5 DEF Take, Inv, GatherLast, rigid
<1>6. ASSUME NEW w \in Workers, Report(w) PROVE Inv'
  <2>1. hold[w] \in 1..batch
    BY <1>6, RigidFacts DEF Report, TypeOK
  <2>2. Len(reports') = Len(reports) + 1
    BY <1>6, <2>1, AppendFacts DEF Report, TypeOK
  <2>3. Busy' = Busy \ {w} /\ w \in Busy
    BY <1>6 DEF Report, Busy, TypeOK
  <2>4. Cardinality(Busy') = Cardinality(Busy) - 1
    BY <2>3, BusyFacts, FS_RemoveElement
  <2>5. NoJobLost'
    BY <1>0, <1>6, <2>2, <2>4 DEF Report, NoJobLost, Inv
  <2> QED
    BY <1>6, <2>5 DEF Report, Inv, InOrder, GatherLast, rigid
<1>7. ASSUME NEW w \in Workers, Return(w) PROVE Inv'
  BY <1>7 DEF Return, Inv, NoJobLost, InOrder, GatherLast, Busy, rigid
<1>8. CASE UNCHANGED vars
  BY <1>8 DEF vars, Inv, NoJobLost, InOrder, GatherLast, Busy
<1> QED
  BY <1>1, <1>2, <1>3, <1>4, <1>5, <1>6, <1>7, <1>8 DEF Next, Main, Worker

(* Every job sent is in a buffer, in a worker or gathered.                   *)
THEOREM Conservation == Spec => []NoJobLost
<1>1. Inv => NoJobLost
  BY DEF Inv
<1> QED
  BY <1>1, InvInit, InvNext, TypeCorrect, PTL DEF Spec

-----------------------------------------------------------------------------
LEMMA WedgedFacts ==
  ASSUME TypeOK, Inv, Wedged
  PROVE  build = "shipped" /\ sent = Capacity /\ sent < batch
<1>1. build = "shipped" /\ gathered = 0
  BY DispatcherAssumption DEF Wedged, Gathering, Inv, GatherLast, TypeOK
<1>2. sent = JobsCap + Cardinality(Workers) + ReportsCap
  BY <1>1, BusyFacts, DispatcherAssumption DEF Wedged, Inv, NoJobLost
<1> QED
  BY <1>1, <1>2, BusyFacts, FS_CardinalityType, DispatcherAssumption DEF Wedged, Capacity

(* The boundary of the deadlock, for every pool and every capacity: only the *)
(* shipped build freezes, and only with a batch beyond the capacity.         *)
THEOREM WedgeBoundary == Spec => []WedgeNeedsOversizedBatch
<1>1. TypeOK /\ Inv => WedgeNeedsOversizedBatch
  BY WedgedFacts, RigidFacts DEF WedgeNeedsOversizedBatch, TypeOK
<1> QED
  BY <1>1, InvInit, InvNext, TypeCorrect, PTL DEF Spec

(* Where the frozen process stands: the jobs in the buffer are the JobsCap   *)
(* jobs just before the one main holds.                                      *)
THEOREM WedgeStands == Spec => []WedgeShape
<1>1. ASSUME TypeOK, Inv PROVE WedgeShape
  <2> SUFFICES ASSUME Wedged
               PROVE  jobs = [i \in 1..JobsCap |-> ReportsCap + Cardinality(Workers) + i]
    BY <1>1, WedgedFacts DEF WedgeShape
  <2>1. jobs = [i \in 1..Len(jobs) |-> jobs[i]] /\ Len(jobs) = JobsCap
    BY <1>1, LenProperties DEF TypeOK, Wedged
  <2>2. ASSUME NEW i \in 1..JobsCap
        PROVE  jobs[i] = ReportsCap + Cardinality(Workers) + i
    <3>1. jobs[i] = Capacity - JobsCap + i
      BY <1>1, <2>1, WedgedFacts DEF Inv, InOrder
    <3> QED
      BY <3>1, FS_CardinalityType, DispatcherAssumption DEF Capacity
  <2> QED
    BY <2>1, <2>2
<1> QED
  BY <1>1, InvInit, InvNext, TypeCorrect, PTL DEF Spec

-----------------------------------------------------------------------------
(* Which states can step: the guards of the actions, whose other conjuncts   *)
(* only assign, so that Ready is ENABLED Next.                               *)
CanDispatch == ~complete /\ sent < batch /\ Len(jobs) < JobsCap
CanClose == ~complete /\ sent = batch /\ ~closed
CanTake(w) == ~complete /\ w \notin returned /\ hold[w] = 0 /\ jobs # <<>>
CanReport(w) == ~complete /\ hold[w] # 0 /\ Len(reports) < ReportsCap
CanReturn(w) == ~complete /\ w \notin returned /\ hold[w] = 0 /\ closed /\ jobs = <<>>
CanGather == Gathering /\ gathered < batch /\ reports # <<>>
CanFinish == Gathering /\ gathered = batch

Ready ==
  \/ CanDispatch \/ CanClose \/ CanGather \/ CanFinish
  \/ \E w \in Workers : CanTake(w) \/ CanReport(w) \/ CanReturn(w)

(* jobs is closed after the last one, and a worker returns only once none is *)
(* left: nobody is missing while there is work.                              *)
Orderly ==
  /\ closed => sent = batch
  /\ returned # {} => closed /\ jobs = <<>>

LEMMA OrderlyInit == Init => Orderly
  BY DEF Init, Orderly

LEMMA OrderlyNext == TypeOK /\ Orderly /\ [Next]_vars => Orderly'
<1> SUFFICES ASSUME TypeOK, Orderly, [Next]_vars PROVE Orderly'
  OBVIOUS
<1>1. CASE Dispatch
  BY <1>1, RigidFacts DEF Dispatch, Orderly, rigid, TypeOK
<1>2. CASE CloseJobs \/ Gather \/ Finish \/ UNCHANGED vars
  BY <1>2 DEF CloseJobs, Gather, Finish, Orderly, rigid, vars
<1>3. ASSUME NEW w \in Workers, Worker(w) PROVE Orderly'
  BY <1>3 DEF Worker, Take, Report, Return, Orderly, rigid
<1> QED
  BY <1>1, <1>2, <1>3 DEF Next, Main

LEMMA SleepsWedged ==
  ASSUME TypeOK, Inv, Orderly, ~Ready, ~complete PROVE Wedged
<1>0. /\ sent \in Nat /\ gathered \in Nat /\ batch \in Nat /\ sent <= batch /\ gathered <= batch
      /\ Len(jobs) \in Nat /\ Len(reports) \in Nat /\ Cardinality(Busy) \in Nat
      /\ JobsCap \in Nat \ {0} /\ ReportsCap \in Nat \ {0} /\ Workers # {}
      /\ Len(jobs) <= JobsCap /\ Len(reports) <= ReportsCap
  BY RigidFacts, BusyFacts, LenProperties, DispatcherAssumption DEF TypeOK
<1>1. (jobs = <<>> <=> Len(jobs) = 0) /\ (reports = <<>> <=> Len(reports) = 0)
  BY EmptySeq DEF TypeOK
<1>2. \A w \in Workers : ~ CanTake(w) /\ ~ CanReport(w) /\ ~ CanReturn(w)
  BY DEF Ready
<1>3. ~ CanDispatch /\ ~ CanClose /\ ~ CanGather /\ ~ CanFinish
  BY DEF Ready
<1>4. CASE sent = batch
  <2>1. closed /\ Gathering
    BY <1>3, <1>4 DEF CanClose, Gathering
  <2>2. gathered < batch /\ reports = <<>>
    BY <1>0, <1>3, <2>1 DEF CanGather, CanFinish
  <2>3. \A w \in Workers : hold[w] = 0
    BY <1>0, <1>1, <1>2, <2>2 DEF CanReport
  <2>4. Cardinality(Busy) = 0
    BY <2>3, FS_EmptySet DEF Busy
  <2>5. jobs # <<>>
    BY <1>0, <1>1, <1>4, <2>2, <2>4 DEF Inv, NoJobLost
  <2>6. \A w \in Workers : w \in returned
    BY <1>2, <2>3, <2>5 DEF CanTake
  <2> QED
    BY <1>0, <2>5, <2>6 DEF Orderly
<1>5. CASE sent # batch
  <2>1. Len(jobs) = JobsCap /\ jobs # <<>> /\ returned = {}
    BY <1>0, <1>1, <1>3, <1>5 DEF CanDispatch, Orderly
  <2>2. \A w \in Workers : hold[w] # 0
    BY <1>2, <2>1 DEF CanTake
  <2>3. Len(reports) = ReportsCap /\ reports # <<>>
    BY <1>0, <1>1, <1>2, <2>2 DEF CanReport
  <2>4. ~Gathering
    BY <1>0, <1>3, <2>3 DEF CanGather, CanFinish
  <2> QED
    BY <1>0, <1>5, <2>1, <2>2, <2>3, <2>4 DEF Wedged, Busy
<1> QED
  BY <1>4, <1>5

(* There is no other freeze, for any pool, capacity, batch and build: in     *)
(* every reachable state some goroutine can step, or main has returned, or   *)
(* main and all workers are blocked in their sends (main.go:38-49, 69-91).   *)
THEOREM OnlyWedgedSleeps == Spec => [](Ready \/ complete \/ Wedged)
<1>1. TypeOK /\ Inv /\ Orderly => Ready \/ complete \/ Wedged
  BY SleepsWedged
<1> QED
  BY <1>1, InvInit, InvNext, OrderlyInit, OrderlyNext, TypeCorrect, PTL DEF Spec

(* And a freeze is for good: no step leads out of it, and main never gets to *)
(* log "build complete".                                                     *)
THEOREM WedgedForGood == Spec => [](Wedged => [](Wedged /\ ~complete))
<1>1. ASSUME TypeOK, Wedged, [Next]_vars PROVE Wedged'
  <2>1. /\ sent # batch /\ ~(Len(jobs) < JobsCap) /\ ~(Len(reports) < ReportsCap)
        /\ \A w \in Workers : hold[w] # 0
    BY <1>1, RigidFacts, LenProperties, DispatcherAssumption DEF Wedged, Busy, TypeOK
  <2>2. ~Dispatch /\ ~CloseJobs /\ ~Gather /\ ~Finish
    BY <1>1, <2>1 DEF Dispatch, CloseJobs, Gather, Finish, Wedged
  <2>3. \A w \in Workers : ~Worker(w)
    BY <2>1 DEF Worker, Take, Report, Return
  <2>4. UNCHANGED vars
    BY <1>1, <2>2, <2>3 DEF Next, Main
  <2> QED
    BY <1>1, <2>4 DEF vars, Wedged, Busy, Gathering
<1>2. Wedged => ~complete
  BY DEF Wedged
<1> QED
  BY <1>1, <1>2, TypeCorrect, PTL DEF Spec

-----------------------------------------------------------------------------
(* Exactly once: a job a worker has received is in one worker, in one slot   *)
(* of reports, or logged, and never in two of them.                          *)
Once ==
  /\ \A w \in Busy : hold[w] <= sent - Len(jobs) /\ hold[w] \notin logged
  /\ \A w, v \in Busy : hold[w] = hold[v] => w = v
  /\ \A i \in 1..Len(reports) :
       reports[i] <= sent - Len(jobs) /\ reports[i] \notin logged
  /\ \A i, j \in 1..Len(reports) : reports[i] = reports[j] => i = j
  /\ \A w \in Busy, i \in 1..Len(reports) : hold[w] # reports[i]
  /\ \A n \in logged : n <= sent - Len(jobs)
  /\ IsFiniteSet(logged) /\ Cardinality(logged) = gathered

LEMMA OnceInit == Init => Once
<1> SUFFICES ASSUME Init PROVE Once
  OBVIOUS
<1>1. Busy = {}
  BY DEF Init, Busy
<1> QED
  BY <1>1, FS_EmptySet, EmptySeq DEF Init, Once

LEMMA OnceNext == TypeOK /\ Inv /\ Once /\ [Next]_vars => Once'
<1> SUFFICES ASSUME TypeOK, Inv, Once, [Next]_vars PROVE Once'
  OBVIOUS
<1>0. /\ batch \in Nat /\ sent \in Nat /\ gathered \in Nat
      /\ Len(jobs) \in Nat /\ Len(reports) \in Nat
      /\ \A w \in Workers : hold[w] \in Nat
      /\ \A i \in 1..Len(reports) : reports[i] \in Nat
      /\ \A n \in logged : n \in Nat
  BY RigidFacts, LenProperties, ElementOfSeq DEF TypeOK
<1>1. CASE Dispatch
  <2>1. sent + 1 \in 1..batch
    BY <1>0, <1>1 DEF Dispatch, TypeOK
  <2>2. Len(jobs') = Len(jobs) + 1
    BY <1>1, <2>1, AppendFacts DEF Dispatch, TypeOK
  <2>3. sent' - Len(jobs') = sent - Len(jobs)
    BY <1>0, <1>1, <2>2 DEF Dispatch
  <2> QED
    BY <1>1, <2>3 DEF Dispatch, Once, Busy
<1>2. CASE CloseJobs
  BY <1>2 DEF CloseJobs, Once, Busy
<1>3. CASE Gather
  <2>1. /\ Len(reports') = Len(reports) - 1 /\ Head(reports) = reports[1]
        /\ \A i \in 1..Len(reports') : reports'[i] = reports[i + 1]
    BY <1>3, HeadTailProperties DEF Gather, TypeOK
  <2>2. 1 \in 1..Len(reports)
    BY <1>0, <1>3, EmptySeq DEF Gather, TypeOK
  <2>3. IsFiniteSet(logged') /\ Cardinality(logged') = gathered'
    BY <1>3, <2>1, <2>2, FS_AddElement DEF Gather, Once
  <2>4. /\ Busy' = Busy /\ hold' = hold /\ sent' = sent /\ jobs' = jobs
        /\ logged' = logged \union {reports[1]}
    BY <1>3, <2>1 DEF Gather, Busy
  <2>5. \A i \in 1..Len(reports') : i + 1 \in 1..Len(reports) /\ i + 1 # 1
    BY <1>0, <2>1
  <2>6. \A w \in Busy : hold[w] <= sent - Len(jobs) /\ hold[w] \notin logged'
    BY <2>2, <2>4 DEF Once
  <2>7. \A i \in 1..Len(reports') :
          reports'[i] <= sent - Len(jobs) /\ reports'[i] \notin logged'
    BY <2>1, <2>2, <2>4, <2>5 DEF Once
  <2>8. \A i, j \in 1..Len(reports') : reports'[i] = reports'[j] => i = j
    <3> SUFFICES ASSUME NEW i \in 1..Len(reports'), NEW j \in 1..Len(reports'),
                        reports'[i] = reports'[j]
                 PROVE  i = j
      OBVIOUS
    <3>1. i + 1 = j + 1
      BY <2>1, <2>5 DEF Once
    <3> QED
      BY <3>1, <2>1, <1>0
  <2>9. \A w \in Busy, i \in 1..Len(reports') : hold[w] # reports'[i]
    BY <2>1, <2>5 DEF Once
  <2>10. \A n \in logged' : n <= sent - Len(jobs)
    BY <2>2, <2>4 DEF Once
  <2> QED
    BY <2>3, <2>4, <2>6, <2>7, <2>8, <2>9, <2>10, <1>0 DEF Once
<1>4. CASE Finish
  BY <1>4 DEF Finish, Once, Busy
<1>5. ASSUME NEW w \in Workers, Take(w) PROVE Once'
  <2>1. Len(jobs') = Len(jobs) - 1 /\ Head(jobs) = jobs[1] /\ Len(jobs) # 0
    BY <1>5, HeadTailProperties, EmptySeq DEF Take, TypeOK
  <2>2. 1 \in 1..Len(jobs) /\ Head(jobs) \in Nat /\ Head(jobs) # 0
    BY <1>0, <2>1, <1>5, HeadTailProperties DEF Take, TypeOK
  <2>3. Head(jobs) = (sent - Len(jobs)) + 1
    BY <1>0, <2>1, <2>2 DEF Inv, InOrder
  <2>4. sent' - Len(jobs') = (sent - Len(jobs)) + 1
    BY <1>0, <1>5, <2>1 DEF Take
  <2>5. /\ Busy' = Busy \union {w} /\ w \notin Busy /\ hold'[w] = Head(jobs)
        /\ \A v \in Busy : hold'[v] = hold[v] /\ v \in Workers
        /\ reports' = reports /\ logged' = logged /\ gathered' = gathered
    BY <1>5, <2>2 DEF Take, Busy, TypeOK
  <2>6. \A n \in Nat : n <= sent - Len(jobs) =>
          n <= sent' - Len(jobs') /\ n # Head(jobs)
    BY <1>0, <2>3, <2>4
  <2>7. Head(jobs) <= sent' - Len(jobs')
    BY <1>0, <2>3, <2>4
  <2>8. \A v \in Busy' : hold'[v] <= sent' - Len(jobs') /\ hold'[v] \notin logged'
    BY <1>0, <2>5, <2>6, <2>7 DEF Once
  <2>9. \A u, v \in Busy' : hold'[u] = hold'[v] => u = v
    BY <1>0, <2>5, <2>6 DEF Once
  <2>10. \A i \in 1..Len(reports) :
           reports[i] <= sent' - Len(jobs') /\ reports[i] \notin logged
    BY <1>0, <2>6 DEF Once
  <2>11. \A v \in Busy', i \in 1..Len(reports) : hold'[v] # reports[i]
    BY <1>0, <2>5, <2>6 DEF Once
  <2>12. \A n \in logged : n <= sent' - Len(jobs')
    BY <1>0, <2>6 DEF Once
  <2> QED
    BY <2>5, <2>8, <2>9, <2>10, <2>11, <2>12 DEF Once
<1>6. ASSUME NEW w \in Workers, Report(w) PROVE Once'
  <2>1. hold[w] \in 1..batch /\ w \in Busy
    BY <1>0, <1>6 DEF Report, TypeOK, Busy
  <2>2. /\ Len(reports') = Len(reports) + 1
        /\ \A i \in 1..Len(reports) : reports'[i] = reports[i]
        /\ reports'[Len(reports) + 1] = hold[w]
    BY <1>6, <2>1, AppendFacts DEF Report, TypeOK
  <2>3. /\ Busy' = Busy \ {w} /\ \A v \in Busy' : hold'[v] = hold[v]
        /\ sent' = sent /\ jobs' = jobs /\ logged' = logged /\ gathered' = gathered
    BY <1>6 DEF Report, Busy, TypeOK
  <2>4. \A i \in 1..Len(reports') : i \in 1..Len(reports) \/ i = Len(reports) + 1
    BY <1>0, <2>2
  <2>5. \A i \in 1..Len(reports') :
          reports'[i] <= sent - Len(jobs) /\ reports'[i] \notin logged
    BY <2>1, <2>2, <2>4 DEF Once
  <2>6. \A i, j \in 1..Len(reports') : reports'[i] = reports'[j] => i = j
    BY <2>1, <2>2, <2>4 DEF Once
  <2>7. \A v \in Busy', i \in 1..Len(reports') : hold'[v] # reports'[i]
    BY <2>1, <2>2, <2>3, <2>4 DEF Once
  <2> QED
    BY <2>3, <2>5, <2>6, <2>7 DEF Once
<1>7. ASSUME NEW w \in Workers, Return(w) PROVE Once'
  BY <1>7 DEF Return, Once, Busy
<1>8. CASE UNCHANGED vars
  BY <1>8 DEF vars, Once, Busy
<1> QED
  BY <1>1, <1>2, <1>3, <1>4, <1>5, <1>6, <1>7, <1>8 DEF Next, Main, Worker

LEMMA DeliversNext ==
  ASSUME TypeOK, Once, [Next]_vars
  PROVE  [Pool!Next]_(Pool!vars)
<1>1. CASE Gather
  <2>0. reports \in Seq(1..batch) /\ reports # <<>>
    BY <1>1 DEF Gather, TypeOK
  <2>1. Head(reports) \in 1..batch
    BY <2>0, HeadTailProperties
  <2>2. 1 \in 1..Len(reports) /\ Head(reports) = reports[1]
    BY <2>0, EmptySeq
  <2>3. Pool!Deliver(Head(reports))
    BY <1>1, <2>1, <2>2 DEF Gather, Gathering, Once, Pool!Deliver, rigid
  <2> QED
    BY <2>1, <2>3 DEF Pool!Next
<1>2. CASE Finish
  <2>1. Cardinality(1..batch) = batch /\ IsFiniteSet(1..batch)
    BY FS_Interval, RigidFacts
  <2>2. logged = 1..batch
    BY <1>2, <2>1, FS_Subset DEF Finish, Once, TypeOK
  <2> QED
    BY <1>2, <2>2 DEF Finish, Pool!Next, Pool!Complete, rigid
<1>3. CASE Dispatch \/ CloseJobs \/ UNCHANGED vars
  BY <1>3 DEF Dispatch, CloseJobs, vars, rigid, Pool!vars
<1>4. ASSUME NEW w \in Workers, Worker(w) PROVE UNCHANGED Pool!vars
  BY <1>4 DEF Worker, Take, Report, Return, rigid, Pool!vars
<1> QED
  BY <1>1, <1>2, <1>3, <1>4 DEF Next, Main

(* The pool implements exactly-once delivery: no job is reported twice, none *)
(* is missing when main says the build is complete (main.go:84-91).          *)
THEOREM ImplementsDelivery == Spec => Delivers
<1>1. Init => Pool!Init
  BY DispatcherAssumption DEF Init, Pool!Init
<1> QED
  BY <1>1, OnceInit, OnceNext, InvInit, InvNext, DeliversNext, TypeCorrect, PTL
     DEF Spec, Delivers, Pool!Spec
=============================================================================
