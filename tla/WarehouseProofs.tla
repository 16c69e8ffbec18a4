-------------------------- MODULE WarehouseProofs ---------------------------
(* The books of the warehouse, for any order book and any number of pickers. *)
(* The inductive invariant adds to BooksBalance what a sweep may rely on     *)
(* while it sleeps: nobody but the janitor puts anything back, so shelves    *)
(* only empty and reservations only grow behind its snapshot.                *)
EXTENDS Warehouse, TLAPS, FiniteSetTheorems

SnapshotBounds ==
  scan # NoScan =>
    \A i \in Items : scan.reserved[i] <= reserved[i] /\ shelf[i] <= scan.stock[i]

Inv == TypeOK /\ BooksBalance /\ SnapshotBounds

(* The order a picker has received is one of the book, on its way to Take or *)
(* Reserve.                                                                  *)
LEMMA HandHoldsAnOrder ==
  ASSUME TypeOK, NEW p \in Pickers, hand[p] # 0
  PROVE  book[hand[p]].item \in Items /\ book[hand[p]].reserve \in BOOLEAN
  <1>1. book \in Seq(Order)
    BY WarehouseAssumption DEF TypeOK
  <1>2. hand[p] \in 1..Len(book)
    BY <1>1 DEF TypeOK
  <1>3. book[hand[p]] \in Order
    BY <1>1, <1>2
  <1> QED
    BY <1>3 DEF Order

(* Full shelves and no reservation are in balance (main.go:133-136).         *)
LEMMA InitInv == Init => Inv
  <1> SUFFICES ASSUME Init PROVE Inv
    OBVIOUS
  <1>1. Len(book) \in Nat
    BY WarehouseAssumption DEF Init
  <1>2. TypeOK
    <2>1. \A b \in {lateSnap, lateSweep, stopped, janitorGone, finished} : b \in BOOLEAN
      BY DEF Init
    <2>2. next \in 1..(Len(book) + 1) /\ hand \in [Pickers -> 0..Len(book)]
      BY <1>1 DEF Init
    <2>3. /\ shelf \in [Items -> Int] /\ reserved \in [Items -> Nat]
          /\ sold \in [Items -> Nat]
      BY WarehouseAssumption DEF Init
    <2> QED
      BY <2>1, <2>2, <2>3 DEF Init, TypeOK
  <1>3. BooksBalance
    BY WarehouseAssumption DEF Init, BooksBalance, Drift
  <1>4. SnapshotBounds
    BY DEF Init, SnapshotBounds
  <1> QED
    BY <1>2, <1>3, <1>4 DEF Inv

(* An order moves a unit from its shelf to where the books also count it.    *)
LEMMA FulfillInv ==
  ASSUME Inv, NEW p \in Pickers, Fulfill(p)
  PROVE  Inv' /\ \A i \in Items : Drift(i)' = Drift(i)
  <1> DEFINE o == book[hand[p]]
  <1>1. o.item \in Items /\ o.reserve \in BOOLEAN
    BY HandHoldsAnOrder DEF Inv, Fulfill
  <1>2. UNCHANGED <<chosen, next, scan, lateSnap, lateSweep, janitorGone, stopped, finished>>
    BY DEF Fulfill, janitor
  <1>3. shelf \in [Items -> Int] /\ reserved \in [Items -> Nat] /\ sold \in [Items -> Nat]
    BY DEF Inv, TypeOK
  <1>4. shelf' = [shelf EXCEPT ![o.item] = @ - 1]
    BY DEF Fulfill
  <1>5. \/ reserved' = [reserved EXCEPT ![o.item] = @ + 1] /\ sold' = sold
        \/ sold' = [sold EXCEPT ![o.item] = @ + 1] /\ reserved' = reserved
    BY DEF Fulfill
  <1>6. /\ shelf' \in [Items -> Int] /\ reserved' \in [Items -> Nat]
        /\ sold' \in [Items -> Nat]
    BY <1>1, <1>3, <1>4, <1>5
  <1>7. hand' \in [Pickers -> 0..Len(book)]
    <2>1. Len(book) \in Nat
      BY WarehouseAssumption DEF Inv, TypeOK
    <2> QED
      BY <2>1 DEF Inv, TypeOK, Fulfill
  <1>8. TypeOK'
    BY <1>2, <1>6, <1>7 DEF Inv, TypeOK, chosen
  <1>9. ASSUME NEW i \in Items
        PROVE  /\ shelf'[i] + reserved'[i] + sold'[i] = shelf[i] + reserved[i] + sold[i]
               /\ shelf'[i] <= shelf[i] /\ reserved[i] <= reserved'[i]
    BY <1>1, <1>3, <1>4, <1>5
  <1>10. \A i \in Items : Drift(i)' = Drift(i)
    BY <1>3, <1>6, <1>9, WarehouseAssumption DEF Drift
  <1>11. BooksBalance'
    BY <1>2, <1>10 DEF Inv, BooksBalance, chosen
  <1>12. SnapshotBounds'
    <2> SUFFICES ASSUME scan # NoScan, NEW i \in Items
                 PROVE  scan.reserved[i] <= reserved'[i] /\ shelf'[i] <= scan.stock[i]
      BY <1>2 DEF SnapshotBounds, NoScan
    <2>1. scan.reserved[i] \in Nat /\ scan.stock[i] \in Int
      BY DEF Inv, TypeOK
    <2>2. scan.reserved[i] <= reserved[i] /\ shelf[i] <= scan.stock[i]
      BY DEF Inv, SnapshotBounds
    <2> QED
      BY <1>3, <1>6, <1>9, <2>1, <2>2
  <1> QED
    BY <1>8, <1>10, <1>11, <1>12 DEF Inv

(* The second critical section clears what the snapshot saw.  The shelf gets *)
(* back as much in the solution build; the shipped build also undoes what    *)
(* left it since, which is the drift.                                        *)
LEMMA ReleaseInv ==
  ASSUME Inv, Release
  PROVE  /\ Inv'
         /\ \A i \in Items : Drift(i)' # Drift(i) =>
              scan.reserved[i] > 0 /\ Drift(i)' - Drift(i) = scan.stock[i] - shelf[i]
  <1>1. /\ UNCHANGED <<chosen, next, hand, sold, lateSnap, janitorGone, stopped, finished>>
        /\ scan' = NoScan /\ scan # NoScan
        /\ lateSweep' = (lateSweep \/ lateSnap)
    BY DEF Release
  <1>2. /\ shelf \in [Items -> Int] /\ reserved \in [Items -> Nat]
        /\ sold \in [Items -> Nat] /\ Initial \in Nat
        /\ scan.stock \in [Items -> Int] /\ scan.reserved \in [Items -> Nat]
    BY <1>1, WarehouseAssumption DEF Inv, TypeOK
  <1>3. ASSUME NEW i \in Items
        PROVE  /\ scan.reserved[i] <= reserved[i] /\ shelf[i] <= scan.stock[i]
               /\ reserved'[i] = reserved[i] - scan.reserved[i]
               /\ shelf'[i] = IF scan.reserved[i] = 0 THEN shelf[i] ELSE Returned(i)
    BY <1>1 DEF Inv, SnapshotBounds, Release, Remaining
  <1>4. shelf' \in [Items -> Int]
    BY <1>2 DEF Release, Returned
  <1>5. reserved' \in [Items -> Nat]
    <2>1. \A i \in Items : reserved[i] - scan.reserved[i] \in Nat
      BY <1>2, <1>3
    <2> QED
      BY <2>1 DEF Release, Remaining
  <1>6. TypeOK'
    <2>1. lateSweep' \in BOOLEAN
      BY <1>1 DEF Inv, TypeOK
    <2> QED
      BY <1>1, <1>4, <1>5, <2>1 DEF Inv, TypeOK, chosen
  <1>7. ASSUME NEW i \in Items
        PROVE  Drift(i)' = CASE scan.reserved[i] = 0 -> Drift(i)
                             [] scan.reserved[i] > 0 /\ build = "shipped" ->
                                  Drift(i) + (scan.stock[i] - shelf[i])
                             [] scan.reserved[i] > 0 /\ build # "shipped" -> Drift(i)
    <2>1. Drift(i)' = shelf'[i] + reserved'[i] + sold'[i] - Initial
      BY DEF Drift
    <2>2. CASE scan.reserved[i] = 0
      BY <1>1, <1>2, <1>3, <2>1, <2>2 DEF Drift
    <2>3. CASE scan.reserved[i] > 0 /\ build = "shipped"
      BY <1>1, <1>2, <1>3, <2>1, <2>3 DEF Drift, Returned
    <2>4. CASE scan.reserved[i] > 0 /\ build # "shipped"
      BY <1>1, <1>2, <1>3, <2>1, <2>4 DEF Drift, Returned
    <2> QED
      BY <1>2, <2>2, <2>3, <2>4
  <1>8. ASSUME NEW i \in Items PROVE Drift(i) \in Int
    BY <1>2 DEF Drift
  <1>9. BooksBalance'
    <2> SUFFICES ASSUME NEW i \in Items
                 PROVE  IF build = "solution" THEN Drift(i)' = 0 ELSE Drift(i)' >= 0
      BY <1>1 DEF BooksBalance, chosen
    <2>1. IF build = "solution" THEN Drift(i) = 0 ELSE Drift(i) >= 0
      BY DEF Inv, BooksBalance
    <2> QED
      BY <1>2, <1>3, <1>7, <1>8, <2>1
  <1>10. SnapshotBounds'
    BY <1>1 DEF SnapshotBounds, NoScan
  <1> QED
    BY <1>2, <1>6, <1>7, <1>8, <1>9, <1>10 DEF Inv

(* Any other step leaves the books alone; a snapshot starts out exact.       *)
LEMMA OtherStepInv ==
  ASSUME Inv, UNCHANGED stock, UNCHANGED chosen,
         \/ UNCHANGED scan
         \/ scan' = [stock |-> shelf, reserved |-> reserved],
         TypeOK'
  PROVE  Inv' /\ \A i \in Items : Drift(i)' = Drift(i)
  <1>1. \A i \in Items : Drift(i)' = Drift(i)
    BY DEF Drift, stock
  <1>2. BooksBalance'
    BY <1>1 DEF Inv, BooksBalance, chosen
  <1>3. SnapshotBounds'
    <2>1. CASE UNCHANGED scan
      BY <2>1 DEF Inv, SnapshotBounds, stock, NoScan
    <2>2. CASE scan' = [stock |-> shelf, reserved |-> reserved]
      BY <2>2 DEF Inv, TypeOK, SnapshotBounds, stock
    <2> QED
      BY <2>1, <2>2
  <1> QED
    BY <1>1, <1>2, <1>3 DEF Inv

(* What one step may do to the books.                                        *)
DriftOnlyInRelease ==
  \A i \in Items :
    Drift(i)' # Drift(i) =>
      /\ scan # NoScan /\ scan.reserved[i] > 0
      /\ Drift(i)' - Drift(i) = scan.stock[i] - shelf[i]

LEMMA StepInv == Inv /\ [Next]_vars => Inv' /\ DriftOnlyInRelease
  <1> SUFFICES ASSUME Inv, [Next]_vars PROVE Inv' /\ DriftOnlyInRelease
    OBVIOUS
  <1>1. Len(book) \in Nat
    BY WarehouseAssumption DEF Inv, TypeOK
  <1>2. ASSUME NEW p \in Pickers, Receive(p) PROVE Inv' /\ DriftOnlyInRelease
    <2>1. hand[p] = 0 /\ next <= Len(book) /\ hand' = [hand EXCEPT ![p] = next]
          /\ next' = next + 1
      BY <1>2 DEF Receive
    <2>2. next' \in 1..(Len(book) + 1) /\ hand' \in [Pickers -> 0..Len(book)]
      BY <1>1, <2>1 DEF Inv, TypeOK
    <2>3. TypeOK'
      BY <1>2, <2>2 DEF Inv, TypeOK, Receive, chosen, stock, janitor
    <2> QED
      BY <1>2, <2>3, OtherStepInv DEF Receive, janitor, DriftOnlyInRelease
  <1>3. ASSUME NEW p \in Pickers, Fulfill(p) PROVE Inv' /\ DriftOnlyInRelease
    BY <1>3, FulfillInv DEF DriftOnlyInRelease
  <1>4. CASE Snapshot
    <2>1. lateSnap' \in BOOLEAN
      BY <1>4 DEF Snapshot, PickersDone
    <2>2. TypeOK'
      BY <1>4, <2>1 DEF Inv, TypeOK, Snapshot, chosen, stock
    <2> QED
      BY <1>4, <2>2, OtherStepInv DEF Snapshot, DriftOnlyInRelease
  <1>5. CASE Release
    BY <1>5, ReleaseInv DEF Release, DriftOnlyInRelease
  <1>6. CASE JanitorReturns \/ Stop \/ Finish \/ UNCHANGED vars
    <2>1. UNCHANGED stock /\ UNCHANGED chosen /\ UNCHANGED scan
      BY <1>6 DEF JanitorReturns, Stop, Finish, vars, janitor
    <2>2. TypeOK'
      BY <1>6 DEF Inv, TypeOK, JanitorReturns, Stop, Finish, vars, chosen, stock, janitor
    <2> QED
      BY <2>1, <2>2, OtherStepInv DEF DriftOnlyInRelease
  <1> QED
    BY <1>2, <1>3, <1>4, <1>5, <1>6 DEF Next

(* The invariant holds throughout.                                           *)
THEOREM Invariance == Spec => []Inv
  BY InitInv, StepInv, PTL DEF Spec

(* No reservation ever goes negative, whatever a sweep subtracts             *)
(* (main.go:93), and every variable keeps its type.                          *)
THEOREM TypeCorrect == Spec => []TypeOK
  BY Invariance, PTL DEF Inv

(* The books of the solution build balance at every moment of every run, and *)
(* those of the shipped build are never short.                               *)
THEOREM Balanced == Spec => []BooksBalance
  BY Invariance, PTL DEF Inv

(* Drift appears only when a sweep ends, only for items that had a           *)
(* reservation when it began, and is what left the shelf meanwhile.          *)
THEOREM DriftIsStaleStock == Spec => DriftExplained
  <1>1. Inv /\ [Next]_vars =>
          [\A i \in Items :
             Drift(i)' # Drift(i) =>
               /\ scan # NoScan /\ scan.reserved[i] > 0
               /\ Drift(i)' - Drift(i) = scan.stock[i] - shelf[i]]_vars
    BY StepInv DEF DriftOnlyInRelease
  <1> QED
    BY <1>1, Invariance, PTL DEF Spec, DriftExplained
-----------------------------------------------------------------------------
(* What the reconciliation of main reports.  Once the pickers are done no    *)
(* reservation is added, so a sweep that begins then clears them all; and    *)
(* sold counts the orders of the book that have been worked off.             *)
Grace ==
  /\ finished => stopped
  /\ stopped => PickersDone /\ GraceOver
  /\ lateSnap => PickersDone
  /\ lateSnap /\ scan # NoScan => scan.reserved = reserved
  /\ lateSweep => PickersDone /\ \A i \in Items : reserved[i] = 0

HandsApart ==
  \A p \in Pickers :
    hand[p] # 0 => hand[p] < next /\ \A q \in Pickers \ {p} : hand[q] # hand[p]

Served(i) ==
  {k \in 1..Len(book) : /\ k < next /\ \A p \in Pickers : hand[p] # k
                        /\ book[k] = [item |-> i, reserve |-> FALSE]}

SoldCounts == \A i \in Items : sold[i] = Cardinality(Served(i))

Ledger == Inv /\ Grace /\ HandsApart /\ SoldCounts

(* Nothing is sold, in hand or swept when the warehouse opens.               *)
LEMMA LedgerInit == Init => Ledger
  <1> SUFFICES ASSUME Init PROVE Ledger
    OBVIOUS
  <1>1. Grace
    BY DEF Init, Grace, NoScan
  <1>2. HandsApart
    BY DEF Init, HandsApart
  <1>3. SoldCounts
    <2> SUFFICES ASSUME NEW i \in Items PROVE sold[i] = Cardinality(Served(i))
      BY DEF SoldCounts
    <2>1. Served(i) = {}
      BY DEF Init, Served
    <2> QED
      BY <2>1, FS_EmptySet DEF Init
  <1> QED
    BY <1>1, <1>2, <1>3, InitInv DEF Ledger

(* No reservation is added once the pickers are done.                        *)
LEMMA GraceNext == Inv /\ Grace /\ [Next]_vars => Grace'
  <1> SUFFICES ASSUME Inv, Grace, [Next]_vars PROVE Grace'
    OBVIOUS
  <1>1. CASE UNCHANGED vars
    BY <1>1 DEF Grace, PickersDone, GraceOver, vars, chosen, stock, janitor, NoScan
  <1>2. ASSUME NEW p \in Pickers, Receive(p) \/ Fulfill(p) PROVE Grace'
    <2>1. ~PickersDone
      BY <1>2, WarehouseAssumption DEF Inv, TypeOK, PickersDone, Receive, Fulfill
    <2>2. ~stopped /\ ~finished /\ ~lateSnap /\ ~lateSweep
      BY <2>1 DEF Grace
    <2> QED
      BY <1>2, <2>2 DEF Grace, Receive, Fulfill, janitor
  <1>3. CASE Snapshot
    <2>1. PickersDone' = PickersDone
      BY <1>3 DEF Snapshot, PickersDone, chosen
    <2>2. UNCHANGED <<stopped, finished, lateSweep, reserved, prompt>>
      BY <1>3 DEF Snapshot, stock, chosen
    <2>3. lateSnap' = PickersDone /\ scan'.reserved = reserved
      BY <1>3 DEF Snapshot
    <2> QED
      BY <2>1, <2>2, <2>3 DEF Grace, GraceOver
  <1>4. CASE Release
    <2>1. PickersDone' = PickersDone /\ scan' = NoScan /\ scan # NoScan
      BY <1>4 DEF Release, PickersDone, chosen
    <2>2. UNCHANGED <<stopped, finished, lateSnap, prompt>>
      BY <1>4 DEF Release, chosen
    <2>3. lateSweep' = (lateSweep \/ lateSnap)
      BY <1>4 DEF Release
    <2>4. ASSUME lateSweep', NEW i \in Items PROVE reserved'[i] = 0
      <3>1. reserved'[i] = reserved[i] - scan.reserved[i]
        BY <1>4 DEF Release, Remaining
      <3>2. reserved[i] \in Nat /\ scan.reserved[i] \in Nat
        BY <2>1 DEF Inv, TypeOK
      <3>3. CASE lateSnap
        BY <2>1, <3>1, <3>2, <3>3 DEF Grace
      <3>4. CASE lateSweep
        <4>1. scan.reserved[i] <= reserved[i] /\ reserved[i] = 0
          BY <2>1, <3>4 DEF Inv, SnapshotBounds, Grace
        <4> QED
          BY <3>1, <3>2, <4>1
      <3> QED
        BY <2>3, <2>4, <3>3, <3>4
    <2> QED
      BY <2>1, <2>2, <2>3, <2>4 DEF Grace, GraceOver
  <1>5. CASE JanitorReturns \/ Stop \/ Finish
    <2>1. PickersDone' = PickersDone
      BY <1>5 DEF JanitorReturns, Stop, Finish, PickersDone, chosen
    <2>2. UNCHANGED <<lateSnap, lateSweep, scan, reserved, prompt>>
      BY <1>5 DEF JanitorReturns, Stop, Finish, janitor, stock, chosen
    <2>3. (finished' => stopped') /\ (stopped' => stopped \/ (PickersDone /\ GraceOver))
      BY <1>5 DEF JanitorReturns, Stop, Finish, Grace
    <2> QED
      BY <2>1, <2>2, <2>3 DEF Grace, GraceOver, NoScan
  <1> QED
    BY <1>1, <1>2, <1>3, <1>4, <1>5 DEF Next

(* The channel gives each order to one picker.                               *)
LEMMA HandsApartNext == Inv /\ HandsApart /\ [Next]_vars => HandsApart'
  <1> SUFFICES ASSUME Inv, HandsApart, [Next]_vars PROVE HandsApart'
    OBVIOUS
  <1>1. CASE UNCHANGED <<next, hand>>
    BY <1>1 DEF HandsApart
  <1>2. ASSUME NEW p \in Pickers, Receive(p) \/ Fulfill(p) PROVE HandsApart'
    <2>1. /\ next \in Nat /\ next > 0 /\ next' \in Nat /\ next <= next'
          /\ \A q \in Pickers : hand[q] \in Nat
      BY <1>2, WarehouseAssumption DEF Inv, TypeOK, Receive, Fulfill
    <2>2. \/ hand'[p] = next /\ next' = next + 1
          \/ hand'[p] = 0
      BY <1>2 DEF Inv, TypeOK, Receive, Fulfill
    <2>3. \A q \in Pickers \ {p} : hand'[q] = hand[q]
      BY <1>2 DEF Inv, TypeOK, Receive, Fulfill
    <2> SUFFICES ASSUME NEW q \in Pickers, hand'[q] # 0
                 PROVE  hand'[q] < next' /\ \A r \in Pickers \ {q} : hand'[r] # hand'[q]
      BY DEF HandsApart
    <2>4. \A r \in Pickers : hand[r] < next
      BY <2>1 DEF HandsApart
    <2>5. hand'[q] < next'
      BY <2>1, <2>2, <2>3, <2>4
    <2>6. ASSUME NEW r \in Pickers \ {q} PROVE hand'[r] # hand'[q]
      <3>1. CASE r # p /\ q # p
        BY <2>3, <3>1 DEF HandsApart
      <3>2. CASE r = p \/ q = p
        BY <2>1, <2>2, <2>3, <2>4, <3>2
      <3> QED
        BY <3>1, <3>2
    <2> QED
      BY <2>5, <2>6
  <1>3. CASE Snapshot \/ Release \/ JanitorReturns \/ Stop \/ Finish \/ UNCHANGED vars
    BY <1>1, <1>3 DEF Snapshot, Release, JanitorReturns, Stop, Finish, vars
  <1> QED
    BY <1>2, <1>3 DEF Next

(* Take is called once for each order that is no reservation.                *)
LEMMA SoldCountsNext == Ledger /\ [Next]_vars => SoldCounts'
  <1> SUFFICES ASSUME Ledger, [Next]_vars, NEW i \in Items
               PROVE  sold'[i] = Cardinality(Served(i)')
    BY DEF SoldCounts
  <1>0. /\ sold[i] = Cardinality(Served(i)) /\ sold \in [Items -> Nat]
        /\ Len(book) \in Nat /\ next \in Nat
    BY WarehouseAssumption DEF Ledger, SoldCounts, Inv, TypeOK
  <1>1. IsFiniteSet(Served(i))
    <2>1. IsFiniteSet(1..Len(book)) /\ Served(i) \subseteq 1..Len(book)
      BY <1>0, FS_Interval DEF Served
    <2> QED
      BY <2>1, FS_Subset
  <1>2. ASSUME UNCHANGED <<book, next, hand, sold>> PROVE sold'[i] = Cardinality(Served(i)')
    BY <1>0, <1>2 DEF Served
  <1>3. ASSUME NEW p \in Pickers, Receive(p) PROVE sold'[i] = Cardinality(Served(i)')
    <2>1. UNCHANGED <<book, sold>> /\ next' = next + 1 /\ hand[p] = 0
      BY <1>3 DEF Receive, chosen, stock
    <2>2. hand'[p] = next /\ \A q \in Pickers \ {p} : hand'[q] = hand[q]
      BY <1>3 DEF Receive, Ledger, Inv, TypeOK
    <2>3. ASSUME NEW k \in 1..Len(book)
          PROVE  (k < next' /\ \A q \in Pickers : hand'[q] # k)
                   <=> (k < next /\ \A q \in Pickers : hand[q] # k)
      BY <1>0, <2>1, <2>2
    <2>4. Served(i)' = Served(i)
      BY <2>1, <2>3 DEF Served
    <2> QED
      BY <1>0, <2>1, <2>4
  <1>4. ASSUME NEW p \in Pickers, Fulfill(p) PROVE sold'[i] = Cardinality(Served(i)')
    <2> DEFINE o == book[hand[p]]
    <2>1. UNCHANGED <<book, next>> /\ hand[p] # 0
      BY <1>4 DEF Fulfill, chosen
    <2>2. hand'[p] = 0 /\ \A q \in Pickers \ {p} : hand'[q] = hand[q]
      BY <1>4 DEF Fulfill, Ledger, Inv, TypeOK
    <2>3. /\ hand[p] \in 1..Len(book) /\ hand[p] < next
          /\ \A q \in Pickers \ {p} : hand[q] # hand[p]
      BY <1>0, <2>1 DEF Ledger, Inv, TypeOK, HandsApart
    <2>4. ASSUME NEW k \in 1..Len(book)
          PROVE  (\A q \in Pickers : hand'[q] # k)
                   <=> (k = hand[p] \/ \A q \in Pickers : hand[q] # k)
      BY <2>2, <2>3
    <2>5. o \in Order
      BY <1>0, <2>3, WarehouseAssumption DEF Ledger, Inv, TypeOK
    <2>6. (o = [item |-> i, reserve |-> FALSE]) <=> (o.item = i /\ ~o.reserve)
      <3>1. o = [item |-> o.item, reserve |-> o.reserve] /\ o.reserve \in BOOLEAN
        BY <2>5 DEF Order
      <3>2. o = [item |-> i, reserve |-> FALSE] => o.item = i /\ o.reserve = FALSE
        OBVIOUS
      <3>3. o.item = i /\ o.reserve = FALSE => o = [item |-> i, reserve |-> FALSE]
        BY <3>1
      <3> QED
        BY <3>1, <3>2, <3>3
    <2>7. CASE o.item = i /\ ~o.reserve
      <3>1. Served(i)' = Served(i) \cup {hand[p]}
        BY <2>1, <2>3, <2>4, <2>6, <2>7 DEF Served
      <3>2. hand[p] \notin Served(i)
        BY DEF Served
      <3>3. sold'[i] = sold[i] + 1
        BY <1>0, <1>4, <2>7 DEF Fulfill
      <3> QED
        BY <1>0, <1>1, <3>1, <3>2, <3>3, FS_AddElement
    <2>8. CASE ~(o.item = i /\ ~o.reserve)
      <3>1. Served(i)' = Served(i)
        BY <2>1, <2>4, <2>6, <2>8 DEF Served
      <3>2. sold'[i] = sold[i]
        BY <1>0, <1>4, <2>5, <2>8 DEF Fulfill, Order
      <3> QED
        BY <1>0, <3>1, <3>2
    <2> QED
      BY <2>7, <2>8
  <1>5. CASE Snapshot \/ Release \/ JanitorReturns \/ Stop \/ Finish \/ UNCHANGED vars
    <2>1. UNCHANGED <<book, next, hand, sold>>
      BY <1>5 DEF Snapshot, Release, JanitorReturns, Stop, Finish, vars, chosen, stock
    <2> QED
      BY <1>2, <2>1
  <1> QED
    BY <1>3, <1>4, <1>5 DEF Next

(* The whole invariant holds throughout.                                     *)
LEMMA LedgerKept == Spec => []Ledger
  <1>1. Ledger /\ [Next]_vars => Ledger'
    BY StepInv, GraceNext, HandsApartNext, SoldCountsNext DEF Ledger
  <1> QED
    BY LedgerInit, <1>1, PTL DEF Spec

(* The reconciliation at the end of main: "Reservations were all returned"   *)
(* (main.go:191) whenever sweeps keep to their times, and in the solution    *)
(* build each shelf is then short of exactly the orders that were no         *)
(* reservations, whatever the order book and however many pickers.           *)
THEOREM ReportIsRight == Spec => []Reconciles
  <1>1. Ledger => Reconciles
    <2> SUFFICES ASSUME Ledger, finished, prompt, NEW i \in Items
                 PROVE  /\ reserved[i] = 0
                        /\ build = "solution" =>
                             shelf[i] = Initial - Cardinality({k \in 1..Len(book) :
                                          book[k] = [item |-> i, reserve |-> FALSE]})
      BY DEF Reconciles
    <2>1. PickersDone /\ reserved[i] = 0
      BY DEF Ledger, Grace, GraceOver
    <2>2. Len(book) \in Nat /\ next \in Nat /\ next > Len(book)
      BY <2>1, WarehouseAssumption DEF Ledger, Inv, TypeOK, PickersDone
    <2>3. Served(i) = {k \in 1..Len(book) : book[k] = [item |-> i, reserve |-> FALSE]}
      BY <2>1, <2>2 DEF Served, PickersDone
    <2>4. sold[i] = Cardinality(Served(i))
      BY DEF Ledger, SoldCounts
    <2>5. build = "solution" => shelf[i] + reserved[i] + sold[i] - Initial = 0
      BY DEF Ledger, Inv, BooksBalance, Drift
    <2>6. shelf[i] \in Int /\ sold[i] \in Nat /\ Initial \in Nat
      BY WarehouseAssumption DEF Ledger, Inv, TypeOK
    <2>7. build = "solution" => shelf[i] = Initial - sold[i]
      BY <2>1, <2>5, <2>6
    <2> QED
      BY <2>1, <2>3, <2>4, <2>7
  <1> QED
    BY LedgerKept, <1>1, PTL
=============================================================================
