----------------------------- MODULE Warehouse ------------------------------
(* The inventory exercise, 03-delve/exercises/ex3-inventory/main.go: pickers *)
(* work through a closed channel of orders while a janitor returns expired   *)
(* reservations to the shelves.  Every method holds mu throughout but        *)
(* releaseExpired, which lets go of it between its snapshot and its update.  *)
(* There the shipped build sets stock from the snapshot; solution.diff adds  *)
(* to what it finds.                                                         *)
EXTENDS Integers, Sequences, FiniteSets

CONSTANTS
  Items,     \* the items considered, 0..5 in the code
  Pickers,   \* the picker goroutines, 4 in the code
  Initial,   \* initialPerItem, 100 in the code
  Books,     \* the order books considered: sequences of orders
  Builds     \* a subset of {"shipped", "solution"}

Order == [item : Items, reserve : BOOLEAN]

ASSUME WarehouseAssumption ==
  /\ Initial \in Nat /\ Books \subseteq Seq(Order)
  /\ Builds \subseteq {"shipped", "solution"}

(* buildOrders: order k of the book, numbered from 0.                        *)
Sticker == {15, 59, 119, 260, 280}
OrderOf(k) == IF k \in Sticker THEN [item |-> 5, reserve |-> k \in {59, 119}]
              ELSE [item |-> k % 5, reserve |-> k % 10 = 9]
buildOrders(count) == [i \in 1..count |-> OrderOf(i - 1)]

VARIABLES
  build, book, prompt,  \* chosen in Init: prompt if sweeps keep to their times
  next,                 \* the position of the next order in the channel
  hand,                 \* the order each picker has received, 0 if none
  shelf, reserved,      \* Warehouse.stock and Warehouse.reserved
  sold,                 \* units of each item shipped by Take
  scan,                 \* the janitor's snapshot, or NoScan
  lateSnap, lateSweep,  \* a snapshot, a whole sweep, since the pickers are done
  stopped,              \* stopJanitor is closed
  janitorGone, finished

chosen == <<build, book, prompt>>
stock == <<shelf, reserved, sold>>
janitor == <<scan, lateSnap, lateSweep, janitorGone>>
vars == <<chosen, next, hand, stock, janitor, stopped, finished>>

NoScan == <<>>

Init ==
  /\ build \in Builds /\ book \in Books /\ prompt \in BOOLEAN
  /\ next = 1 /\ hand = [p \in Pickers |-> 0]
  /\ shelf = [i \in Items |-> Initial] /\ reserved = [i \in Items |-> 0]
  /\ sold = [i \in Items |-> 0]
  /\ scan = NoScan /\ lateSnap = FALSE /\ lateSweep = FALSE
  /\ stopped = FALSE /\ janitorGone = FALSE /\ finished = FALSE
-----------------------------------------------------------------------------
(* Mutants.                                                                  *)
ReceivePastTheEnd(p) ==
  /\ hand[p] = 0 /\ next <= Len(book) + 1
  /\ hand' = [hand EXCEPT ![p] = next]
  /\ next' = next + 1
  /\ UNCHANGED <<chosen, stock, janitor, stopped, finished>>

ReturnedStale(i) == scan.stock[i] + scan.reserved[i]
NothingRemains == [i \in Items |-> 0]
NoGrace == TRUE
JanitorBreaksSelect == stopped /\ UNCHANGED vars
-----------------------------------------------------------------------------
Receive(p) ==
  /\ hand[p] = 0 /\ next <= Len(book)
  /\ hand' = [hand EXCEPT ![p] = next]
  /\ next' = next + 1
  /\ UNCHANGED <<chosen, stock, janitor, stopped, finished>>

(* Take or Reserve, as the order says.                                       *)
Fulfill(p) ==
  /\ hand[p] # 0
  /\ LET o == book[hand[p]] IN
       /\ shelf' = [shelf EXCEPT ![o.item] = @ - 1]
       /\ IF o.reserve
            THEN reserved' = [reserved EXCEPT ![o.item] = @ + 1] /\ UNCHANGED sold
            ELSE sold' = [sold EXCEPT ![o.item] = @ + 1] /\ UNCHANGED reserved
  /\ hand' = [hand EXCEPT ![p] = 0]
  /\ UNCHANGED <<chosen, next, janitor, stopped, finished>>

PickersDone == next > Len(book) /\ \A p \in Pickers : hand[p] = 0
-----------------------------------------------------------------------------
(* releaseExpired in its two critical sections.                              *)
Snapshot ==
  /\ ~janitorGone /\ scan = NoScan
  /\ scan' = [stock |-> shelf, reserved |-> reserved]
  /\ lateSnap' = PickersDone
  /\ UNCHANGED <<chosen, next, hand, stock, lateSweep, janitorGone, stopped, finished>>

Returned(i) ==
  IF build = "shipped" THEN scan.stock[i] + scan.reserved[i]
                       ELSE shelf[i] + scan.reserved[i]

Remaining == [i \in Items |-> reserved[i] - scan.reserved[i]]

Release ==
  /\ scan # NoScan
  /\ shelf' = [i \in Items |-> IF scan.reserved[i] = 0 THEN shelf[i] ELSE Returned(i)]
  /\ reserved' = Remaining
  /\ scan' = NoScan
  /\ lateSweep' = (lateSweep \/ lateSnap)
  /\ UNCHANGED <<chosen, next, hand, sold, lateSnap, janitorGone, stopped, finished>>

(* select picks at random between a tick and stopJanitor.                    *)
JanitorReturns ==
  /\ ~janitorGone /\ scan = NoScan /\ stopped
  /\ janitorGone' = TRUE
  /\ UNCHANGED <<chosen, next, hand, stock, scan, lateSnap, lateSweep, stopped,
                 finished>>

(* main waits for the pickers, then 900 ms: time to end the sweep under way  *)
(* and for one more of 300 ms, ticks being 250 ms apart, if sweeps keep to   *)
(* their times.                                                              *)
GraceOver == prompt => lateSweep

Stop ==
  /\ PickersDone /\ GraceOver /\ ~stopped
  /\ stopped' = TRUE
  /\ UNCHANGED <<chosen, next, hand, stock, janitor, finished>>

Finish ==
  /\ stopped /\ janitorGone /\ ~finished
  /\ finished' = TRUE
  /\ UNCHANGED <<chosen, next, hand, stock, janitor, stopped>>

Next ==
  \/ Snapshot \/ Release \/ JanitorReturns \/ Stop \/ Finish
  \/ \E p \in Pickers : Receive(p) \/ Fulfill(p)

Spec == Init /\ [][Next]_vars

(* A goroutine that can run is run, the ticker ticks, and select does not    *)
(* overlook stopJanitor for ever.                                            *)
FairSpec ==
  /\ Spec
  /\ WF_vars(Snapshot) /\ WF_vars(Release) /\ SF_vars(JanitorReturns)
  /\ WF_vars(Stop) /\ WF_vars(Finish)
  /\ \A p \in Pickers : WF_vars(Receive(p) \/ Fulfill(p))
-----------------------------------------------------------------------------
(* The variables have their types.                                           *)
TypeOK ==
  /\ build \in Builds /\ book \in Books /\ prompt \in BOOLEAN
  /\ next \in 1..(Len(book) + 1) /\ hand \in [Pickers -> 0..Len(book)]
  /\ shelf \in [Items -> Int] /\ reserved \in [Items -> Nat] /\ sold \in [Items -> Nat]
  /\ scan = NoScan \/ scan \in [stock : [Items -> Int], reserved : [Items -> Nat]]
  /\ \A b \in {lateSnap, lateSweep, stopped, janitorGone, finished} : b \in BOOLEAN

(* What the books are off by for an item, counting reservations as there.    *)
Drift(i) == shelf[i] + reserved[i] + sold[i] - Initial

(* A sweep loses nobody's units: the books balance in the solution build,    *)
(* and in the shipped build units only ever appear.                          *)
BooksBalance ==
  \A i \in Items : IF build = "solution" THEN Drift(i) = 0 ELSE Drift(i) >= 0

(* Units appear only in a sweep, and as many as orders took off the shelf    *)
(* while it slept, for an item that had a reservation when it began: that is *)
(* why the fast movers without reservations never drift (main.go:86-94).     *)
DriftExplained ==
  [][\A i \in Items :
       Drift(i)' # Drift(i) =>
         /\ scan # NoScan /\ scan.reserved[i] > 0
         /\ Drift(i)' - Drift(i) = scan.stock[i] - shelf[i]]_vars

(* "Reservations were all returned" (main.go:191) when the grace period is   *)
(* long enough, and then the reconciliation of the solution build finds each *)
(* shelf short of just the orders that were not reservations.                *)
Reconciles ==
  finished /\ prompt =>
    \A i \in Items :
      /\ reserved[i] = 0
      /\ build = "solution" =>
           shelf[i] = Initial - Cardinality({k \in 1..Len(book) :
                                               book[k] = [item |-> i, reserve |-> FALSE]})

(* main never waits for ever, neither for the pickers nor for the janitor.   *)
Finishes == <>finished
=============================================================================
