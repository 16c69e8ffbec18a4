------------------------------ MODULE Delivery ------------------------------
(* What every worker pool of the workshop promises the code that feeds it:   *)
(* each item is delivered exactly once, and the pool reports completion only *)
(* when nothing is missing.  The dispatcher, the fan-out/fan-in pipeline and *)
(* the shipper of exercise 3 are each meant to implement it.                 *)
EXTENDS Naturals, FiniteSets

CONSTANT Item

VARIABLES
  expected,   \* the items handed to the pool, fixed for a whole behaviour
  delivered,  \* the items that reached the gathering side
  count,      \* how many deliveries the gathering side has counted
  complete    \* the pool announced that it is done

vars == <<expected, delivered, count, complete>>

Init ==
  /\ expected \in SUBSET Item
  /\ delivered = {}
  /\ count = 0
  /\ complete = FALSE

Deliver(i) ==
  /\ ~complete
  /\ i \notin delivered
  /\ delivered' = delivered \union {i}
  /\ count' = count + 1
  /\ UNCHANGED <<expected, complete>>

Complete ==
  /\ delivered = expected
  /\ complete' = TRUE
  /\ UNCHANGED <<expected, delivered, count>>

Next == Complete \/ \E i \in expected : Deliver(i)

Spec == Init /\ [][Next]_vars
=============================================================================
