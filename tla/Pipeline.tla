------------------------------ MODULE Pipeline ------------------------------
(* The order pipeline, 03-delve/demo/pipeline.go: main, receiver, validator, *)
(* the processors and shipper in a chain of unbuffered channels.  A send on  *)
(* an unbuffered channel is one joint step of sender and receiver.  An order *)
(* is its ID, 1..Len(batch); batch[o] says whether it has items; 0 stands    *)
(* for "no order".  Priorities only set how long a step takes.               *)
EXTENDS Naturals, Sequences, FiniteSets

CONSTANTS
  Processors,  \* the processor goroutines, 2 in the code
  MaxShipped,  \* shipper leaves after that many orders, 10 in the code
  Batches      \* the batches considered: sequences of BOOLEAN

ASSUME PipelineAssumption ==
  /\ IsFiniteSet(Processors) /\ MaxShipped \in Nat
  /\ Batches \subseteq Seq(BOOLEAN)

VARIABLES
  batch,           \* chosen in Init, as is
  stalls,          \* whether the machine may stall past the timers
  sent,            \* orders that SendOrder has sent
  recv, val,       \* the order receiver and validator have
  proc,            \* the order each processor has
  shipped, rejected,
  shipperGone,     \* shipper has returned (and closed p.done)
  incomingClosed,  \* Wait has closed incoming
  recvGone,        \* receiver has returned, closing validation
  valGone,         \* validator has returned, closing processing
  procGone,        \* the processors that have returned (nobody closes shipping)
  outcome          \* of main: "running", "completed", or "timeout" and select{}

chosen == <<batch, stalls>>
closing == <<incomingClosed, recvGone, valGone, procGone>>
vars == <<chosen, sent, recv, val, proc, shipped, rejected, shipperGone, closing, outcome>>

Init ==
  /\ batch \in Batches /\ stalls \in BOOLEAN
  /\ sent = 0 /\ recv = 0 /\ val = 0 /\ proc = [p \in Processors |-> 0]
  /\ shipped = {} /\ rejected = {} /\ shipperGone = FALSE
  /\ incomingClosed = FALSE /\ recvGone = FALSE /\ valGone = FALSE
  /\ procGone = {} /\ outcome = "running"

Running == outcome # "completed"  \* the process exits when main returns
-----------------------------------------------------------------------------
(* Mutants.                                                                  *)
SendOrderPastTheEnd ==
  /\ sent <= Len(batch) /\ recv = 0
  /\ sent' = sent + 1 /\ recv' = sent + 1
  /\ UNCHANGED <<chosen, val, proc, shipped, rejected, shipperGone, closing, outcome>>

ToValidatorUnasked ==
  /\ Running /\ recv # 0
  /\ val' = recv /\ recv' = 0
  /\ UNCHANGED <<chosen, sent, proc, shipped, rejected, shipperGone, closing, outcome>>

HasRoomForOneMore == Cardinality(shipped) <= MaxShipped
NeverIdle == FALSE
WaitGroupWithoutProcessors == valGone /\ shipperGone
-----------------------------------------------------------------------------
SendOrder ==
  /\ sent < Len(batch) /\ recv = 0
  /\ sent' = sent + 1 /\ recv' = sent + 1
  /\ UNCHANGED <<chosen, val, proc, shipped, rejected, shipperGone, closing, outcome>>

ToValidator ==
  /\ Running /\ recv # 0 /\ val = 0
  /\ val' = recv /\ recv' = 0
  /\ UNCHANGED <<chosen, sent, proc, shipped, rejected, shipperGone, closing, outcome>>

Reject ==
  /\ Running /\ val # 0 /\ ~batch[val]
  /\ rejected' = rejected \union {val} /\ val' = 0
  /\ UNCHANGED <<chosen, sent, recv, proc, shipped, shipperGone, closing, outcome>>

ToProcessor(p) ==
  /\ Running /\ val # 0 /\ batch[val] /\ proc[p] = 0
  /\ proc' = [proc EXCEPT ![p] = val] /\ val' = 0
  /\ UNCHANGED <<chosen, sent, recv, shipped, rejected, shipperGone, closing, outcome>>

HasRoom == Cardinality(shipped) < MaxShipped

Ship(p) ==
  /\ Running /\ proc[p] # 0 /\ ~shipperGone /\ HasRoom
  /\ shipped' = shipped \union {proc[p]}
  /\ proc' = [proc EXCEPT ![p] = 0]
  /\ UNCHANGED <<chosen, sent, recv, val, rejected, shipperGone, closing, outcome>>

(* shipper waits 5 s for an order.  Unless the machine stalls that is longer *)
(* than any order takes to reach it, so it times out only when none will.    *)
Drained ==
  sent = Len(batch) /\ recv = 0 /\ val = 0 /\ \A p \in Processors : proc[p] = 0

IdleTimeout == stalls \/ Drained

ShipperLeaves ==
  /\ Running /\ ~shipperGone /\ (~HasRoom \/ IdleTimeout)
  /\ shipperGone' = TRUE
  /\ UNCHANGED <<chosen, sent, recv, val, proc, shipped, rejected, closing, outcome>>

(* Wait closes incoming, and each stage closes the next one's channel.       *)
CloseIncoming ==
  /\ Running /\ sent = Len(batch) /\ ~incomingClosed
  /\ incomingClosed' = TRUE
  /\ UNCHANGED <<chosen, sent, recv, val, proc, shipped, rejected, shipperGone,
                 recvGone, valGone, procGone, outcome>>

ReceiverReturns ==
  /\ Running /\ incomingClosed /\ recv = 0 /\ ~recvGone
  /\ recvGone' = TRUE
  /\ UNCHANGED <<chosen, sent, recv, val, proc, shipped, rejected, shipperGone,
                 incomingClosed, valGone, procGone, outcome>>

ValidatorReturns ==
  /\ Running /\ recvGone /\ val = 0 /\ ~valGone
  /\ valGone' = TRUE
  /\ UNCHANGED <<chosen, sent, recv, val, proc, shipped, rejected, shipperGone,
                 incomingClosed, recvGone, procGone, outcome>>

ProcessorReturns(p) ==
  /\ Running /\ valGone /\ proc[p] = 0 /\ p \notin procGone
  /\ procGone' = procGone \union {p}
  /\ UNCHANGED <<chosen, sent, recv, val, proc, shipped, rejected, shipperGone,
                 incomingClosed, recvGone, valGone, outcome>>

(* main's select: the wait group comes down, or 10 s pass.  Without a stall  *)
(* that only happens when a processor is left with an order and no shipper.  *)
WaitGroupDone == valGone /\ procGone = Processors /\ shipperGone

Complete ==
  /\ outcome = "running" /\ WaitGroupDone
  /\ outcome' = "completed"
  /\ UNCHANGED <<chosen, sent, recv, val, proc, shipped, rejected, shipperGone, closing>>

Timeout ==
  /\ outcome = "running" /\ sent = Len(batch)
  /\ stalls \/ (shipperGone /\ \E p \in Processors : proc[p] # 0)
  /\ outcome' = "timeout"
  /\ UNCHANGED <<chosen, sent, recv, val, proc, shipped, rejected, shipperGone, closing>>

Processor(p) == ToProcessor(p) \/ Ship(p) \/ ProcessorReturns(p)
Next ==
  \/ SendOrder \/ ToValidator \/ Reject \/ ShipperLeaves
  \/ CloseIncoming \/ ReceiverReturns \/ ValidatorReturns \/ Complete \/ Timeout
  \/ \E p \in Processors : Processor(p)

Spec == Init /\ [][Next]_vars

(* Every goroutine that can run is run, and timers go off.                   *)
FairSpec ==
  /\ Spec
  /\ WF_vars(SendOrder) /\ WF_vars(CloseIncoming) /\ WF_vars(Complete \/ Timeout)
  /\ WF_vars(ToValidator \/ ReceiverReturns) /\ WF_vars(Reject \/ ValidatorReturns)
  /\ WF_vars(ShipperLeaves) /\ \A p \in Processors : WF_vars(Processor(p))
-----------------------------------------------------------------------------
Held == ({recv, val} \union {proc[p] : p \in Processors}) \ {0}
Valid == {o \in 1..Len(batch) : batch[o]}

(* main in SendOrder, every stage in the send that follows, shipper gone.    *)
Frozen ==
  /\ sent < Len(batch) /\ recv # 0 /\ val # 0 /\ batch[val]
  /\ shipperGone /\ \A p \in Processors : proc[p] # 0

(* The variables have their types.                                           *)
TypeOK ==
  /\ batch \in Batches /\ stalls \in BOOLEAN /\ sent \in 0..Len(batch)
  /\ recv \in 0..Len(batch) /\ val \in 0..Len(batch)
  /\ proc \in [Processors -> 0..Len(batch)] /\ procGone \subseteq Processors
  /\ shipped \subseteq 1..Len(batch) /\ rejected \subseteq 1..Len(batch)
  /\ \A b \in {shipperGone, incomingClosed, recvGone, valGone} : b \in BOOLEAN
  /\ outcome \in {"running", "completed", "timeout"}

(* Every order sent is shipped, rejected or in exactly one stage's hands,    *)
(* whatever the timers do (the hand-overs of pipeline.go:69-159).            *)
Accounted ==
  /\ shipped \union rejected \union Held = 1..sent
  /\ shipped \intersect rejected = {} /\ Held \intersect (shipped \union rejected) = {}
  /\ recv # 0 => recv # val /\ \A p \in Processors : proc[p] # recv
  /\ val # 0 => \A p \in Processors : proc[p] # val
  /\ \A p, q \in Processors : proc[p] = proc[q] /\ proc[p] # 0 => p = q

(* Where the program freezes: main is one order past the one receiver holds, *)
(* and before that one exactly MaxShipped + processors + 1 orders had items  *)
(* (for pipeline.go's batch that is order 18).                             *)
FrozenPosition ==
  Frozen /\ ~stalls =>
    Cardinality(Valid \intersect 1..(sent - 1)) = MaxShipped + Cardinality(Processors) + 1

(* "Pipeline completed successfully" is never printed with an order left     *)
(* over, not even when a stall makes shipper give up early.                  *)
SuccessMeansAll ==
  outcome = "completed" => shipped = Valid /\ rejected = 1..Len(batch) \ Valid

(* Without stalls the batch alone decides: it completes when shipper takes   *)
(* all its valid orders, else the program freezes or main times out.         *)
Settles ==
  /\ (~stalls /\ Cardinality(Valid) <= MaxShipped) ~> (outcome = "completed")
  /\ (~stalls /\ Cardinality(Valid) > MaxShipped) ~> [](Frozen \/ outcome = "timeout")
=============================================================================
