----------------------------- MODULE MCPipeline -----------------------------
(* The constants of pipeline.go and five batches: main's 25 orders (of those *)
(* it gets to, seed 1 leaves 4, 11 and 15 without items), one that shipper   *)
(* can just take, two that leave one and two orders in the processors, and a *)
(* short one after which shipper times out.                                  *)
EXTENDS Pipeline

MCProcessors == 1..2
Without(n, empty) == [o \in 1..n |-> o \notin empty]
MCBatches ==
  {Without(25, {4, 11, 15}), Without(11, {3}), Without(11, {}), Without(13, {13}),
   Without(4, {2, 4})}
=============================================================================
