--------------------------- MODULE MCServiceMaps ---------------------------
(* Two workers with a key each: one makes the three requests it takes to     *)
(* miss, hit and hit again with invalidations in between, the other one that *)
(* falls in with any of them.  The verifier's two keys without repetitions,  *)
(* one collector.                                                            *)
EXTENDS ServiceMaps

MCWorkers == {"w1", "w2"}
MCVerifier == "v"
MCRequests == [w \in MCWorkers |-> IF w = "w1" THEN 3 ELSE 1]
MCCollectors == {"c1"}
=============================================================================
